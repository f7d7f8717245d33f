SPECIFICATION MCSpec
CONSTANTS
  p1 = p1
  p2 = p2
  s1 = s1
  s2 = s2
  e1 = e1
  e2 = e2
  Process <- MCProcess
  Session <- MCSession
  SignModes = {TRUE}
  Faults = {"write"}
  MaxAppends = 3
  Emitter = {e1, e2}
  Events <- MCEvents
  MaxHosts = 1
  ExecBurst = 1
  MaxDenies = 1
  Window = 1
  WarnCooldown = 2
  MaxNow = 3
  MaxEmits = 4
  MaxDamage = 0
SYMMETRY Symmetry
CHECK_DEADLOCK FALSE
INVARIANTS
  ReturnedIsStored
