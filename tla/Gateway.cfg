CONSTANTS
  w1 = w1
  w2 = w2
  c1 = c1
  c2 = c2
  n1 = n1
  k1 = k1
  t1 = t1
  i1 = i1
  b1 = b1
  NoOne = NoOne
  Worker = {w1, w2}
  Principals <- MCPrincipals
  Charters = {"x", "y"}
  Citadel = {c1, c2}
  Snap = {n1}
  Cohort = {k1}
  Ticket = {t1}
  Cookie = {i1}
  Driver = {b1}
  Transports <- MCTransports
  Nobody <- None
  Modes = {"open", "token", "rbac"}
  TicketTTL = 1
  SessionTTL = 1
  MaxClock = 2
  MaxRequests = 4
  Verification = {w1, w2}
  KeySets <- MCKeySets
  Cooldown = 2
  Lifetime = 2
  MaxTime = 3
  MaxErrors = 1
  Request = {w1, w2}
  NoName = ""
  Objects <- MCObjects
  PolicySets <- MCPolicySets
  CacheTTL = 1
  ListLatency = 1
  MaxAdmTime = 3
  Workloads <- MCWorkloads
SPECIFICATION MCSpec
SYMMETRY Symmetry
INVARIANTS
  TicketsAreOneShot
  IDEAccessEnds
  NewKeysAreFound
  AdmittedWasChecked
PROPERTY OnlyEntitled
CHECK_DEADLOCK FALSE
