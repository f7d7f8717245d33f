SPECIFICATION FairSpec
CONSTANTS
  o1 = o1
  Object = {o1}
  MaxBox = 6
  Faults = {"api", "create", "kill", "restart"}
  MaxFaults = 3
  MaxTouch = 2
INVARIANTS
  EveryBoxIsAccountedFor
PROPERTIES
  Converges
CHECK_DEADLOCK FALSE
