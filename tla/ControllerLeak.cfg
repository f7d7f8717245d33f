SPECIFICATION Spec
CONSTANTS
  o1 = o1
  Object = {o1}
  MaxBox = 1
  Faults = {}
  MaxFaults = 0
  MaxTouch = 0
INVARIANTS
  TornDown
CHECK_DEADLOCK FALSE
