CONSTANTS
  a1 = a1
  a2 = a2
  k1 = k1
  o1 = o1
  o2 = o2
  p1 = p1
  p2 = p2
  Agent = {a1, a2}
  Outcomes = {"completed", "denied"}
  Client = {}
  Faults = {}
  Window = 2
  Buffer = 1
  MaxLines = 0
  MaxStops = 0
  Observer = {o1, o2}
  HistoryLimit = 2
  SubscriberBuf = 2
  MaxMessages = 3
  Producer = {p1, p2}
  Configs <- MCConfigs
  QueueSize = 2
  MaxTries = 2
  MaxEvents = 3
  MaxFaults = 1
SPECIFICATION MCSpec
SYMMETRY Symmetry
INVARIANT
  StartedIsDurable
CHECK_DEADLOCK FALSE
