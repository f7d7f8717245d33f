CONSTANTS
  a1 = a1
  a2 = a2
  k1 = k1
  o1 = o1
  o2 = o2
  p1 = p1
  p2 = p2
  Agent = {a1}
  Outcomes = {"completed", "denied"}
  Client = {k1}
  Faults = {"save", "transcript", "crash", "kill", "close"}
  Window = 2
  Buffer = 2
  MaxLines = 2
  MaxStops = 1
  Observer = {o1, o2}
  HistoryLimit = 2
  SubscriberBuf = 2
  MaxMessages = 3
  Producer = {p1, p2}
  Configs <- MCConfigs
  QueueSize = 2
  MaxTries = 2
  MaxEvents = 3
  MaxFaults = 1
SPECIFICATION MCFairSpec
INVARIANTS
  CompletionHasBacklog
  FinalSurvivesRestart
  StreamHasNoGap
  EndedStreamIsComplete
  FeedHasNoGap
  CollectorKeepsOrder

  
CHECK_DEADLOCK FALSE
