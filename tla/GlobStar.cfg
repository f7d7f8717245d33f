SPECIFICATION MCSpec
CONSTANTS
  c1 = c1
  c2 = c2
  c3 = c3
  c4 = c4
  o1 = o1
  o2 = o2
  r1 = r1
  GlobChars = {"a", "*"}
  Call <- TwoCalls
  Key = {"k"}
  KeyOf <- OneKey
  EgressCall = {}
  Verdicts = {"allow"}
  Operator = {}
  Reporter = {}
  Faults = {}
  MaxExecs = 0
  EgressRequests = 0
  LoopThreshold = 0
  MaxTokens = 0
INVARIANT
  GlobMatchesAnyRun
CHECK_DEADLOCK FALSE
