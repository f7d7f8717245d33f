SPECIFICATION MCSpec
CONSTANTS
  c1 = c1
  c2 = c2
  c3 = c3
  c4 = c4
  o1 = o1
  o2 = o2
  r1 = r1
  GlobChars = {"a", "b"}
  Call <- TwoCalls
  Key = {"k"}
  KeyOf <- OneKey
  EgressCall = {c1, c2}
  Verdicts = {"allow", "deny", "require-approval"}
  Operator = {o1, o2}
  Reporter = {}
  Faults = {"kill"}
  MaxExecs = 2
  EgressRequests = 1
  LoopThreshold = 1
  MaxTokens = 1
INVARIANTS
  ExecutedWasAuthorized
  WithinRationing
  BudgetHoldsWhileLive
  GlobMatchesAnyRun
  
  OracleForetells

  
CHECK_DEADLOCK FALSE
