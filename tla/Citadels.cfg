CONSTANTS
  s1 = s1
  s2 = s2
  n1 = n1
  r1 = r1
  r2 = r2
  k1 = k1
  k2 = k2
  x1 = x1
  x2 = x2
  Sandbox = {s1, s2}
  Snap = {n1}
  HostTypes = {"container", "k8s"}
  RuntimeEnv = ""
  Installed = {"podman"}
  Specs <- MCSpecs
  MaxFaults = 1
  Citadel = {s1, s2}
  RunId = {r1, r2}
  Killer = {k1, k2}
  CitadelFaults = {"verify", "ide", "save", "kill", "crash"}
  MaxStops = 1
  Conn = {x1, x2}
  Requests <- MCRequests
  Policies <- MCPolicies
  Answers <- MCAnswers
  IPv4 = {"a1", "a2"}
  NoAddr = "none"
  LogSize = 2
  ResolverLists <- MCResolverLists
  Address = {"d1", "d2", "a1", "lo"}
  MaxRefused = 2
  MaxSetups = 3
  MaxWrites = 1
SPECIFICATION MCSpec
SYMMETRY Symmetry
INVARIANTS
  SandboxesMatchSessions
  RunningRunIsLive
  RunEndsWithCitadel
  
  EnforcedWhileRunning
  SnapshotsAreDurable
  
  DialedWasAllowed
  RedirectEnforced
  RerunRecovers
CHECK_DEADLOCK FALSE
