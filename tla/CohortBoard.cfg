SPECIFICATION FairSpec
CONSTANTS
  t1 = t1
  t2 = t2
  w1 = w1
  w2 = w2
  NoOwner = NoOwner
  Task <- MCTask
  Worker <- MCWorker
  Seeds <- MCSeeds
  Leases = {0, 2}
  Second = 2
  Day = 3
  MaxVersion = 2
  LastOp = 3
  MaxClock = 5
INVARIANTS
  OwnerHoldsLease
PROPERTIES
  SweepSparesLiveLeases
  ImplementsTaskLease
  SilentWorkerRequeued
