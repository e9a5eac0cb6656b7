CONSTANTS
  Jobs = {j1}
  Workers = {w1, w2}
  Observers = {}
  LeaseIds = {l1, l2, l3}
  MaxAttempts = 2
  MaxLapses = 1
  MaxCrashes = 1
  NoItem = NoItem
  NoLease = NoLease
SPECIFICATION FairSpec
INVARIANTS NoJobLost OneWorkerPerJob RetryBudget DuplicationBound
PROPERTIES EveryJobSettles LeasesAreReturned
