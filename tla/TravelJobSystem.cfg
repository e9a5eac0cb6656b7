CONSTANTS
  Jobs = {j1, j2}
  Workers = {w1}
  Observers = {}
  LeaseIds = {l1, l2}
  MaxAttempts = 2
  MaxLapses = 1
  MaxCrashes = 1
  NoItem = NoItem
  NoLease = NoLease
  NoRecord = NoRecord
  GeneralQuestions = {j1}
  QaConfigured = TRUE
  Flaky = {j1}
  Expiring = {j2}
  Feeds = {j1}
SPECIFICATION SysSpec
SYMMETRY Symmetry
INVARIANTS SysTypeOK StoreMatchesQueue ToldCompletedStays
PROPERTIES ImplementsLifecycle
