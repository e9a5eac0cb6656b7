CONSTANTS
  Jobs = {j1, j2}
  Workers = {w1, w2}
  Observers = {}
  LeaseIds = {l1, l2}
  MaxAttempts = 2
  MaxLapses = 0
  MaxCrashes = 1
  NoItem = NoItem
  NoLease = NoLease
  NoRecord = NoRecord
  GeneralQuestions = {}
  QaConfigured = FALSE
  Flaky = {j1}
  Expiring = {}
  Feeds = {}
SPECIFICATION SysFairSpec
PROPERTIES JobsGetVerdict
