CONSTANTS
  t1 = t1
  t2 = t2
  Tasks = {t1, t2}
  DependsOn <- MCDependsOn
  MutationIds = {}
  Patches = {p1, p2}
  MaxEdits = 1
  None = None
  Asked = Asked
SPECIFICATION FairSpec
CHECK_DEADLOCK FALSE
INVARIANTS QuietScreenIsTrue TapStays TappedTwiceSavedOnce
PROPERTY ScreenCatchesUp
