CONSTANTS
  t1 = t1
  t2 = t2
  Tasks = {t1, t2}
  DependsOn <- MCDependsOn
  MutationIds = {1, 2}
  Syncs = {s1}
  OtherStatuses = {}
  MaxClock = 1
  NoTrip = NoTrip
SPECIFICATION Spec
SYMMETRY Symmetry
CHECK_DEADLOCK FALSE
INVARIANT NoMutationLost
