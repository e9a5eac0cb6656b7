CONSTANTS
  t1 = t1
  t2 = t2
  Tasks = {t1, t2}
  DependsOn <- MCDependsOn
  MutationIds = {1}
  Syncs = {s1, s2}
  OtherStatuses = {"in_progress", "completed"}
  MaxClock = 3
  NoTrip = NoTrip
SPECIFICATION Spec
SYMMETRY Symmetry
CHECK_DEADLOCK FALSE
INVARIANTS AppliedAtMostOnce StatusesResolved DroppedMutationsWereSaved
