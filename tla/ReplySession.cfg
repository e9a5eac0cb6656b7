CONSTANTS
  Replies = {r1, r2, r3}
  Kinds = {preference, feasibility}
  MaxTurns = 2
  Routes = {"sync", "job", "queue"}
  None = None
SPECIFICATION Spec
SYMMETRY Symmetry
CHECK_DEADLOCK FALSE
INVARIANTS LimitHolds FinalCloses MeetsQuestion
