CONSTANTS
  Jobs = {j1, j2}
  MaxParts = 1
  MaxFailures = 1
  SupportsEventSource = TRUE
  None = None
SPECIFICATION FairSpec
INVARIANTS AnswerBelongsToActive ListensUntilTold DraftIsOfItsPlan
PROPERTIES FinalAnswerStays PlanIsShown
CHECK_DEADLOCK FALSE
