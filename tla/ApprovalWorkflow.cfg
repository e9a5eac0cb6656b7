CONSTANTS
  Requests = {r1, r2}
  Keys = {k1, k2}
  MaxFaults = 1
  MaxEdits = 1
  None = None
SPECIFICATION FairSpec
INVARIANTS OneRun CompletedIsTrue
PROPERTIES CompletedStays ProgressKept DraftIsApproved
