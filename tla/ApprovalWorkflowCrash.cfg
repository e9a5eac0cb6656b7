CONSTANTS
  Requests = {r1, r2}
  Keys = {k1}
  MaxFaults = 1
  MaxEdits = 0
  None = None
SPECIFICATION FairSpec
PROPERTY ApprovalRecovers
