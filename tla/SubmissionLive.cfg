SPECIFICATION FairSpec
CONSTANTS
  s1 = s1
  u1 = u1
  u2 = u2
  r1 = r1
  r2 = r2
  None = None
  Submissions <- OneSubmission
  Users <- OneUser
  Requests <- OneRequest
  Ops <- AllOps
  MaxBulk = 1
  EnableCache = FALSE
PROPERTY IdleIsTimedOut
PROPERTY DecidedIsArchived
CHECK_DEADLOCK FALSE
