SPECIFICATION Spec
CONSTANTS
  s1 = s1
  u1 = u1
  u2 = u2
  r1 = r1
  r2 = r2
  None = None
  Submissions <- OneSubmission
  Users <- OneUser
  Requests <- TwoRequests
  Ops <- DecideOps
  MaxBulk = 1
  EnableCache = FALSE
PROPERTY MovesAllowed
CHECK_DEADLOCK FALSE
