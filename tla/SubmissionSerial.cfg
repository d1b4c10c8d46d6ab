SPECIFICATION SerialSpec
CONSTANTS
  s1 = s1
  u1 = u1
  u2 = u2
  r1 = r1
  r2 = r2
  None = None
  Submissions <- OneSubmission
  Users <- TwoUsers
  Requests <- OneRequest
  Ops <- AllOps
  MaxBulk = 2
  EnableCache = FALSE
PROPERTY ImplementsLifecycle
PROPERTY HistoryTellsStatus
PROPERTY ClaimsAreExclusive
CHECK_DEADLOCK FALSE
