SPECIFICATION ScopeSpec
CONSTANTS
  s1 = s1
  u1 = u1
  u2 = u2
  r1 = r1
  r2 = r2
  None = None
  Submissions <- OneSubmission
  Users <- OneUser
  Requests <- TwoRequests
  Ops <- AllOps
  MaxBulk = 2
  EnableCache = FALSE
INVARIANT TypeOK
INVARIANT ApprovedStamped
INVARIANT HeldHasAssignment
INVARIANT HistoryLegal
PROPERTY EndedStays
SYMMETRY Symmetry
CHECK_DEADLOCK FALSE
