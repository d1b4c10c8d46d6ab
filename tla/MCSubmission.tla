---------------------------- MODULE MCSubmission ----------------------------
EXTENDS SubmissionSerial, TLC

CONSTANTS s1, u1, u2, r1, r2

OneSubmission == {s1}
OneUser == {u1}
TwoUsers == {u1, u2}
OneRequest == {r1}
TwoRequests == {r1, r2}

HoldOps == {"create", "update", "claim", "assign", "approve", "delete"}
EndOps == {"create", "update", "reject", "archive", "softDelete", "bulkReject",
           "bulkApprove"}
DecideOps == {"create", "approve", "reject"}

Symmetry == Permutations(Requests) \cup Permutations(Users)
=============================================================================
