------------------------- MODULE MCSubmissionScopes -------------------------
(***************************************************************************)
(* Two instances of Submission in one run: which requests may overlap, and *)
(* whether the cache is enabled, is chosen at the start and kept.          *)
(***************************************************************************)
EXTENDS MCSubmission

VARIABLE scope

Hold == INSTANCE Submission WITH Ops <- HoldOps
End == INSTANCE Submission WITH Ops <- EndOps, EnableCache <- TRUE

ScopeInit == Init /\ scope \in {"hold", "end"}

ScopeNext ==
  /\ UNCHANGED scope
  /\ \/ scope = "hold" /\ Hold!Next
     \/ scope = "end" /\ End!Next

ScopeSpec == ScopeInit /\ [][ScopeNext]_<<vars, scope>>
=============================================================================
