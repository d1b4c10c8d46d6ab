-------------------------- MODULE SubmissionStatus --------------------------
(***************************************************************************)
(* The status graph of a submission, as the feature's error and transition *)
(* tables define it (internal/feature/submission/errors.go) over the       *)
(* database enum submission_status.                                        *)
(***************************************************************************)
EXTENDS FiniteSets

Statuses == {"pending", "claimed", "assigned", "approved", "rejected",
             "timeouted", "archived"}

\* errors.go: status |-> the statuses it may become.
ValidStatusTransitions ==
  [s \in Statuses |->
     CASE s = "pending" ->
            {"claimed", "assigned", "approved", "rejected", "timeouted"}
       [] s \in {"claimed", "assigned"} -> {"approved", "rejected", "archived"}
       [] s \in {"approved", "rejected", "timeouted"} -> {"archived"}
       [] s = "archived" -> {}]

IsValidTransition(from, to) == to \in ValidStatusTransitions[from]
=============================================================================
