------------------------- MODULE SubmissionLifecycle -------------------------
(***************************************************************************)
(* What the submission workflow promises when operations do not overlap:   *)
(* one status for each submission, moving along the transition table; a    *)
(* reassignment from any status (Assign consults no table); soft deletion, *)
(* which hides a submission from every later operation; and removal.       *)
(* The table is errors.go; the operations are those of usecase.go.         *)
(***************************************************************************)
EXTENDS SubmissionStatus

CONSTANT Submissions

VARIABLES status, hidden

lifecycle == <<status, hidden>>

LifecycleInit ==
  /\ status = [s \in Submissions |-> "unborn"]
  /\ hidden = {}

\* The submissions an operation can reach.
Reachable == {s \in Submissions : status[s] \in Statuses} \ hidden

Open(s) ==
  /\ status[s] = "unborn"
  /\ status' = [status EXCEPT ![s] = "pending"]
  /\ UNCHANGED hidden

Move(s, to) ==
  /\ s \in Reachable
  /\ IsValidTransition(status[s], to)
  /\ status' = [status EXCEPT ![s] = to]
  /\ UNCHANGED hidden

Reassign(s) ==
  /\ s \in Reachable
  /\ status' = [status EXCEPT ![s] = "assigned"]
  /\ UNCHANGED hidden

\* The archive task archives several decided submissions at once.
ArchiveAll(S) ==
  /\ \A s \in S : s \in Reachable /\ IsValidTransition(status[s], "archived")
  /\ status' = [s \in Submissions |-> IF s \in S THEN "archived" ELSE status[s]]
  /\ UNCHANGED hidden

Hide(s) ==
  /\ s \in Reachable
  /\ hidden' = hidden \cup {s}
  /\ UNCHANGED status

Remove(s) ==
  /\ s \in Reachable
  /\ status' = [status EXCEPT ![s] = "removed"]
  /\ UNCHANGED hidden

LifecycleNext ==
  \/ \E s \in Submissions :
       \/ Open(s) \/ Reassign(s) \/ Hide(s) \/ Remove(s)
       \/ \E to \in Statuses : Move(s, to)
  \/ \E S \in SUBSET Submissions : ArchiveAll(S)

LifecycleSpec == LifecycleInit /\ [][LifecycleNext]_lifecycle
=============================================================================
