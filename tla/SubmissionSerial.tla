-------------------------- MODULE SubmissionSerial --------------------------
(***************************************************************************)
(* The workflow with at most one request or task run in flight, and what   *)
(* it then implements: SubmissionLifecycle.  Everything the concurrent     *)
(* system does outside that lifecycle needs an overlap of operations.      *)
(***************************************************************************)
EXTENDS Submission

\* The tasks are no request slots: Busy has one element for each of them.
ASSUME SlotsAssumption == {"timeout", "archive"} \cap Requests = {}

OneAtATime == \A p, q \in Busy : p = q

SerialNext == Next /\ OneAtATime'

SerialSpec == Init /\ [][SerialNext]_vars

Lifecycle == INSTANCE SubmissionLifecycle WITH
  status <- [s \in Submissions |->
               IF Exists(s) THEN row[s].status
               ELSE IF s \in used THEN "removed" ELSE "unborn"],
  hidden <- {s \in Submissions : Exists(s) /\ row[s].deleted}

\* One operation at a time, every change of status, deletion and removal the
\* code makes is a step of the lifecycle: the checks of the use case suffice.
ImplementsLifecycle == Lifecycle!LifecycleSpec

\* One operation at a time, a history row names the status the submission has
\* when the row is inserted, and the archive and timeout tasks record moves of
\* the table.  Soft deletion is the exception: it records an archiving while
\* the status stays.
HistoryTellsStatus ==
  [][\A s \in Submissions :
       log'[s] # log[s] /\ log'[s] # None =>
         \/ /\ row[s].status = log'[s].new
            /\ \/ IsValidTransition(log'[s].old, log'[s].new)
               \/ log'[s].new = "assigned"
         \/ row[s].deleted /\ log'[s].new = "archived"]_vars

\* One operation at a time, a claim adds an assignment to a submission that has
\* one, however it got it, only when its look-up failed: Claim looks and inserts
\* in two statements, and takes a failed look-up for no assignment.
ClaimsAreExclusive ==
  [][\A s \in Submissions, r \in Requests :
       /\ req[r].op = "claim" /\ req[r].at # "blind"
       /\ assigns'[s] # assigns[s]
       => assigns[s] = {}]_vars
=============================================================================
