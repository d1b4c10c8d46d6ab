----------------------------- MODULE Submission -----------------------------
(***************************************************************************)
(* The submission review workflow: the use case (usecase.go), the          *)
(* repository it writes through, the SQL it runs and the two worker tasks  *)
(* (tasks.go) of internal/feature/submission.                              *)
(*                                                                         *)
(* No operation runs in a database transaction, so an operation is a       *)
(* sequence of autocommitted statements: it reads the row, checks what it  *)
(* read, and writes later.  A request in flight is a record with the       *)
(* stage it has reached and the row it read; each action is one statement  *)
(* of one request or task, with the code around it.                        *)
(*                                                                         *)
(* The abstraction: texts, tags, notifications and the read cache (which   *)
(* never answers a read) are left out; the history table is represented by *)
(* its newest row for each submission; updated_at by the age 0, 1 or 2: at *)
(* least 15 days since the last write at age 1 (DefaultArchiveDays), at    *)
(* least 30 at age 2 (DefaultTimeoutDays).                                 *)
(***************************************************************************)
EXTENDS SubmissionStatus, Naturals, Sequences

CONSTANTS
  Submissions,   \* identities of submissions
  Users,         \* users that exist in the user table
  Requests,      \* request slots: how many requests can be in flight
  Ops,           \* the operations requests may be for
  MaxBulk,       \* bound: longest id list of a bulk update
  EnableCache,   \* cfg.Cache.EnableCache; the worker's repositories are
                 \* built with a nil cache client whatever its value
  None           \* no user, no row, no submission, no history (SQL NULL)

AllOps == {"create", "update", "delete", "approve", "reject", "claim",
           "assign", "softDelete", "archive", "bulkApprove", "bulkReject"}

\* The columns of a row that control reads.
Rows == [status: Statuses, approver: Users \cup {None},
         approvedAt: BOOLEAN, deleted: BOOLEAN]

ASSUME ConstantsAssumption ==
  /\ Ops \subseteq AllOps
  /\ MaxBulk \in Nat
  /\ EnableCache \in BOOLEAN
  /\ None \notin Users \cup Submissions \cup Rows \cup Statuses \cup AllOps

VARIABLES
  row,      \* table submission: id |-> row, or None
  used,     \* ids ever inserted (an id is a fresh UUID, never reused)
  age,      \* id |-> periods of 15 days since updated_at, at most 2
  assigns,  \* table submission_assignment: id |-> the users assigned
  log,      \* newest row of submission_status_history: id |-> [old, new]
  req,      \* requests in flight
  timeoutJob, \* the run of the timeout task: candidates left, one to log
  archiveJob  \* the run of the archive task

table == <<row, used, age, assigns, log>>
vars == <<table, req, timeoutJob, archiveJob>>

Stages == {"idle", "check", "validate", "assign", "blind", "write", "log", "next"}
\* A request: its operation and stage, the submission and user it names, the
\* row it has read; for a bulk update, the ids and those still to do.
Request(op, stage, s, who, snap, ids) ==
  [op |-> op, at |-> stage, sub |-> s, who |-> who, snap |-> snap,
   ids |-> ids, todo |-> ids]
Idle == Request(None, "idle", None, None, None, <<>>)
NoTimeouts == [todo |-> {}, cur |-> None]
NoArchive == [marked |-> FALSE, old |-> [s \in Submissions |-> None]]

IdLists == UNION {[1..n -> Submissions] : n \in 0..MaxBulk}
LogRows == [old: Statuses, new: Statuses]
RequestRecords == [op: Ops \cup {None}, at: Stages, sub: Submissions \cup {None},
                   who: Users \cup {None}, snap: Rows \cup {None},
                   ids: Seq(Submissions), todo: Seq(Submissions)]

TypeOK ==
  /\ row \in [Submissions -> Rows \cup {None}]
  /\ used \subseteq Submissions
  /\ age \in [Submissions -> 0..2]
  /\ assigns \in [Submissions -> SUBSET Users]
  /\ log \in [Submissions -> LogRows \cup {None}]
  /\ req \in [Requests -> RequestRecords]
  /\ timeoutJob \in [todo: SUBSET Submissions, cur: Submissions \cup {None}]
  /\ archiveJob \in [marked: BOOLEAN,
                     old: [Submissions -> Statuses \cup {None}]]

Init ==
  /\ row = [s \in Submissions |-> None]
  /\ used = {}
  /\ age = [s \in Submissions |-> 0]
  /\ assigns = [s \in Submissions |-> {}]
  /\ log = [s \in Submissions |-> None]
  /\ req = [r \in Requests |-> Idle]
  /\ timeoutJob = NoTimeouts
  /\ archiveJob = NoArchive

-----------------------------------------------------------------------------
(* Statements *)

Exists(s) == row[s] # None

\* Mutant of Live: deleted rows are found too.
LiveOrDeleted(s) == Exists(s)

\* getOrNotFound: SELECT ... WHERE id = $1 AND is_deleted = FALSE.
Live(s) == Exists(s) /\ ~row[s].deleted

\* An UPDATE of one row; it sets updated_at.
Put(s, new) ==
  /\ row' = [row EXCEPT ![s] = new]
  /\ age' = [age EXCEPT ![s] = 0]

\* UpdateSubmissionStatus: SET status WHERE id = $1, whatever the row holds.
UpdateStatus(s, status) == Put(s, [row[s] EXCEPT !.status = status])

Goto(r, stage) == req' = [req EXCEPT ![r].at = stage]
Return(r) == req' = [req EXCEPT ![r] = Idle]
JobsUnchanged == UNCHANGED <<timeoutJob, archiveJob>>

\* A request for one submission that found its row and passed its checks;
\* it keeps the row it read.
Begin(r, op, s, who, stage) ==
  /\ req[r] = Idle
  /\ op \in Ops
  /\ Live(s)
  /\ req' = [req EXCEPT ![r] = Request(op, stage, s, who, row[s], <<>>)]
  /\ UNCHANGED table
  /\ JobsUnchanged

\* r is about to run the statement of the given stage on an existing row.
Ready(r, ops, stage) ==
  /\ req[r].op \in ops
  /\ req[r].at = stage
  /\ Exists(req[r].sub)

\* The statement finds no row (UPDATE ... RETURNING gives ErrNoRows, an
\* INSERT breaks its foreign key): the operation returns an error, or has
\* only a best-effort history insert left to lose.  It is a case of Abort(r),
\* the one that certainly happens.
RowGone(r) ==
  /\ req[r].at \in {"assign", "blind", "write", "log"}
  /\ ~Exists(req[r].sub)
  /\ Return(r)
  /\ UNCHANGED table
  /\ JobsUnchanged

\* A statement fails, the client goes away, or the process stops: whatever
\* the request has written stays written.
Abort(r) ==
  /\ req[r] # Idle
  /\ Return(r)
  /\ UNCHANGED table
  /\ JobsUnchanged

-----------------------------------------------------------------------------
(* Reading and checking: the first statement of each operation *)

\* Create: inserts the row, status pending.  The history insert that follows
\* has old_status '', which the enum refuses, so no history row appears.
Create(r, s, approver) ==
  /\ req[r] = Idle
  /\ "create" \in Ops
  /\ s \notin used
  /\ used' = used \cup {s}
  /\ Put(s, [status |-> "pending", approver |-> approver,
             approvedAt |-> FALSE, deleted |-> FALSE])
  /\ req' = [req EXCEPT ![r] =
                 Request("create", "assign", s, None, None, <<>>)]
  /\ UNCHANGED <<assigns, log>>
  /\ JobsUnchanged

\* Update and UpdateContext: the row is read to be written back whole, with
\* the approver of the request when it names one.
StartUpdate(r, s, who) == Begin(r, "update", s, who, "write")

StartDelete(r, s) == Begin(r, "delete", s, None, "write")

StartSoftDelete(r, s) == Begin(r, "softDelete", s, None, "write")

\* Mutant of StartApprove: the status is not checked.
StartApproveUnchecked(r, s, who) == Begin(r, "approve", s, who, "write")

StartApprove(r, s, who) ==
  /\ Live(s)
  /\ row[s].status \in {"pending", "claimed", "assigned"}
  /\ Begin(r, "approve", s, who, "write")

StartReject(r, s, who) ==
  /\ Live(s)
  /\ IsValidTransition(row[s].status, "rejected")
  /\ Begin(r, "reject", s, who, "write")

\* Mutant of StartArchive: the transition is not checked.
StartArchiveUnchecked(r, s) == Begin(r, "archive", s, None, "write")

StartArchive(r, s) ==
  /\ Live(s)
  /\ IsValidTransition(row[s].status, "archived")
  /\ Begin(r, "archive", s, None, "write")

StartClaim(r, s, who) ==
  /\ Live(s)
  /\ row[s].status = "pending"
  /\ Begin(r, "claim", s, who, "check")

\* Mutant of StartAssign: the row is written without an assignment.
StartAssignRowOnly(r, s, who) == Begin(r, "assign", s, who, "write")

\* Assign consults no transition table.
StartAssign(r, s, who) == Begin(r, "assign", s, who, "assign")

\* BulkUpdateStatus validates every id before it begins.
StartBulk(r, op, ids) ==
  /\ req[r] = Idle
  /\ op \in Ops
  /\ req' = [req EXCEPT ![r] = Request(op, "validate", None, None, None, ids)]
  /\ UNCHANGED table
  /\ JobsUnchanged

-----------------------------------------------------------------------------
(* Assignments *)

\* Mutant of ClaimCheck: the assignment that is found is ignored.
ClaimCheckIgnored(r) ==
  /\ req[r].op = "claim" /\ req[r].at = "check"
  /\ Goto(r, "assign") \/ Goto(r, "blind")
  /\ UNCHANGED table
  /\ JobsUnchanged

\* Claim: GetBySubmissionID; an assignment it finds is ErrAlreadyClaimed.  Its
\* error is dropped: after a look-up that failed, Claim goes on blindly, as if
\* there were no assignment.
ClaimCheck(r) ==
  /\ req[r].op = "claim" /\ req[r].at = "check"
  /\ \/ assigns[req[r].sub] = {} /\ Goto(r, "assign")
     \/ assigns[req[r].sub] # {} /\ Return(r)
     \/ Goto(r, "blind")
  /\ UNCHANGED table
  /\ JobsUnchanged

InsertAssignment(s, u) ==
  /\ assigns' = [assigns EXCEPT ![s] = @ \cup {u}]
  /\ UNCHANGED <<row, used, age, log>>

\* Claim and Assign insert the assignment before they write the row.
AssignmentInsert(r) ==
  /\ Ready(r, {"claim", "assign"}, "assign") \/ Ready(r, {"claim"}, "blind")
  /\ InsertAssignment(req[r].sub, req[r].who)
  /\ Goto(r, "write")
  /\ JobsUnchanged

\* Create inserts one assignment per id in AssigneeIDs.
CreateAssignment(r, u) ==
  /\ Ready(r, {"create"}, "assign")
  /\ InsertAssignment(req[r].sub, u)
  /\ UNCHANGED req
  /\ JobsUnchanged

CreateReturn(r) ==
  /\ req[r].op = "create"
  /\ Return(r)
  /\ UNCHANGED table
  /\ JobsUnchanged

-----------------------------------------------------------------------------
(* Writing: nothing is checked again *)

\* UpdateSubmission: every column from the row read at the start, so
\* is_deleted is FALSE in it.
UpdateWrite(r) ==
  /\ Ready(r, {"update"}, "write")
  /\ Put(req[r].sub,
         IF req[r].who = None THEN req[r].snap
         ELSE [req[r].snap EXCEPT !.approver = req[r].who])
  /\ Return(r)
  /\ UNCHANGED <<used, assigns, log>>
  /\ JobsUnchanged

\* The status Claim and Assign put in the row they read.
Holding == [claim |-> "claimed", assign |-> "assigned"]

\* Claim and Assign: the same whole-row write, with approver and status.
HoldWrite(r) ==
  /\ Ready(r, {"claim", "assign"}, "write")
  /\ Put(req[r].sub, [req[r].snap EXCEPT !.approver = req[r].who,
                                         !.status = Holding[req[r].op]])
  /\ Goto(r, "log")
  /\ UNCHANGED <<used, assigns, log>>
  /\ JobsUnchanged

\* Mutant of ApproveWrite: only the status is set.
ApproveWriteStatusOnly(r) ==
  /\ Ready(r, {"approve"}, "write")
  /\ UpdateStatus(req[r].sub, "approved")
  /\ Goto(r, "log")
  /\ UNCHANGED <<used, assigns, log>>
  /\ JobsUnchanged

\* UpdateSubmissionApproved.
ApproveWrite(r) ==
  /\ Ready(r, {"approve"}, "write")
  /\ Put(req[r].sub, [row[req[r].sub] EXCEPT !.status = "approved",
                                             !.approvedAt = TRUE,
                                             !.approver = req[r].who])
  /\ Goto(r, "log")
  /\ UNCHANGED <<used, assigns, log>>
  /\ JobsUnchanged

RejectWrite(r) ==
  /\ Ready(r, {"reject"}, "write")
  /\ UpdateStatus(req[r].sub, "rejected")
  /\ Goto(r, "log")
  /\ UNCHANGED <<used, assigns, log>>
  /\ JobsUnchanged

ArchiveWrite(r) ==
  /\ Ready(r, {"archive"}, "write")
  /\ UpdateStatus(req[r].sub, "archived")
  /\ Goto(r, "log")
  /\ UNCHANGED <<used, assigns, log>>
  /\ JobsUnchanged

\* SoftDeleteSubmission; the status stays.
SoftDeleteWrite(r) ==
  /\ Ready(r, {"softDelete"}, "write")
  /\ Put(req[r].sub, [row[req[r].sub] EXCEPT !.deleted = TRUE])
  /\ Goto(r, "log")
  /\ UNCHANGED <<used, assigns, log>>
  /\ JobsUnchanged

\* DeleteSubmission; assignments and history go with the row.
DeleteWrite(r) ==
  /\ Ready(r, {"delete"}, "write")
  /\ row' = [row EXCEPT ![req[r].sub] = None]
  /\ age' = [age EXCEPT ![req[r].sub] = 0]
  /\ assigns' = [assigns EXCEPT ![req[r].sub] = {}]
  /\ log' = [log EXCEPT ![req[r].sub] = None]
  /\ Return(r)
  /\ UNCHANGED used
  /\ JobsUnchanged

\* The new status each operation records; soft deletion records an archiving.
Recorded == [claim |-> "claimed", assign |-> "assigned",
             approve |-> "approved", reject |-> "rejected",
             archive |-> "archived", softDelete |-> "archived"]

InsertHistory(s, old, new) ==
  /\ log' = [log EXCEPT ![s] = [old |-> old, new |-> new]]
  /\ UNCHANGED <<row, used, age, assigns>>

\* Mutant of RecordHistory: old and new are swapped.
RecordHistorySwapped(r) ==
  /\ Ready(r, DOMAIN Recorded, "log")
  /\ InsertHistory(req[r].sub, Recorded[req[r].op], req[r].snap.status)
  /\ Return(r)
  /\ JobsUnchanged

\* recordHistory: the old status is the one read at the start.
RecordHistory(r) ==
  /\ Ready(r, DOMAIN Recorded, "log")
  /\ InsertHistory(req[r].sub, req[r].snap.status, Recorded[req[r].op])
  /\ Return(r)
  /\ JobsUnchanged

-----------------------------------------------------------------------------
(* BulkUpdateStatus *)

BulkTarget == [bulkApprove |-> "approved", bulkReject |-> "rejected"]

BulkMayMove(r) ==
  LET s == Head(req[r].todo) IN
  /\ Live(s)
  /\ IsValidTransition(row[s].status, BulkTarget[req[r].op])

\* Validation of the next id; an invalid one ends the request.
BulkValidate(r) ==
  /\ req[r].at = "validate"
  /\ IF req[r].todo = <<>>
       THEN req' = [req EXCEPT ![r].at = "next", ![r].todo = req[r].ids]
       ELSE IF BulkMayMove(r)
         THEN req' = [req EXCEPT ![r].todo = Tail(@)]
         ELSE Return(r)
  /\ UNCHANGED table
  /\ JobsUnchanged

\* approveInTx and rejectInTx read and check again, outside the transaction.
\* Bulk approval stops here: its approver is the nil UUID, which the foreign
\* key on approver_id refuses.
BulkRead(r) ==
  /\ req[r].at = "next"
  /\ IF /\ req[r].todo # <<>>
        /\ req[r].op = "bulkReject"
        /\ BulkMayMove(r)
       THEN req' = [req EXCEPT ![r].at = "write",
                               ![r].sub = Head(req[r].todo),
                               ![r].todo = Tail(req[r].todo)]
       ELSE Return(r)
  /\ UNCHANGED table
  /\ JobsUnchanged

\* rejectInTx: the update is committed at once; the history insert names the
\* nil UUID as its author and is refused.
BulkRejectWrite(r) ==
  /\ Ready(r, {"bulkReject"}, "write")
  /\ UpdateStatus(req[r].sub, "rejected")
  /\ Goto(r, "next")
  /\ UNCHANGED <<used, assigns, log>>
  /\ JobsUnchanged

-----------------------------------------------------------------------------
(* The worker's tasks.  A retry of a task is another run of it. *)

TimeoutCandidates ==
  {s \in Submissions : Live(s) /\ row[s].status = "pending" /\ age[s] = 2}

TimeoutStart ==
  /\ timeoutJob = NoTimeouts
  /\ TimeoutCandidates # {}
  /\ timeoutJob' = [NoTimeouts EXCEPT !.todo = TimeoutCandidates]
  /\ UNCHANGED <<table, req, archiveJob>>

\* With the cache enabled UpdateStatus first invalidates through the nil
\* cache client: the handler panics before it writes anything.  It is a case
\* of TaskAbort, the one that certainly happens.
TimeoutPanic ==
  /\ EnableCache
  /\ timeoutJob.todo # {}
  /\ timeoutJob' = NoTimeouts
  /\ UNCHANGED <<table, req, archiveJob>>

\* Mutant of TimeoutWrite: assigned submissions are passed over.
TimeoutWriteUnassigned(s) ==
  /\ ~EnableCache
  /\ timeoutJob.cur = None
  /\ s \in timeoutJob.todo
  /\ IF Exists(s) /\ assigns[s] = {}
       THEN /\ UpdateStatus(s, "timeouted")
            /\ timeoutJob' = [todo |-> timeoutJob.todo \ {s}, cur |-> s]
       ELSE /\ timeoutJob' = [timeoutJob EXCEPT !.todo = @ \ {s}]
            /\ UNCHANGED <<row, age>>
  /\ UNCHANGED <<used, assigns, log, req, archiveJob>>

\* processTimeoutSubmission: the candidate is not looked at again.  A row that
\* is gone is an error, and the loop continues.
TimeoutWrite(s) ==
  /\ ~EnableCache
  /\ timeoutJob.cur = None
  /\ s \in timeoutJob.todo
  /\ IF Exists(s)
       THEN /\ UpdateStatus(s, "timeouted")
            /\ timeoutJob' = [todo |-> timeoutJob.todo \ {s}, cur |-> s]
       ELSE /\ timeoutJob' = [timeoutJob EXCEPT !.todo = @ \ {s}]
            /\ UNCHANGED <<row, age>>
  /\ UNCHANGED <<used, assigns, log, req, archiveJob>>

\* The old status of the history row is the constant pending.
TimeoutRecord ==
  /\ timeoutJob.cur # None
  /\ timeoutJob' = [timeoutJob EXCEPT !.cur = None]
  /\ IF Exists(timeoutJob.cur)
       THEN InsertHistory(timeoutJob.cur, "pending", "timeouted")
       ELSE UNCHANGED table
  /\ UNCHANGED <<req, archiveJob>>

ArchiveCandidates ==
  {s \in Submissions : /\ Live(s)
                       /\ row[s].status \in {"approved", "rejected", "timeouted"}
                       /\ age[s] >= 1}

\* The task keeps the status each candidate had.
ArchiveStart ==
  /\ archiveJob = NoArchive
  /\ ArchiveCandidates # {}
  /\ archiveJob' = [marked |-> FALSE,
                    old |-> [s \in Submissions |-> IF s \in ArchiveCandidates
                                                   THEN row[s].status
                                                   ELSE None]]
  /\ UNCHANGED <<table, req, timeoutJob>>

\* Mutant of Archivable: timed-out submissions are passed over.
ArchivableDecided ==
  {s \in Submissions : archiveJob.old[s] \in {"approved", "rejected"} /\ Exists(s)}

\* The candidates an UPDATE ... WHERE id = ANY(ids) still finds.
Archivable == {s \in Submissions : archiveJob.old[s] # None /\ Exists(s)}

\* BulkMarkArchived: one statement archives them all.  With the cache enabled
\* the nil cache client panics on the first row it returned, after the
\* statement has been committed.
ArchiveMark ==
  /\ ~archiveJob.marked
  /\ archiveJob # NoArchive
  /\ row' = [s \in Submissions |->
               IF s \in Archivable THEN [row[s] EXCEPT !.status = "archived"]
                                   ELSE row[s]]
  /\ age' = [s \in Submissions |-> IF s \in Archivable THEN 0 ELSE age[s]]
  /\ archiveJob' =
       IF EnableCache \/ Archivable = {} THEN NoArchive
       ELSE [marked |-> TRUE,
             old |-> [s \in Submissions |-> IF s \in Archivable
                                            THEN archiveJob.old[s] ELSE None]]
  /\ UNCHANGED <<used, assigns, log, req, timeoutJob>>

ArchiveRecord(s) ==
  /\ archiveJob.marked
  /\ archiveJob.old[s] # None
  /\ IF Exists(s) THEN InsertHistory(s, archiveJob.old[s], "archived")
                  ELSE UNCHANGED table
  /\ LET left == [archiveJob.old EXCEPT ![s] = None]
     IN archiveJob' = [marked |-> left # NoArchive.old, old |-> left]
  /\ UNCHANGED <<req, timeoutJob>>

\* The worker stops, or the task's time runs out: the run is over.
TaskAbort ==
  /\ \/ /\ timeoutJob # NoTimeouts
        /\ timeoutJob' = NoTimeouts
        /\ UNCHANGED archiveJob
     \/ /\ archiveJob # NoArchive
        /\ archiveJob' = NoArchive
        /\ UNCHANGED timeoutJob
  /\ UNCHANGED <<table, req>>

-----------------------------------------------------------------------------
(* Time: 15 days go by; no request and no run of a task lasts that long *)

Busy == {r \in Requests : req[r] # Idle}
          \cup {j \in {"timeout"} : timeoutJob # NoTimeouts}
          \cup {j \in {"archive"} : archiveJob # NoArchive}

\* Mutant of DaysPass: the count of periods is not bounded.
DaysPassUnbounded ==
  /\ Busy = {}
  /\ age' = [s \in Submissions |-> IF Exists(s) THEN age[s] + 1 ELSE 0]
  /\ UNCHANGED <<row, used, assigns, log, req>>
  /\ JobsUnchanged

DaysPass ==
  /\ Busy = {}
  /\ \E s \in Submissions : Exists(s) /\ age[s] < 2
  /\ age' = [s \in Submissions |->
               IF Exists(s) /\ age[s] < 2 THEN age[s] + 1 ELSE age[s]]
  /\ UNCHANGED <<row, used, assigns, log, req>>
  /\ JobsUnchanged

-----------------------------------------------------------------------------

Start(r) ==
  \/ \E s \in Submissions :
       \/ \E u \in Users \cup {None} : Create(r, s, u) \/ StartUpdate(r, s, u)
       \/ StartDelete(r, s) \/ StartSoftDelete(r, s) \/ StartArchive(r, s)
       \/ \E u \in Users : \/ StartApprove(r, s, u) \/ StartReject(r, s, u)
                           \/ StartClaim(r, s, u) \/ StartAssign(r, s, u)
  \/ \E ids \in IdLists : \E op \in DOMAIN BulkTarget : StartBulk(r, op, ids)

Continue(r) ==
  \/ ClaimCheck(r) \/ AssignmentInsert(r) \/ CreateReturn(r)
  \/ \E u \in Users : CreateAssignment(r, u)
  \/ UpdateWrite(r) \/ HoldWrite(r) \/ ApproveWrite(r) \/ RejectWrite(r)
  \/ ArchiveWrite(r) \/ SoftDeleteWrite(r) \/ DeleteWrite(r)
  \/ RecordHistory(r)
  \/ BulkValidate(r) \/ BulkRead(r) \/ BulkRejectWrite(r)

Tasks ==
  \/ TimeoutStart \/ TimeoutRecord
  \/ ArchiveStart \/ ArchiveMark
  \/ \E s \in Submissions : TimeoutWrite(s) \/ ArchiveRecord(s)

Next ==
  \/ \E r \in Requests : Start(r) \/ Continue(r) \/ Abort(r)
  \/ Tasks \/ TaskAbort
  \/ DaysPass

Spec == Init /\ [][Next]_vars

-----------------------------------------------------------------------------
(* Safety *)

\* An approved submission carries its approval: approved_at is set and an
\* approver is named.  UpdateSubmissionApproved sets the three columns
\* together, the whole-row writes of Update, Claim and Assign put back columns
\* read earlier, and UpdateStatus changes the status alone: whatever the
\* overlap, no mixture of them may show an approval without its stamp.
ApprovedStamped ==
  \A s \in Submissions :
    Exists(s) /\ row[s].status = "approved" =>
      row[s].approvedAt /\ row[s].approver # None

\* A claimed or assigned submission has an approver and an assignment.  Claim
\* and Assign insert the assignment first and write the row later, other
\* requests write the row from what they read in between, and any of them may
\* stop half way.
HeldHasAssignment ==
  \A s \in Submissions :
    Exists(s) /\ row[s].status \in {"claimed", "assigned"} =>
      row[s].approver # None /\ assigns[s] # {}

\* A history row for a claim, an approval, a rejection or a timeout shows a
\* step of the transition table, even when the submission has moved on since
\* the operation read it: the status recorded as old is the one checked.
HistoryLegal ==
  \A s \in Submissions :
    log[s] # None /\ log[s].new \notin {"assigned", "archived"} =>
      IsValidTransition(log[s].old, log[s].new)

\* Why those hold: what a request in flight remembers.  It names a submission
\* that was inserted, and has the row and the user its later stages use.
RequestFormed(q) ==
  /\ q.sub # None => q.sub \in used
  /\ q.op \in DOMAIN Recorded \cup {"update", "delete"} =>
       q.sub # None /\ q.snap # None
  /\ q.op \in {"approve", "reject", "claim", "assign"} => q.who # None
  /\ q.snap # None \/ q.at = "write" => q.sub # None
  /\ q.op \in {"bulkApprove", "bulkReject"} => q.snap = None

\* The row a request has read, however old, is one that may be written back;
\* the assignment of a claim is there before its row is; and the status read
\* admits the one that will be recorded.
SnapshotSound(q) ==
  q.snap # None =>
    LET hasAssignment == Exists(q.sub) => assigns[q.sub] # {}
    IN /\ q.snap.status = "approved" =>
            q.snap.approvedAt /\ q.snap.approver # None
       /\ q.snap.status \in {"claimed", "assigned"} =>
            q.snap.approver # None /\ hasAssignment
       /\ q.op \in {"claim", "assign"} /\ q.at = "write" => hasAssignment
       /\ q.op \in {"claim", "approve", "reject"} =>
            IsValidTransition(q.snap.status, Recorded[q.op])

RequestsSound ==
  /\ \A s \in Submissions : Exists(s) => s \in used
  /\ \A r \in Requests : RequestFormed(req[r]) /\ SnapshotSound(req[r])

\* The inductive invariant: all of the above together.
WorkflowInv ==
  /\ TypeOK /\ RequestsSound
  /\ ApprovedStamped /\ HeldHasAssignment /\ HistoryLegal

-----------------------------------------------------------------------------
(* What overlapping operations may never do *)

\* Over for its users: soft-deleted or archived.
Ended(s) == Exists(s) /\ (row[s].deleted \/ row[s].status = "archived")

\* q read or checked s while it was open, and has a write of it left.
MayReopen(q, s) ==
  /\ q.sub = s
  /\ \/ q.op \in {"claim", "assign"} /\ q.at \in {"check", "assign", "blind", "write"}
     \/ q.op \in {"approve", "reject", "bulkReject"} /\ q.at = "write"
     \/ q.op = "update" /\ q.snap.status # "archived"

Closed(s) ==
  /\ Ended(s)
  /\ s \notin timeoutJob.todo
  /\ \A r \in Requests : ~MayReopen(req[r], s)

\* A submission that has ended stays ended, once nothing is in flight that saw
\* it open: the stale writes of requests, and a timeout run that listed it, are
\* all that can bring it back, and nothing else of that kind can begin, except
\* an Assign of an archived one that is not deleted, which consults no table.
EndedStays ==
  [][\A s \in Submissions : Closed(s) /\ Exists(s)' =>
       \/ Closed(s)'
       \/ /\ Ended(s)' /\ ~row[s].deleted
          /\ \E r \in Requests : req[r] = Idle /\ req'[r].op = "assign"]_vars

-----------------------------------------------------------------------------
(* What a step may never do, by the documents of the repository *)

\* "Archived: Final state for all submissions" (README.md:290).
ArchivedIsFinal ==
  [][\A s \in Submissions :
       Exists(s) /\ row[s].status = "archived" /\ Exists(s)' =>
         row'[s].status = "archived"]_vars

\* "ValidStatusTransitions defines allowed status transitions" (errors.go:26).
MovesAllowed ==
  [][\A s \in Submissions :
       Exists(s) /\ Exists(s)' /\ row[s].status # row'[s].status =>
         IsValidTransition(row[s].status, row'[s].status)]_vars

\* GetAvailable (submission.sql:106-112): pending and without approver.
Available == {s \in Submissions : /\ Live(s)
                                  /\ row[s].status = "pending"
                                  /\ row[s].approver = None}

\* "Retrieves a list of pending, unassigned submissions"
\* (http_handler.go:162).
AvailableUnassigned == \A s \in Available : assigns[s] = {}

\* "Claims an available unassigned submission for the authenticated user"
\* (http_handler.go:471): a claimed submission was assigned to one user.
OneClaimant ==
  \A s \in Submissions :
    Exists(s) /\ row[s].status = "claimed" =>
      \A u, v \in assigns[s] : u = v

-----------------------------------------------------------------------------
(* Liveness *)

\* asynq starts each task and a started run goes on.  A run may be
\* cut short, and requests come and go, so the writes of a run need strong
\* fairness: a worker that is stopped at the same statement of every run is
\* not considered.
Fairness ==
  /\ \A r \in Requests : WF_vars(Continue(r) \/ RowGone(r))
  /\ WF_vars(TimeoutStart) /\ WF_vars(TimeoutPanic) /\ WF_vars(TimeoutRecord)
  /\ WF_vars(ArchiveStart) /\ SF_vars(ArchiveMark)
  /\ \A s \in Submissions : /\ SF_vars(TimeoutWrite(s))
                            /\ WF_vars(ArchiveRecord(s))

FairSpec == Spec /\ Fairness

\* A pending submission that has been idle for 30 days does not stay so.
IdleIsTimedOut ==
  \A s \in Submissions :
    s \in TimeoutCandidates ~> s \notin TimeoutCandidates

\* A decided or timed-out submission that has been idle does not stay so.
DecidedIsArchived ==
  \A s \in Submissions :
    s \in ArchiveCandidates ~> s \notin ArchiveCandidates
=============================================================================
