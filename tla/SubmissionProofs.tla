-------------------------- MODULE SubmissionProofs --------------------------
(***************************************************************************)
(* Proofs about Submission, for any submissions, users, request slots and  *)
(* operations.  WorkflowInv is inductive: the three safety invariants are  *)
(* not inductive by themselves, because a request writes back columns it   *)
(* read earlier, so the invariant also says what a request remembers.      *)
(* About SubmissionSerial, with one operation at a time: what a request    *)
(* remembers is also still true (SerialInv), so the workflow implements    *)
(* its lifecycle and its two action properties hold.  In the end, of       *)
(* overlapping operations again: what has ended stays ended.               *)
(***************************************************************************)
EXTENDS SubmissionSerial, TLAPS

\* A request record satisfies its part of the invariant.
RequestOK(q) == /\ q \in RequestRecords
                /\ RequestFormed(q)
                /\ SnapshotSound(q)

\* The constants of the operations' tables.
LEMMA Tables ==
  /\ DOMAIN Recorded = {"claim", "assign", "approve", "reject", "archive",
                        "softDelete"}
  /\ \A op \in DOMAIN Recorded : Recorded[op] \in Statuses
  /\ Holding["claim"] = "claimed" /\ Holding["assign"] = "assigned"
  /\ Recorded["claim"] = "claimed" /\ Recorded["approve"] = "approved"
  /\ Recorded["reject"] = "rejected"
BY DEF Recorded, Holding, Statuses

\* An idle slot is sound in every state.
LEMMA IdleOK == RequestOK(Idle)
<1>1. Idle \in RequestRecords
  BY DEF Idle, Request, RequestRecords, Stages
<1>2. RequestFormed(Idle)
  BY ConstantsAssumption, Tables DEF Idle, Request, RequestFormed, AllOps
<1>3. SnapshotSound(Idle)
  BY DEF Idle, Request, SnapshotSound
<1>. QED BY <1>1, <1>2, <1>3 DEF RequestOK

\* A step that keeps the table and sets one slot to a sound record.
LEMMA RequestStep ==
  ASSUME WorkflowInv, NEW r \in Requests, NEW q, RequestOK(q),
         req' = [req EXCEPT ![r] = q], UNCHANGED table, JobsUnchanged
  PROVE  WorkflowInv'
<1>. USE DEF WorkflowInv, table, JobsUnchanged
<1>1. TypeOK'
  BY DEF TypeOK, RequestOK
<1>2. RequestsSound'
  BY DEF TypeOK, RequestsSound, RequestOK, RequestFormed, SnapshotSound, Exists
<1>3. ApprovedStamped' /\ HeldHasAssignment' /\ HistoryLegal'
  BY DEF ApprovedStamped, HeldHasAssignment, HistoryLegal, Exists
<1>. QED BY <1>1, <1>2, <1>3

\* A request that ends leaves the invariant to the others.
LEMMA ReturnStep ==
  ASSUME WorkflowInv, NEW r \in Requests, Return(r), UNCHANGED table,
         JobsUnchanged
  PROVE  WorkflowInv'
BY IdleOK, RequestStep DEF Return

\* An update of one row, with any sound records in the slots afterwards.
LEMMA PutStep ==
  ASSUME WorkflowInv, NEW s \in Submissions, NEW new \in Rows, Put(s, new),
         Exists(s), UNCHANGED <<used, assigns, log>>, JobsUnchanged,
         req' \in [Requests -> RequestRecords],
         \A r \in Requests : RequestOK(req'[r]),
         new.status = "approved" => new.approvedAt /\ new.approver # None,
         new.status \in {"claimed", "assigned"} =>
           new.approver # None /\ assigns[s] # {}
  PROVE  WorkflowInv'
<1>. USE DEF WorkflowInv, JobsUnchanged, Put
<1>0. new # None
  BY ConstantsAssumption
<1>1. TypeOK'
  BY DEF TypeOK
<1>2. \A x \in Submissions : Exists(x)' <=> Exists(x)
  BY <1>0 DEF TypeOK, Exists
<1>3. RequestsSound'
  <2>1. \A x \in Submissions : Exists(x)' => x \in used'
    BY <1>2 DEF RequestsSound
  <2>2. ASSUME NEW r \in Requests
        PROVE  RequestFormed(req[r])' /\ SnapshotSound(req[r])'
    <3>1. RequestOK(req'[r])
      OBVIOUS
    <3>2. req'[r].sub # None => req'[r].sub \in Submissions
      BY <3>1 DEF RequestOK, RequestRecords
    <3>3. RequestFormed(req[r])'
      BY <3>1 DEF RequestOK, RequestFormed
    <3>4. SnapshotSound(req[r])'
      BY <3>1, <3>2, <1>2 DEF RequestOK, SnapshotSound, RequestFormed
    <3>. QED BY <3>3, <3>4
  <2>. QED BY <2>1, <2>2 DEF RequestsSound
<1>4. ApprovedStamped'
  BY <1>2 DEF ApprovedStamped, TypeOK
<1>5. HeldHasAssignment'
  BY <1>2 DEF HeldHasAssignment, TypeOK
<1>6. HistoryLegal'
  BY DEF HistoryLegal
<1>. QED BY <1>1, <1>3, <1>4, <1>5, <1>6

-----------------------------------------------------------------------------
(* Starting a request *)

LEMMA BeginStep ==
  ASSUME WorkflowInv, NEW r \in Requests, NEW op, NEW s \in Submissions,
         NEW who \in Users \cup {None}, NEW stage \in Stages,
         Begin(r, op, s, who, stage),
         op \in {"approve", "reject", "claim", "assign"} => who # None,
         op \in {"claim", "approve", "reject"} =>
           IsValidTransition(row[s].status, Recorded[op]),
         op \in {"claim", "assign"} => stage # "write",
         op \notin {"bulkApprove", "bulkReject"}
  PROVE  WorkflowInv'
<1>. DEFINE q == Request(op, stage, s, who, row[s], <<>>)
<1>1. /\ q.op = op /\ q.at = stage /\ q.sub = s /\ q.who = who
      /\ q.snap = row[s] /\ q \in RequestRecords
  <2>1. row[s] \in Rows \cup {None} /\ op \in Ops
    BY DEF WorkflowInv, TypeOK, Begin
  <2>. QED BY <2>1 DEF RequestRecords, Request
<1>2. RequestFormed(q)
  BY <1>1, ConstantsAssumption DEF RequestFormed, Begin, Live, Exists, WorkflowInv, RequestsSound
<1>3. SnapshotSound(q)
  BY <1>1 DEF SnapshotSound, Begin, Live, Exists, WorkflowInv, ApprovedStamped,
              HeldHasAssignment
<1>4. RequestOK(q)
  BY <1>1, <1>2, <1>3 DEF RequestOK
<1>. QED BY <1>4, RequestStep DEF Begin

\* The operations that check nothing the invariant depends on.
LEMMA BeginPlain ==
  ASSUME WorkflowInv, NEW r \in Requests, NEW s \in Submissions,
         NEW who \in Users \cup {None},
         NEW op \in {"update", "delete", "softDelete", "archive"},
         Begin(r, op, s, who, "write")
  PROVE  WorkflowInv'
<1>1. /\ op \notin {"approve", "reject", "claim", "assign"}
      /\ op \notin {"bulkApprove", "bulkReject"}
  OBVIOUS
<1>2. "write" \in Stages
  BY DEF Stages
<1>. QED BY <1>1, <1>2, BeginStep

\* The statuses an approval and a claim start from are in the table.
LEMMA CheckedStatuses ==
  /\ \A x \in {"pending", "claimed", "assigned"} : IsValidTransition(x, "approved")
  /\ IsValidTransition("pending", "claimed")
BY DEF IsValidTransition, ValidStatusTransitions, Statuses

LEMMA CreateStep ==
  ASSUME WorkflowInv, NEW r \in Requests, NEW s \in Submissions,
         NEW u \in Users \cup {None}, Create(r, s, u)
  PROVE  WorkflowInv'
<1>. DEFINE new == [status |-> "pending", approver |-> u,
                    approvedAt |-> FALSE, deleted |-> FALSE]
            q == Request("create", "assign", s, None, None, <<>>)
<1>. USE DEF WorkflowInv, Create, Put, JobsUnchanged
<1>0. new \in Rows /\ new # None
  <2>1. new \in Rows
    BY DEF Rows, Statuses
  <2>. QED BY <2>1, ConstantsAssumption
<1>1. /\ q.op = "create" /\ q.sub = s /\ q.snap = None /\ q.at = "assign"
      /\ q \in RequestRecords
  BY DEF RequestRecords, Request, Stages
<1>2. TypeOK'
  BY <1>0, <1>1 DEF TypeOK
<1>3. \A x \in Submissions : x # s => (Exists(x)' <=> Exists(x))
  BY DEF Exists, TypeOK
<1>4. \A x \in Submissions : Exists(x)' => x \in used'
  BY <1>3 DEF RequestsSound
<1>5. ASSUME NEW p \in Requests
      PROVE  RequestFormed(req[p])' /\ SnapshotSound(req[p])'
  <2>1. CASE p = r
    <3>1. req'[p] = q /\ s \in used'
      BY <2>1 DEF TypeOK
    <3>. HIDE DEF q
    <3>2. RequestFormed(req[p])'
      BY <3>1, <1>1, Tables, ConstantsAssumption DEF RequestFormed
    <3>. QED BY <3>1, <3>2, <1>1 DEF SnapshotSound
  <2>2. CASE p # r
    <3>1. /\ req'[p] = req[p] /\ req[p] \in RequestRecords
          /\ RequestFormed(req[p]) /\ SnapshotSound(req[p])
      BY <2>2 DEF TypeOK, RequestsSound
    <3>2. RequestFormed(req[p])'
      BY <3>1 DEF RequestFormed
    <3>3. req[p].snap # None => req[p].sub \in Submissions /\ req[p].sub # s
      BY <3>1 DEF RequestFormed, RequestRecords
    <3>4. SnapshotSound(req[p])'
      BY <3>1, <3>3, <1>3 DEF SnapshotSound
    <3>. QED BY <3>2, <3>4
  <2>. QED BY <2>1, <2>2
<1>6. RequestsSound'
  BY <1>4, <1>5 DEF RequestsSound
<1>7. ApprovedStamped' /\ HeldHasAssignment'
  BY <1>3, <1>0 DEF ApprovedStamped, HeldHasAssignment, TypeOK
<1>8. HistoryLegal'
  BY DEF HistoryLegal
<1>. QED BY <1>2, <1>6, <1>7, <1>8

LEMMA StartBulkStep ==
  ASSUME WorkflowInv, NEW r \in Requests, NEW op \in DOMAIN BulkTarget,
         NEW ids \in IdLists, StartBulk(r, op, ids)
  PROVE  WorkflowInv'
<1>. DEFINE q == Request(op, "validate", None, None, None, ids)
<1>1. ids \in Seq(Submissions)
  BY ConstantsAssumption DEF IdLists
<1>2. op \in {"bulkApprove", "bulkReject"}
  BY DEF BulkTarget
<1>3. /\ q.op = op /\ q.sub = None /\ q.snap = None /\ q.at = "validate"
      /\ q \in RequestRecords
  BY <1>1 DEF Request, RequestRecords, Stages, StartBulk
<1>4. RequestOK(q)
  BY <1>2, <1>3, Tables DEF RequestOK, RequestFormed, SnapshotSound
<1>. QED BY <1>4, RequestStep DEF StartBulk

LEMMA StartStep ==
  ASSUME WorkflowInv, NEW r \in Requests, Start(r)
  PROVE  WorkflowInv'
<1>1. ASSUME NEW s \in Submissions, NEW u \in Users \cup {None},
             Create(r, s, u) \/ StartUpdate(r, s, u)
      PROVE  WorkflowInv'
  <2>1. CASE Create(r, s, u)
    BY <2>1, CreateStep
  <2>2. CASE StartUpdate(r, s, u)
    <3>1. Begin(r, "update", s, u, "write")
      BY <2>2 DEF StartUpdate
    <3>. QED BY <3>1, BeginPlain
  <2>. QED BY <1>1, <2>1, <2>2
<1>2. ASSUME NEW s \in Submissions,
             StartDelete(r, s) \/ StartSoftDelete(r, s) \/ StartArchive(r, s)
      PROVE  WorkflowInv'
  <2>1. CASE StartDelete(r, s)
    <3>1. Begin(r, "delete", s, None, "write")
      BY <2>1 DEF StartDelete
    <3>. QED BY <3>1, BeginPlain
  <2>2. CASE StartSoftDelete(r, s)
    <3>1. Begin(r, "softDelete", s, None, "write")
      BY <2>2 DEF StartSoftDelete
    <3>. QED BY <3>1, BeginPlain
  <2>3. CASE StartArchive(r, s)
    <3>1. Begin(r, "archive", s, None, "write")
      BY <2>3 DEF StartArchive
    <3>. QED BY <3>1, BeginPlain
  <2>. QED BY <1>2, <2>1, <2>2, <2>3
<1>3. ASSUME NEW s \in Submissions, NEW u \in Users,
             \/ StartApprove(r, s, u) \/ StartReject(r, s, u)
             \/ StartClaim(r, s, u) \/ StartAssign(r, s, u)
      PROVE  WorkflowInv'
  <2>0. u # None
    BY ConstantsAssumption
  <2>1. CASE StartApprove(r, s, u)
    BY <2>0, <2>1, BeginStep, Tables, CheckedStatuses DEF StartApprove, Stages
  <2>2. CASE StartReject(r, s, u)
    BY <2>0, <2>2, BeginStep, Tables DEF StartReject, Stages
  <2>3. CASE StartClaim(r, s, u)
    BY <2>0, <2>3, BeginStep, Tables, CheckedStatuses DEF StartClaim, Stages
  <2>4. CASE StartAssign(r, s, u)
    <3>1. "assign" \in Stages BY DEF Stages
    <3>2. Begin(r, "assign", s, u, "assign") BY <2>4 DEF StartAssign
    <3>3. /\ "assign" \notin {"claim", "approve", "reject", "bulkApprove", "bulkReject"}
          /\ "assign" # "write" /\ u \in Users \cup {None}
      OBVIOUS
    <3>. QED BY <2>0, <3>1, <3>2, <3>3, BeginStep
  <2>. QED BY <1>3, <2>1, <2>2, <2>3, <2>4
<1>4. ASSUME NEW ids \in IdLists, NEW op \in DOMAIN BulkTarget,
             StartBulk(r, op, ids)
      PROVE  WorkflowInv'
  BY <1>4, StartBulkStep
<1>. QED BY <1>1, <1>2, <1>3, <1>4 DEF Start

-----------------------------------------------------------------------------
(* Continuing a request *)

\* Every slot after a request has ended is sound.
LEMMA ReturnOK ==
  ASSUME WorkflowInv, NEW r \in Requests, Return(r)
  PROVE  /\ req' \in [Requests -> RequestRecords]
         /\ \A p \in Requests : RequestOK(req'[p])
BY IdleOK DEF Return, WorkflowInv, TypeOK, RequestsSound, RequestOK

\* Moving a request on keeps the records' type.
LEMMA GotoType ==
  ASSUME req \in [Requests -> RequestRecords], NEW r \in Requests,
         NEW stage \in Stages, Goto(r, stage)
  PROVE  req' \in [Requests -> RequestRecords]
<1>1. [req[r] EXCEPT !.at = stage] \in RequestRecords
  BY DEF RequestRecords
<1>2. req' = [req EXCEPT ![r] = [req[r] EXCEPT !.at = stage]]
  BY DEF Goto
<1>. QED BY <1>1, <1>2

\* Every slot after a request has moved to a stage is sound, unless it is the
\* stage in which a claim needs its assignment.
LEMMA GotoOK ==
  ASSUME WorkflowInv, NEW r \in Requests, NEW stage \in Stages \ {"write"},
         Goto(r, stage)
  PROVE  /\ req' \in [Requests -> RequestRecords]
         /\ \A p \in Requests : RequestOK(req'[p])
<1>. USE DEF WorkflowInv, TypeOK
<1>1. req' \in [Requests -> RequestRecords]
  BY GotoType
<1>2. ASSUME NEW p \in Requests
      PROVE  RequestFormed(req'[p]) /\ SnapshotSound(req'[p])
  <2>1. RequestFormed(req[p]) /\ SnapshotSound(req[p])
    BY DEF RequestsSound
  <2>2. /\ req'[p].op = req[p].op /\ req'[p].sub = req[p].sub
        /\ req'[p].who = req[p].who /\ req'[p].snap = req[p].snap
        /\ req'[p].at = req[p].at \/ req'[p].at # "write"
    BY DEF Goto, RequestRecords
  <2>3. RequestFormed(req'[p])
    BY <2>1, <2>2 DEF RequestFormed
  <2>4. SnapshotSound(req'[p])
    BY <2>1, <2>2 DEF SnapshotSound
  <2>. QED BY <2>3, <2>4
<1>. QED BY <1>1, <1>2 DEF RequestOK

\* A step that only moves requests on.
LEMMA SlotsStep ==
  ASSUME WorkflowInv, UNCHANGED table, JobsUnchanged,
         req' \in [Requests -> RequestRecords],
         \A p \in Requests : RequestOK(req'[p])
  PROVE  WorkflowInv'
<1>. USE DEF WorkflowInv, table, JobsUnchanged
<1>1. TypeOK'
  BY DEF TypeOK
<1>2. RequestsSound'
  BY DEF RequestsSound, RequestOK, RequestFormed, SnapshotSound, Exists
<1>3. ApprovedStamped' /\ HeldHasAssignment' /\ HistoryLegal'
  BY DEF ApprovedStamped, HeldHasAssignment, HistoryLegal, Exists
<1>. QED BY <1>1, <1>2, <1>3

\* A new assignment: nothing that was sound becomes unsound.
LEMMA AssignmentStep ==
  ASSUME WorkflowInv, NEW s \in Submissions, NEW u \in Users,
         InsertAssignment(s, u), JobsUnchanged,
         req' \in [Requests -> RequestRecords],
         \A p \in Requests : RequestFormed(req'[p]) /\ SnapshotSound(req[p])',
         \A x \in Submissions : Exists(x) => x \in used
  PROVE  WorkflowInv'
<1>. USE DEF WorkflowInv, InsertAssignment, JobsUnchanged
<1>1. TypeOK'
  BY DEF TypeOK
<1>2. RequestsSound'
  BY DEF RequestsSound, RequestFormed, Exists
<1>3. ApprovedStamped' /\ HistoryLegal'
  BY DEF ApprovedStamped, HistoryLegal, Exists
<1>4. HeldHasAssignment'
  BY DEF HeldHasAssignment, Exists, TypeOK
<1>. QED BY <1>1, <1>2, <1>3, <1>4

LEMMA AssignmentSteps ==
  ASSUME WorkflowInv, NEW r \in Requests,
         AssignmentInsert(r) \/ \E u \in Users : CreateAssignment(r, u)
  PROVE  WorkflowInv'
<1>. USE DEF WorkflowInv, TypeOK
<1>0. \A x \in Submissions : Exists(x) => x \in used
  BY DEF RequestsSound
<1>1. CASE AssignmentInsert(r)
  <2>. DEFINE s == req[r].sub
  <2>1. /\ req[r] \in RequestRecords /\ req[r].op \in {"claim", "assign"}
        /\ RequestFormed(req[r])
    BY <1>1 DEF AssignmentInsert, Ready, RequestsSound
  <2>2. s \in Submissions /\ req[r].who \in Users
    BY <2>1, Tables DEF RequestFormed, RequestRecords
  <2>3. req' \in [Requests -> RequestRecords]
    BY <1>1, GotoType DEF AssignmentInsert, Stages
  <2>4. InsertAssignment(s, req[r].who) /\ JobsUnchanged /\ Goto(r, "write")
    BY <1>1 DEF AssignmentInsert
  <2>5. ASSUME NEW p \in Requests
        PROVE  RequestFormed(req'[p]) /\ SnapshotSound(req[p])'
    <3>1. RequestFormed(req[p]) /\ SnapshotSound(req[p])
      BY DEF RequestsSound
    <3>2. /\ req'[p].op = req[p].op /\ req'[p].sub = req[p].sub
          /\ req'[p].who = req[p].who /\ req'[p].snap = req[p].snap
          /\ p = r \/ req'[p].at = req[p].at
      BY <2>4 DEF Goto, RequestRecords
    <3>3. RequestFormed(req'[p])
      BY <2>2, <3>1, <3>2, ConstantsAssumption DEF RequestFormed
    <3>4. /\ \A x \in Submissions : Exists(x)' <=> Exists(x)
          /\ \A x \in Submissions : assigns[x] # {} => assigns'[x] # {}
          /\ assigns'[s] # {}
      BY <2>2, <2>4 DEF InsertAssignment, Exists
    <3>5. req[p].snap # None => req[p].sub \in Submissions
      BY <3>1 DEF RequestFormed, RequestRecords
    <3>6. SnapshotSound(req[p])'
      BY <3>1, <3>2, <3>4, <3>5 DEF SnapshotSound
    <3>. QED BY <3>3, <3>6
  <2>. QED BY <1>0, <2>2, <2>3, <2>4, <2>5, AssignmentStep
<1>2. ASSUME NEW u \in Users, CreateAssignment(r, u)
      PROVE  WorkflowInv'
  <2>. DEFINE s == req[r].sub
  <2>1. /\ InsertAssignment(s, u) /\ JobsUnchanged /\ UNCHANGED req
        /\ Exists(s)
    BY <1>2 DEF CreateAssignment, Ready
  <2>2. CASE s \in Submissions
    <3>1. ASSUME NEW p \in Requests
          PROVE  RequestFormed(req'[p]) /\ SnapshotSound(req[p])'
      <4>1. RequestFormed(req[p]) /\ SnapshotSound(req[p])
        BY DEF RequestsSound
      <4>2. /\ \A x \in Submissions : Exists(x)' <=> Exists(x)
            /\ \A x \in Submissions : assigns[x] # {} => assigns'[x] # {}
        BY <2>1, <2>2 DEF InsertAssignment, Exists
      <4>3. req[p].snap # None => req[p].sub \in Submissions
        BY <4>1 DEF RequestFormed, RequestRecords
      <4>4. SnapshotSound(req[p])'
        BY <2>1, <4>1, <4>2, <4>3 DEF SnapshotSound
      <4>. QED BY <2>1, <4>1, <4>4
    <3>. QED BY <1>0, <2>1, <2>2, <3>1, AssignmentStep
  <2>3. CASE s \notin Submissions
    <3>1. UNCHANGED <<table, req>>
      BY <2>1, <2>3 DEF InsertAssignment, table
    <3>2. \A p \in Requests : RequestOK(req'[p])
      BY <3>1 DEF RequestsSound, RequestOK
    <3>. QED BY <2>1, <3>1, <3>2, SlotsStep
  <2>. QED BY <2>2, <2>3
<1>. QED BY <1>1, <1>2

\* What a request that writes has at hand.
LEMMA WriterFacts ==
  ASSUME WorkflowInv, NEW r \in Requests, NEW ops, Ready(r, ops, "write")
  PROVE  /\ req[r].sub \in Submissions /\ row[req[r].sub] \in Rows
         /\ Exists(req[r].sub)
         /\ req[r].op \in DOMAIN Recorded \cup {"update", "delete"} =>
              req[r].snap \in Rows
         /\ req[r].op \in {"approve", "reject", "claim", "assign"} =>
              req[r].who \in Users
<1>1. req[r] \in RequestRecords /\ RequestFormed(req[r])
  BY DEF WorkflowInv, TypeOK, RequestsSound
<1>2. req[r].sub \in Submissions
  BY <1>1 DEF Ready, RequestFormed, RequestRecords
<1>. QED BY <1>1, <1>2 DEF Ready, RequestFormed, RequestRecords, Exists, WorkflowInv, TypeOK

LEMMA UpdateStep ==
  ASSUME WorkflowInv, NEW r \in Requests, UpdateWrite(r)
  PROVE  WorkflowInv'
<1>. DEFINE q == req[r]
            new == IF q.who = None THEN q.snap
                   ELSE [q.snap EXCEPT !.approver = q.who]
<1>1. /\ Ready(r, {"update"}, "write") /\ Put(q.sub, new) /\ Return(r)
      /\ UNCHANGED <<used, assigns, log>> /\ JobsUnchanged
  BY DEF UpdateWrite
<1>2. /\ q.sub \in Submissions /\ q.snap \in Rows /\ Exists(q.sub)
      /\ q.who \in Users \cup {None}
  BY <1>1, WriterFacts DEF Ready, WorkflowInv, TypeOK, RequestRecords
<1>3. /\ new \in Rows
      /\ new.status = q.snap.status /\ new.approvedAt = q.snap.approvedAt
      /\ q.snap.approver # None => new.approver # None
  BY <1>2 DEF Rows
<1>4. SnapshotSound(q) /\ q.snap # None
  BY <1>2, ConstantsAssumption DEF WorkflowInv, RequestsSound
<1>5. /\ new.status = "approved" => new.approvedAt /\ new.approver # None
      /\ new.status \in {"claimed", "assigned"} =>
           new.approver # None /\ assigns[q.sub] # {}
  BY <1>2, <1>3, <1>4 DEF SnapshotSound
<1>. HIDE DEF new
<1>. QED BY <1>1, <1>2, <1>3, <1>5, ReturnOK, PutStep

LEMMA HoldStep ==
  ASSUME WorkflowInv, NEW r \in Requests, HoldWrite(r)
  PROVE  WorkflowInv'
<1>. DEFINE q == req[r]
            new == [q.snap EXCEPT !.approver = q.who, !.status = Holding[q.op]]
<1>1. /\ Ready(r, {"claim", "assign"}, "write") /\ Put(q.sub, new)
      /\ Goto(r, "log") /\ UNCHANGED <<used, assigns, log>> /\ JobsUnchanged
  BY DEF HoldWrite
<1>2. /\ q.sub \in Submissions /\ q.snap \in Rows /\ Exists(q.sub)
      /\ q.who \in Users
  BY <1>1, WriterFacts, Tables DEF Ready
<1>3. Holding[q.op] \in {"claimed", "assigned"}
  BY <1>1, Tables DEF Ready
<1>4. /\ new \in Rows /\ new.status = Holding[q.op] /\ new.approver = q.who
  BY <1>2, <1>3 DEF Rows, Statuses
<1>5. SnapshotSound(q) /\ q.snap # None /\ q.who # None
  BY <1>2, ConstantsAssumption DEF WorkflowInv, RequestsSound
<1>6. assigns[q.sub] # {}
  BY <1>1, <1>2, <1>5 DEF SnapshotSound, Ready
<1>. HIDE DEF new
<1>. QED BY <1>1, <1>2, <1>3, <1>4, <1>5, <1>6, GotoOK, PutStep DEF Stages

\* The columns a decision or a soft deletion sets.
LEMMA DecisionSteps ==
  ASSUME WorkflowInv, NEW r \in Requests,
         \/ ApproveWrite(r) \/ RejectWrite(r) \/ ArchiveWrite(r)
         \/ SoftDeleteWrite(r) \/ BulkRejectWrite(r)
  PROVE  WorkflowInv'
<1>. DEFINE s == req[r].sub
<1>0. WorkflowInv
  OBVIOUS
<1>1. CASE ApproveWrite(r)
  <2>. DEFINE new == [row[s] EXCEPT !.status = "approved", !.approvedAt = TRUE,
                                    !.approver = req[r].who]
  <2>1. /\ Ready(r, {"approve"}, "write") /\ Put(s, new) /\ Goto(r, "log")
        /\ UNCHANGED <<used, assigns, log>> /\ JobsUnchanged
    BY <1>1 DEF ApproveWrite
  <2>2. /\ s \in Submissions /\ row[s] \in Rows /\ Exists(s)
        /\ req[r].who \in Users
    BY <2>1, WriterFacts DEF Ready
  <2>3. /\ new \in Rows /\ new.status = "approved" /\ new.approvedAt
        /\ new.approver # None
    BY <2>2, ConstantsAssumption DEF Rows, Statuses
  <2>. HIDE DEF new
  <2>. QED BY <2>1, <2>2, <2>3, GotoOK, PutStep DEF Stages
<1>2. ASSUME NEW status \in {"rejected", "archived"}, NEW ops,
             NEW stage \in {"log", "next"}, Ready(r, ops, "write"),
             UpdateStatus(s, status), Goto(r, stage),
             UNCHANGED <<used, assigns, log>>, JobsUnchanged
      PROVE  WorkflowInv'
  <2>. DEFINE new == [row[s] EXCEPT !.status = status]
  <2>1. s \in Submissions /\ row[s] \in Rows /\ Exists(s)
    BY <1>2, WriterFacts
  <2>2. new \in Rows /\ new.status = status
    BY <2>1 DEF Rows, Statuses
  <2>3. Put(s, new) /\ stage \in Stages \ {"write"}
    BY <1>2 DEF UpdateStatus, Stages
  <2>. HIDE DEF new
  <2>. QED BY <1>2, <2>1, <2>2, <2>3, GotoOK, PutStep
<1>3. CASE RejectWrite(r)
  BY <1>2, <1>3 DEF RejectWrite
<1>4. CASE ArchiveWrite(r)
  BY <1>2, <1>4 DEF ArchiveWrite
<1>5. CASE BulkRejectWrite(r)
  BY <1>2, <1>5 DEF BulkRejectWrite
<1>6. CASE SoftDeleteWrite(r)
  <2>. DEFINE new == [row[s] EXCEPT !.deleted = TRUE]
  <2>1. /\ Ready(r, {"softDelete"}, "write") /\ Put(s, new) /\ Goto(r, "log")
        /\ UNCHANGED <<used, assigns, log>> /\ JobsUnchanged
    BY <1>6 DEF SoftDeleteWrite
  <2>2. s \in Submissions /\ row[s] \in Rows /\ Exists(s)
    BY <2>1, WriterFacts
  <2>3. /\ new \in Rows /\ new.status = row[s].status
        /\ new.approvedAt = row[s].approvedAt /\ new.approver = row[s].approver
    BY <2>2 DEF Rows
  <2>4. /\ new.status = "approved" => new.approvedAt /\ new.approver # None
        /\ new.status \in {"claimed", "assigned"} =>
             new.approver # None /\ assigns[s] # {}
    BY <2>2, <2>3 DEF WorkflowInv, ApprovedStamped, HeldHasAssignment
  <2>. HIDE DEF new
  <2>. QED BY <2>1, <2>2, <2>3, <2>4, GotoOK, PutStep DEF Stages
<1>. QED BY <1>1, <1>3, <1>4, <1>5, <1>6

\* Removing a row with its assignments and history.
LEMMA DeleteStep ==
  ASSUME WorkflowInv, NEW r \in Requests, DeleteWrite(r)
  PROVE  WorkflowInv'
<1>. DEFINE s == req[r].sub
<1>. USE DEF WorkflowInv, JobsUnchanged, DeleteWrite
<1>1. s \in Submissions
  BY WriterFacts
<1>2. TypeOK' /\ \A p \in Requests : RequestOK(req'[p])
  BY <1>1, ReturnOK DEF TypeOK
<1>3. \A x \in Submissions : Exists(x)' <=> (Exists(x) /\ x # s)
  BY <1>1 DEF Exists, TypeOK
<1>4. \A x \in Submissions : x # s => assigns'[x] = assigns[x]
  BY DEF TypeOK
<1>5. ASSUME NEW p \in Requests
      PROVE  RequestFormed(req[p])' /\ SnapshotSound(req[p])'
  <2>1. req'[p] \in RequestRecords /\ RequestFormed(req'[p]) /\ SnapshotSound(req'[p])
    BY <1>2 DEF RequestOK
  <2>2. req'[p].snap # None => req'[p].sub \in Submissions
    BY <2>1 DEF RequestFormed, RequestRecords
  <2>3. RequestFormed(req[p])'
    BY <2>1 DEF RequestFormed
  <2>4. SnapshotSound(req[p])'
    BY <2>1, <2>2, <1>3, <1>4 DEF SnapshotSound
  <2>. QED BY <2>3, <2>4
<1>6. RequestsSound'
  BY <1>3, <1>5 DEF RequestsSound
<1>7. ApprovedStamped' /\ HeldHasAssignment' /\ HistoryLegal'
  BY <1>1, <1>3, <1>4 DEF ApprovedStamped, HeldHasAssignment, HistoryLegal, TypeOK
<1>. QED BY <1>2, <1>6, <1>7

\* A new history row, for a step of the table or of a kind not checked.
LEMMA HistoryStep ==
  ASSUME WorkflowInv, NEW s \in Submissions, NEW old \in Statuses,
         NEW new \in Statuses, InsertHistory(s, old, new),
         new \notin {"assigned", "archived"} => IsValidTransition(old, new),
         req' \in [Requests -> RequestRecords],
         \A p \in Requests : RequestOK(req'[p]),
         timeoutJob' \in [todo: SUBSET Submissions, cur: Submissions \cup {None}],
         archiveJob' \in [marked: BOOLEAN,
                          old: [Submissions -> Statuses \cup {None}]]
  PROVE  WorkflowInv'
<1>. USE DEF WorkflowInv, InsertHistory
<1>1. TypeOK'
  BY DEF TypeOK, LogRows
<1>2. RequestsSound'
  BY DEF RequestsSound, RequestOK, RequestFormed, SnapshotSound, Exists
<1>3. ApprovedStamped' /\ HeldHasAssignment'
  BY DEF ApprovedStamped, HeldHasAssignment, Exists
<1>4. HistoryLegal'
  BY DEF HistoryLegal, TypeOK
<1>. QED BY <1>1, <1>2, <1>3, <1>4

LEMMA RecordStep ==
  ASSUME WorkflowInv, NEW r \in Requests, RecordHistory(r)
  PROVE  WorkflowInv'
<1>. DEFINE q == req[r]
<1>1. /\ Ready(r, DOMAIN Recorded, "log") /\ Return(r) /\ JobsUnchanged
      /\ InsertHistory(q.sub, q.snap.status, Recorded[q.op])
  BY DEF RecordHistory
<1>2. q \in RequestRecords /\ RequestFormed(q) /\ SnapshotSound(q)
  BY DEF WorkflowInv, TypeOK, RequestsSound
<1>3. q.op \in DOMAIN Recorded /\ q.sub \in Submissions /\ q.snap \in Rows /\ q.snap # None
  BY <1>1, <1>2 DEF Ready, RequestFormed, RequestRecords
<1>4. q.snap.status \in Statuses /\ Recorded[q.op] \in Statuses
  BY <1>3, Tables DEF Rows
<1>5. Recorded[q.op] \notin {"assigned", "archived"} =>
        IsValidTransition(q.snap.status, Recorded[q.op])
  <2>1. q.op \in {"claim", "approve", "reject"} =>
          IsValidTransition(q.snap.status, Recorded[q.op])
    BY <1>2, <1>3 DEF SnapshotSound
  <2>2. /\ Recorded["assign"] = "assigned" /\ Recorded["archive"] = "archived"
        /\ Recorded["softDelete"] = "archived"
    BY DEF Recorded
  <2>. QED BY <1>3, <2>1, <2>2, Tables
<1>. QED BY <1>1, <1>3, <1>4, <1>5, ReturnOK, HistoryStep DEF JobsUnchanged, WorkflowInv, TypeOK

LEMMA BulkSteps ==
  ASSUME WorkflowInv, NEW r \in Requests, BulkValidate(r) \/ BulkRead(r)
  PROVE  WorkflowInv'
<1>. DEFINE q == req[r]
<1>0. q \in RequestRecords /\ RequestFormed(q) /\ SnapshotSound(q)
  BY DEF WorkflowInv, TypeOK, RequestsSound
<1>1. CASE BulkValidate(r)
  <2>1. UNCHANGED table /\ JobsUnchanged /\ q.at = "validate"
    BY <1>1 DEF BulkValidate
  <2>2. CASE Return(r)
    BY <2>1, <2>2, ReturnStep
  <2>3. CASE req' = [req EXCEPT ![r].at = "next", ![r].todo = q.ids]
    <3>. DEFINE n == [q EXCEPT !.at = "next", !.todo = q.ids]
    <3>1. /\ n \in RequestRecords /\ n.op = q.op /\ n.sub = q.sub
          /\ n.who = q.who /\ n.snap = q.snap /\ n.at = "next"
      BY <1>0 DEF RequestRecords, Stages
    <3>2. req' = [req EXCEPT ![r] = n]
      BY <2>3
    <3>. HIDE DEF n
    <3>3. RequestOK(n)
      BY <1>0, <3>1 DEF RequestOK, RequestFormed, SnapshotSound
    <3>. QED BY <2>1, <3>2, <3>3, RequestStep
  <2>4. CASE q.todo # <<>> /\ req' = [req EXCEPT ![r].todo = Tail(@)]
    <3>. DEFINE n == [q EXCEPT !.todo = Tail(q.todo)]
    <3>0. Tail(q.todo) \in Seq(Submissions)
      BY <1>0, <2>4 DEF RequestRecords
    <3>1. /\ n \in RequestRecords /\ n.op = q.op /\ n.sub = q.sub
          /\ n.who = q.who /\ n.snap = q.snap /\ n.at = q.at
      BY <1>0, <3>0 DEF RequestRecords
    <3>2. req' = [req EXCEPT ![r] = n]
      BY <2>4
    <3>. HIDE DEF n
    <3>3. RequestOK(n)
      BY <1>0, <3>1 DEF RequestOK, RequestFormed, SnapshotSound
    <3>. QED BY <2>1, <3>2, <3>3, RequestStep
  <2>. QED BY <1>1, <2>2, <2>3, <2>4 DEF BulkValidate
<1>2. CASE BulkRead(r)
  <2>1. UNCHANGED table /\ JobsUnchanged
    BY <1>2 DEF BulkRead
  <2>2. CASE Return(r)
    BY <2>1, <2>2, ReturnStep
  <2>3. CASE /\ q.todo # <<>> /\ q.op = "bulkReject" /\ BulkMayMove(r)
             /\ req' = [req EXCEPT ![r].at = "write",
                                   ![r].sub = Head(q.todo),
                                   ![r].todo = Tail(q.todo)]
    <3>. DEFINE s == Head(q.todo)
                n == [q EXCEPT !.at = "write", !.sub = s, !.todo = Tail(q.todo)]
    <3>0. s \in Submissions /\ Tail(q.todo) \in Seq(Submissions) /\ Exists(s)
      BY <1>0, <2>3 DEF RequestRecords, BulkMayMove, Live
    <3>1. /\ n \in RequestRecords /\ n.op = "bulkReject" /\ n.sub = s
          /\ n.who = q.who /\ n.snap = q.snap
      BY <1>0, <2>3, <3>0 DEF RequestRecords, Stages
    <3>2. req' = [req EXCEPT ![r] = n]
      BY <2>3
    <3>3. s \in used /\ s # None
      BY <3>0, ConstantsAssumption DEF WorkflowInv, RequestsSound
    <3>4. q.snap = None
      BY <1>0, <2>3 DEF RequestFormed
    <3>. HIDE DEF n, s
    <3>. QED BY <1>0, <2>1, <3>1, <3>2, <3>3, <3>4, RequestStep, Tables
          DEF RequestOK, RequestFormed, SnapshotSound
  <2>. QED BY <1>2, <2>2, <2>3 DEF BulkRead
<1>. QED BY <1>1, <1>2

LEMMA ContinueStep ==
  ASSUME WorkflowInv, NEW r \in Requests, Continue(r) \/ Abort(r)
  PROVE  WorkflowInv'
<1>1. CASE ClaimCheck(r)
  <2>1. /\ UNCHANGED table /\ JobsUnchanged
        /\ Goto(r, "assign") \/ Goto(r, "blind") \/ Return(r)
    BY <1>1 DEF ClaimCheck
  <2>. QED BY <2>1, GotoOK, ReturnOK, SlotsStep DEF Stages
<1>2. CASE AssignmentInsert(r) \/ \E u \in Users : CreateAssignment(r, u)
  BY <1>2, AssignmentSteps
<1>3. CASE CreateReturn(r) \/ Abort(r)
  BY <1>3, ReturnStep DEF CreateReturn, Abort
<1>4. CASE UpdateWrite(r)
  BY <1>4, UpdateStep
<1>5. CASE HoldWrite(r)
  BY <1>5, HoldStep
<1>6. CASE \/ ApproveWrite(r) \/ RejectWrite(r) \/ ArchiveWrite(r)
           \/ SoftDeleteWrite(r) \/ BulkRejectWrite(r)
  BY <1>6, DecisionSteps
<1>7. CASE DeleteWrite(r)
  BY <1>7, DeleteStep
<1>8. CASE RecordHistory(r)
  BY <1>8, RecordStep
<1>9. CASE BulkValidate(r) \/ BulkRead(r)
  BY <1>9, BulkSteps
<1>. QED BY <1>1, <1>2, <1>3, <1>4, <1>5, <1>6, <1>7, <1>8, <1>9 DEF Continue

-----------------------------------------------------------------------------
(* The worker's tasks and the clock *)

\* A step of the tasks or the clock that leaves the rows' controls alone.
LEMMA QuietStep ==
  ASSUME WorkflowInv, UNCHANGED <<row, used, assigns, log, req>>,
         age' \in [Submissions -> 0..2],
         timeoutJob' \in [todo: SUBSET Submissions, cur: Submissions \cup {None}],
         archiveJob' \in [marked: BOOLEAN,
                          old: [Submissions -> Statuses \cup {None}]]
  PROVE  WorkflowInv'
<1>. USE DEF WorkflowInv
<1>1. TypeOK'
  BY DEF TypeOK
<1>2. RequestsSound'
  BY DEF RequestsSound, RequestFormed, SnapshotSound, Exists
<1>3. ApprovedStamped' /\ HeldHasAssignment' /\ HistoryLegal'
  BY DEF ApprovedStamped, HeldHasAssignment, HistoryLegal, Exists
<1>. QED BY <1>1, <1>2, <1>3

\* A step that sets some existing rows to timeouted or archived.
LEMMA CloseStep ==
  ASSUME WorkflowInv, NEW S \in SUBSET Submissions,
         \A s \in S : Exists(s), NEW status \in {"timeouted", "archived"},
         row' = [s \in Submissions |->
                   IF s \in S THEN [row[s] EXCEPT !.status = status] ELSE row[s]],
         age' \in [Submissions -> 0..2],
         UNCHANGED <<used, assigns, log, req>>,
         timeoutJob' \in [todo: SUBSET Submissions, cur: Submissions \cup {None}],
         archiveJob' \in [marked: BOOLEAN,
                          old: [Submissions -> Statuses \cup {None}]]
  PROVE  WorkflowInv'
<1>. USE DEF WorkflowInv
<1>1. \A s \in S : row[s] \in Rows /\ [row[s] EXCEPT !.status = status] \in Rows
                  /\ [row[s] EXCEPT !.status = status].status = status
  BY DEF TypeOK, Exists, Rows, Statuses
<1>2. TypeOK'
  BY <1>1 DEF TypeOK
<1>3. \A s \in Submissions : Exists(s)' <=> Exists(s)
  BY <1>1, ConstantsAssumption DEF Exists
<1>4. \A s \in Submissions : \/ row'[s] = row[s]
                             \/ s \in S /\ row'[s].status = status
  BY <1>1
<1>5. \A r \in Requests : req[r].snap # None => req[r].sub \in Submissions
  BY DEF TypeOK, RequestsSound, RequestFormed, RequestRecords
<1>6. ASSUME NEW r \in Requests
      PROVE  RequestFormed(req[r])' /\ SnapshotSound(req[r])'
  BY <1>3, <1>5 DEF RequestsSound, RequestFormed, SnapshotSound
<1>7. RequestsSound'
  BY <1>3, <1>6 DEF RequestsSound
<1>8. ApprovedStamped' /\ HeldHasAssignment' /\ HistoryLegal'
  BY <1>3, <1>4 DEF ApprovedStamped, HeldHasAssignment, HistoryLegal
<1>. QED BY <1>2, <1>7, <1>8

LEMMA TimeoutSteps ==
  ASSUME WorkflowInv,
         \/ TimeoutStart \/ TimeoutRecord
         \/ \E s \in Submissions : TimeoutWrite(s)
  PROVE  WorkflowInv'
<1>. DEFINE TimeoutType == [todo: SUBSET Submissions, cur: Submissions \cup {None}]
            ArchiveType == [marked: BOOLEAN,
                            old: [Submissions -> Statuses \cup {None}]]
<1>0. /\ age \in [Submissions -> 0..2] /\ timeoutJob \in TimeoutType
      /\ archiveJob \in ArchiveType
      /\ \A r \in Requests : RequestOK(req[r])
      /\ req \in [Requests -> RequestRecords]
  BY DEF WorkflowInv, TypeOK, RequestsSound, RequestOK
<1>1. CASE TimeoutStart
  <2>1. timeoutJob' \in TimeoutType
    BY <1>1 DEF TimeoutStart, TimeoutCandidates, NoTimeouts
  <2>. QED BY <1>0, <1>1, <2>1, QuietStep DEF TimeoutStart, table
<1>2. CASE TimeoutRecord
  <2>1. timeoutJob' \in TimeoutType
    BY <1>0, <1>2 DEF TimeoutRecord
  <2>2. timeoutJob.cur \in Submissions
    BY <1>0, <1>2 DEF TimeoutRecord
  <2>3. CASE InsertHistory(timeoutJob.cur, "pending", "timeouted")
    <3>1. /\ IsValidTransition("pending", "timeouted")
          /\ "pending" \in Statuses /\ "timeouted" \in Statuses
      BY DEF IsValidTransition, ValidStatusTransitions, Statuses
    <3>. QED BY <1>0, <1>2, <2>1, <2>2, <2>3, <3>1, HistoryStep DEF TimeoutRecord
  <2>4. CASE UNCHANGED table
    BY <1>0, <1>2, <2>1, <2>4, QuietStep DEF TimeoutRecord, table
  <2>. QED BY <1>2, <2>3, <2>4 DEF TimeoutRecord
<1>3. ASSUME NEW s \in Submissions, TimeoutWrite(s)
      PROVE  WorkflowInv'
  <2>1. timeoutJob' \in TimeoutType
    BY <1>0, <1>3 DEF TimeoutWrite
  <2>2. CASE Exists(s) /\ UpdateStatus(s, "timeouted")
    <3>1. row' = [x \in Submissions |-> IF x \in {s}
                                       THEN [row[x] EXCEPT !.status = "timeouted"]
                                       ELSE row[x]]
      BY <2>2 DEF UpdateStatus, Put, WorkflowInv, TypeOK
    <3>2. age' \in [Submissions -> 0..2]
      BY <1>0, <2>2 DEF UpdateStatus, Put
    <3>3. {s} \in SUBSET Submissions /\ \A x \in {s} : Exists(x)
      BY <2>2
    <3>4. UNCHANGED <<used, assigns, log, req, archiveJob>>
      BY <1>3 DEF TimeoutWrite
    <3>. QED BY <1>0, <2>1, <3>1, <3>2, <3>3, <3>4, CloseStep
  <2>3. CASE UNCHANGED <<row, age>>
    BY <1>0, <1>3, <2>1, <2>3, QuietStep DEF TimeoutWrite
  <2>. QED BY <1>3, <2>2, <2>3 DEF TimeoutWrite
<1>. QED BY <1>1, <1>2, <1>3

LEMMA ArchiveSteps ==
  ASSUME WorkflowInv,
         \/ ArchiveStart \/ ArchiveMark
         \/ \E s \in Submissions : ArchiveRecord(s)
  PROVE  WorkflowInv'
<1>. DEFINE TimeoutType == [todo: SUBSET Submissions, cur: Submissions \cup {None}]
            ArchiveType == [marked: BOOLEAN,
                            old: [Submissions -> Statuses \cup {None}]]
<1>0. /\ age \in [Submissions -> 0..2] /\ timeoutJob \in TimeoutType
      /\ archiveJob \in ArchiveType
      /\ \A r \in Requests : RequestOK(req[r])
      /\ req \in [Requests -> RequestRecords]
  BY DEF WorkflowInv, TypeOK, RequestsSound, RequestOK
<1>1. CASE ArchiveStart
  <2>1. \A s \in ArchiveCandidates : row[s].status \in Statuses
    BY DEF ArchiveCandidates, Statuses
  <2>2. archiveJob' \in ArchiveType
    BY <1>1, <2>1 DEF ArchiveStart
  <2>. QED BY <1>0, <1>1, <2>2, QuietStep DEF ArchiveStart, table
<1>2. CASE ArchiveMark
  <2>1. archiveJob' \in ArchiveType
    BY <1>0, <1>2 DEF ArchiveMark, NoArchive
  <2>2. Archivable \subseteq Submissions /\ \A s \in Archivable : Exists(s)
    BY DEF Archivable
  <2>3. age' \in [Submissions -> 0..2]
    BY <1>0, <1>2 DEF ArchiveMark
  <2>. QED BY <1>0, <1>2, <2>1, <2>2, <2>3, CloseStep DEF ArchiveMark
<1>3. ASSUME NEW s \in Submissions, ArchiveRecord(s)
      PROVE  WorkflowInv'
  <2>1. archiveJob' \in ArchiveType
    BY <1>0, <1>3 DEF ArchiveRecord
  <2>2. archiveJob.old[s] \in Statuses
    BY <1>0, <1>3 DEF ArchiveRecord
  <2>3. CASE InsertHistory(s, archiveJob.old[s], "archived")
    BY <1>0, <1>3, <2>1, <2>2, <2>3, HistoryStep DEF ArchiveRecord, Statuses
  <2>4. CASE UNCHANGED table
    BY <1>0, <1>3, <2>1, <2>4, QuietStep DEF ArchiveRecord, table
  <2>. QED BY <1>3, <2>3, <2>4 DEF ArchiveRecord
<1>. QED BY <1>1, <1>2, <1>3

LEMMA RestSteps ==
  ASSUME WorkflowInv, TaskAbort \/ DaysPass \/ UNCHANGED vars
  PROVE  WorkflowInv'
<1>0. /\ age \in [Submissions -> 0..2]
      /\ timeoutJob \in [todo: SUBSET Submissions, cur: Submissions \cup {None}]
      /\ archiveJob \in [marked: BOOLEAN,
                         old: [Submissions -> Statuses \cup {None}]]
  BY DEF WorkflowInv, TypeOK
<1>1. CASE TaskAbort
  <2>1. /\ timeoutJob' \in [todo: SUBSET Submissions, cur: Submissions \cup {None}]
        /\ archiveJob' \in [marked: BOOLEAN,
                            old: [Submissions -> Statuses \cup {None}]]
    <3>1. /\ NoTimeouts \in [todo: SUBSET Submissions, cur: Submissions \cup {None}]
          /\ NoArchive \in [marked: BOOLEAN,
                            old: [Submissions -> Statuses \cup {None}]]
      BY DEF NoTimeouts, NoArchive
    <3>. QED BY <1>0, <1>1, <3>1 DEF TaskAbort
  <2>2. UNCHANGED <<row, used, age, assigns, log, req>>
    BY <1>1 DEF TaskAbort, table
  <2>. QED BY <1>0, <2>1, <2>2, QuietStep
<1>2. CASE DaysPass
  <2>1. age' \in [Submissions -> 0..2]
    BY <1>0, <1>2 DEF DaysPass
  <2>. QED BY <1>0, <1>2, <2>1, QuietStep DEF DaysPass, JobsUnchanged
<1>3. CASE UNCHANGED vars
  BY <1>0, <1>3, QuietStep DEF vars, table
<1>. QED BY <1>1, <1>2, <1>3

-----------------------------------------------------------------------------
(* The theorems *)

\* The invariant holds of every behaviour of the workflow, with any overlap of
\* requests and task runs and any statement failing.
THEOREM WorkflowSound == Spec => []WorkflowInv
<1>1. Init => WorkflowInv
  <2>. SUFFICES ASSUME Init PROVE WorkflowInv
    OBVIOUS
  <2>1. \A r \in Requests : RequestOK(req[r])
    BY IdleOK DEF Init
  <2>2. TypeOK
    BY <2>1 DEF Init, TypeOK, RequestOK, NoTimeouts, NoArchive
  <2>3. RequestsSound /\ ApprovedStamped /\ HeldHasAssignment /\ HistoryLegal
    BY <2>1 DEF Init, RequestOK, RequestsSound, ApprovedStamped,
                HeldHasAssignment, HistoryLegal, Exists
  <2>. QED BY <2>2, <2>3 DEF WorkflowInv
<1>2. WorkflowInv /\ [Next]_vars => WorkflowInv'
  BY StartStep, ContinueStep, TimeoutSteps, ArchiveSteps, RestSteps
  DEF Next, Tasks
<1>. QED BY <1>1, <1>2, PTL DEF Spec

\* Every table, request and task run keeps its type.
THEOREM TypesKept == Spec => []TypeOK
BY WorkflowSound, PTL DEF WorkflowInv

\* An approved submission always carries approved_at and an approver.
THEOREM ApprovalsStamped == Spec => []ApprovedStamped
BY WorkflowSound, PTL DEF WorkflowInv

\* A claimed or assigned submission always has its approver and assignment.
THEOREM HeldAreAssigned == Spec => []HeldHasAssignment
BY WorkflowSound, PTL DEF WorkflowInv

\* A recorded claim, decision or timeout is a step of the transition table.
THEOREM HistoryIsLegal == Spec => []HistoryLegal
BY WorkflowSound, PTL DEF WorkflowInv

-----------------------------------------------------------------------------
(* What has ended stays ended *)

\* A submission stays closed when it stays ended, no timeout run lists it, and
\* the requests that changed have no write left that could reopen it.
LEMMA ClosedOn ==
  ASSUME NEW s \in Submissions, Closed(s), Ended(s)', s \notin timeoutJob'.todo,
         \A p \in Requests : req'[p] = req[p] \/ ~MayReopen(req'[p], s)
  PROVE  Closed(s)'
BY DEF Closed, MayReopen

LEMMA EndedOn ==
  ASSUME NEW s \in Submissions, Ended(s), row'[s] = row[s] PROVE Ended(s)'
BY DEF Ended, Exists

\* A row that no request can read as open.
LEMMA EndedRow ==
  ASSUME WorkflowInv, NEW s \in Submissions, Closed(s)
  PROVE  /\ row[s] \in Rows /\ s \in used
         /\ Live(s) => row[s].status = "archived"
         /\ ~(Live(s) /\ IsValidTransition(row[s].status, "rejected"))
BY DEF WorkflowInv, TypeOK, RequestsSound, Closed, Ended, Live, Exists, IsValidTransition,
       ValidStatusTransitions, Statuses

\* The slots after a request has been given a record.
LEMMA SlotReopens ==
  ASSUME WorkflowInv, NEW s \in Submissions, NEW r \in Requests, NEW q,
         req' = [req EXCEPT ![r] = q], ~MayReopen(q, s)
  PROVE  \A p \in Requests : req'[p] = req[p] \/ ~MayReopen(req'[p], s)
BY DEF WorkflowInv, TypeOK

LEMMA ReturnReopens ==
  ASSUME WorkflowInv, NEW s \in Submissions, NEW r \in Requests, Return(r)
  PROVE  \A p \in Requests : req'[p] = req[p] \/ ~MayReopen(req'[p], s)
<1>1. ~MayReopen(Idle, s) BY ConstantsAssumption DEF MayReopen, Idle, Request
<1>. QED BY <1>1, SlotReopens DEF Return

\* Going on reopens nothing: a claim or an assignment on its way was not for s,
\* and the other stages have no write left.
LEMMA GotoReopens ==
  ASSUME WorkflowInv, NEW s \in Submissions, Closed(s), NEW r \in Requests,
         NEW stage, Goto(r, stage),
         \/ stage \in {"log", "next"}
         \/ /\ req[r].op \in {"claim", "assign"}
            /\ req[r].at \in {"check", "assign", "blind"}
  PROVE  \A p \in Requests : req'[p] = req[p] \/ ~MayReopen(req'[p], s)
<1>1. PICK q : q = [req[r] EXCEPT !.at = stage] OBVIOUS
<1>2. /\ q.op = req[r].op /\ q.sub = req[r].sub /\ q.snap = req[r].snap
      /\ q.at = stage
  BY <1>1 DEF WorkflowInv, TypeOK, RequestRecords
<1>3. ~MayReopen(req[r], s) BY DEF Closed
<1>4. ~MayReopen(q, s) BY <1>2, <1>3 DEF MayReopen
<1>. QED BY <1>1, <1>4, SlotReopens DEF Goto

\* Only an Assign begins on a closed submission and can reopen it.
LEMMA StartEnded ==
  ASSUME WorkflowInv, NEW s \in Submissions, Closed(s), NEW r \in Requests, Start(r)
  PROVE  \/ Closed(s)'
         \/ /\ Ended(s)' /\ ~row[s].deleted
            /\ req[r] = Idle /\ req'[r].op = "assign"
<1>1. ASSUME NEW x \in Submissions, NEW u \in Users \cup {None}, Create(r, x, u)
      PROVE  Closed(s)'
  <2>1. PICK q : q = Request("create", "assign", x, None, None, <<>>) OBVIOUS
  <2>2. ~MayReopen(q, s) BY <2>1 DEF Request, MayReopen
  <2>3. row'[s] = row[s]
    BY <1>1, EndedRow DEF Create, Put, WorkflowInv, TypeOK
  <2>4. Ended(s)' BY <2>3, EndedOn DEF Closed
  <2>5. s \notin timeoutJob'.todo BY <1>1 DEF Create, JobsUnchanged, Closed
  <2>6. req' = [req EXCEPT ![r] = q] BY <1>1, <2>1 DEF Create
  <2>. QED BY <2>2, <2>4, <2>5, <2>6, SlotReopens, ClosedOn
<1>2. ASSUME NEW x \in Submissions, NEW op, NEW who, NEW stage,
             Begin(r, op, x, who, stage),
             x = s => /\ op \notin {"approve", "reject", "claim", "bulkReject"}
                      /\ op = "update" => row[s].status = "archived"
      PROVE  \/ Closed(s)'
             \/ /\ Ended(s)' /\ ~row[s].deleted
                /\ req[r] = Idle /\ req'[r].op = "assign"
  <2>1. PICK q : q = Request(op, stage, x, who, row[x], <<>>) OBVIOUS
  <2>2. q.op = op /\ q.sub = x /\ q.snap = row[x] BY <2>1 DEF Request
  <2>3. row' = row /\ timeoutJob' = timeoutJob /\ req[r] = Idle
    BY <1>2 DEF Begin, table, JobsUnchanged
  <2>4. req' = [req EXCEPT ![r] = q] BY <1>2, <2>1 DEF Begin
  <2>5. Ended(s)' BY <2>3, EndedOn DEF Closed
  <2>6. CASE x = s /\ op = "assign"
    <3>1. req'[r].op = "assign" BY <2>2, <2>4, <2>6 DEF WorkflowInv, TypeOK
    <3>2. ~row[s].deleted BY <1>2, <2>6 DEF Begin, Live
    <3>. QED BY <2>3, <2>5, <3>1, <3>2
  <2>7. CASE ~(x = s /\ op = "assign")
    <3>1. ~MayReopen(q, s) BY <1>2, <2>2, <2>7 DEF MayReopen
    <3>. QED BY <2>3, <2>4, <2>5, <3>1, SlotReopens, ClosedOn DEF Closed
  <2>. QED BY <2>6, <2>7
<1>3. ASSUME NEW x \in Submissions, NEW u \in Users \cup {None},
             \/ StartUpdate(r, x, u) \/ StartDelete(r, x) \/ StartSoftDelete(r, x)
             \/ StartArchive(r, x)
      PROVE  \/ Closed(s)'
             \/ /\ Ended(s)' /\ ~row[s].deleted
                /\ req[r] = Idle /\ req'[r].op = "assign"
  <2>1. StartUpdate(r, x, u) /\ x = s => row[s].status = "archived"
    BY EndedRow DEF StartUpdate, Begin
  <2>. QED BY <1>2, <1>3, <2>1 DEF StartUpdate, StartDelete, StartSoftDelete, StartArchive
<1>4. ASSUME NEW x \in Submissions, NEW u \in Users,
             \/ StartApprove(r, x, u) \/ StartReject(r, x, u)
             \/ StartClaim(r, x, u) \/ StartAssign(r, x, u)
      PROVE  \/ Closed(s)'
             \/ /\ Ended(s)' /\ ~row[s].deleted
                /\ req[r] = Idle /\ req'[r].op = "assign"
  <2>1. x = s => ~(StartApprove(r, x, u) \/ StartReject(r, x, u) \/ StartClaim(r, x, u))
    BY EndedRow DEF StartApprove, StartReject, StartClaim
  <2>. QED BY <1>2, <1>4, <2>1 DEF StartApprove, StartReject, StartClaim, StartAssign
<1>5. ASSUME NEW ids \in IdLists, NEW op \in DOMAIN BulkTarget, StartBulk(r, op, ids)
      PROVE  Closed(s)'
  <2>1. PICK q : q = Request(op, "validate", None, None, None, ids) OBVIOUS
  <2>2. ~MayReopen(q, s) BY <2>1, ConstantsAssumption DEF Request, MayReopen
  <2>3. row' = row /\ timeoutJob' = timeoutJob BY <1>5 DEF StartBulk, table, JobsUnchanged
  <2>4. Ended(s)' BY <2>3, EndedOn DEF Closed
  <2>5. req' = [req EXCEPT ![r] = q] BY <1>5, <2>1 DEF StartBulk
  <2>. QED BY <2>2, <2>3, <2>4, <2>5, SlotReopens, ClosedOn DEF Closed
<1>6. \A x \in Submissions :
        StartDelete(r, x) \/ StartSoftDelete(r, x) \/ StartArchive(r, x) =>
          \/ Closed(s)'
          \/ /\ Ended(s)' /\ ~row[s].deleted
             /\ req[r] = Idle /\ req'[r].op = "assign"
  BY <1>3
<1>. QED BY <1>1, <1>3, <1>4, <1>5, <1>6 DEF Start

\* A write of another row, or one that leaves this row ended.
LEMMA PutEnded ==
  ASSUME WorkflowInv, NEW s \in Submissions, Closed(s), Exists(s)',
         NEW x \in Submissions, NEW new, Put(x, new),
         x = s => new.deleted \/ new.status = "archived"
  PROVE  Ended(s)'
<1>1. CASE x # s
  <2>1. row'[s] = row[s] BY <1>1 DEF Put, WorkflowInv, TypeOK
  <2>. QED BY <2>1, EndedOn DEF Closed
<1>2. CASE x = s
  <2>1. row'[s] = new BY <1>2 DEF Put, WorkflowInv, TypeOK
  <2>. QED BY <1>2, <2>1 DEF Ended
<1>. QED BY <1>1, <1>2

\* The requests that write a row: none that read or checked s while it was open.
LEMMA WriteEnded ==
  ASSUME WorkflowInv, NEW s \in Submissions, Closed(s), Exists(s)', NEW r \in Requests,
         \/ UpdateWrite(r) \/ HoldWrite(r) \/ ApproveWrite(r) \/ RejectWrite(r)
         \/ ArchiveWrite(r) \/ SoftDeleteWrite(r) \/ BulkRejectWrite(r)
  PROVE  Ended(s)'
<1>0. ~MayReopen(req[r], s) /\ req[r].at = "write"
  BY DEF Closed, UpdateWrite, HoldWrite, ApproveWrite, RejectWrite, ArchiveWrite,
         SoftDeleteWrite, BulkRejectWrite, Ready
<1>1. CASE UpdateWrite(r)
  <2>1. /\ req[r].op = "update" /\ req[r].sub \in Submissions
        /\ req[r].snap \in Rows
    BY <1>1, WriterFacts, Tables DEF UpdateWrite, Ready
  <2>2. PICK new : new = IF req[r].who = None THEN req[r].snap
                         ELSE [req[r].snap EXCEPT !.approver = req[r].who]
    OBVIOUS
  <2>3. new.status = req[r].snap.status BY <2>1, <2>2 DEF Rows
  <2>4. req[r].sub = s => new.status = "archived" BY <1>0, <2>1, <2>3 DEF MayReopen
  <2>5. Put(req[r].sub, new) BY <1>1, <2>2 DEF UpdateWrite
  <2>. QED BY <2>1, <2>4, <2>5, PutEnded
<1>2. CASE HoldWrite(r) \/ ApproveWrite(r) \/ RejectWrite(r) \/ BulkRejectWrite(r)
  <2>1. PICK ops : /\ Ready(r, ops, "write")
                   /\ ops \subseteq {"claim", "assign", "approve", "reject", "bulkReject"}
    BY <1>2 DEF HoldWrite, ApproveWrite, RejectWrite, BulkRejectWrite
  <2>2. req[r].sub \in Submissions BY <2>1, WriterFacts
  <2>3. req[r].sub # s BY <1>0, <2>1 DEF MayReopen, Ready
  <2>4. PICK new : Put(req[r].sub, new)
    BY <1>2 DEF HoldWrite, ApproveWrite, RejectWrite, BulkRejectWrite, UpdateStatus
  <2>. QED BY <2>2, <2>3, <2>4, PutEnded
<1>3. CASE ArchiveWrite(r) \/ SoftDeleteWrite(r)
  <2>1. PICK ops : Ready(r, ops, "write") BY <1>3 DEF ArchiveWrite, SoftDeleteWrite
  <2>2. req[r].sub \in Submissions /\ row[req[r].sub] \in Rows BY <2>1, WriterFacts
  <2>3. PICK new :
          /\ Put(req[r].sub, new)
          /\ \/ new = [row[req[r].sub] EXCEPT !.status = "archived"]
             \/ new = [row[req[r].sub] EXCEPT !.deleted = TRUE]
    BY <1>3 DEF ArchiveWrite, SoftDeleteWrite, UpdateStatus
  <2>4. new.deleted \/ new.status = "archived" BY <2>2, <2>3 DEF Rows
  <2>. QED BY <2>2, <2>3, <2>4, PutEnded
<1>. QED BY <1>1, <1>2, <1>3

LEMMA ContinueEnded ==
  ASSUME WorkflowInv, NEW s \in Submissions, Closed(s), Exists(s)', NEW r \in Requests,
         Continue(r) \/ Abort(r)
  PROVE  Closed(s)'
<1> DEFINE Kept == \A p \in Requests : req'[p] = req[p] \/ ~MayReopen(req'[p], s)
<1>1. s \notin timeoutJob'.todo
  BY DEF Closed, Continue, Abort, ClaimCheck, AssignmentInsert, CreateReturn,
         CreateAssignment, UpdateWrite, HoldWrite, ApproveWrite, RejectWrite, ArchiveWrite,
         SoftDeleteWrite, DeleteWrite, RecordHistory, BulkValidate, BulkRead,
         BulkRejectWrite, JobsUnchanged
<1>2. CASE \/ UpdateWrite(r) \/ HoldWrite(r) \/ ApproveWrite(r) \/ RejectWrite(r)
           \/ ArchiveWrite(r) \/ SoftDeleteWrite(r) \/ BulkRejectWrite(r)
  <2>1. Return(r) \/ Goto(r, "log") \/ Goto(r, "next")
    BY <1>2 DEF UpdateWrite, HoldWrite, ApproveWrite, RejectWrite, ArchiveWrite,
                SoftDeleteWrite, BulkRejectWrite
  <2>2. Kept BY <2>1, ReturnReopens, GotoReopens
  <2>. QED BY <1>1, <1>2, <2>2, WriteEnded, ClosedOn
<1>3. CASE DeleteWrite(r)
  <2>1. row'[s] = row[s] BY <1>3 DEF DeleteWrite, WorkflowInv, TypeOK, Exists
  <2>2. Kept BY <1>3, ReturnReopens DEF DeleteWrite
  <2>. QED BY <1>1, <2>1, <2>2, EndedOn, ClosedOn DEF Closed
<1>4. CASE ClaimCheck(r) \/ AssignmentInsert(r)
  <2>1. row' = row BY <1>4 DEF ClaimCheck, AssignmentInsert, InsertAssignment, table
  <2>2. /\ Return(r) \/ Goto(r, "assign") \/ Goto(r, "blind") \/ Goto(r, "write")
        /\ req[r].op \in {"claim", "assign"} /\ req[r].at \in {"check", "assign", "blind"}
    BY <1>4 DEF ClaimCheck, AssignmentInsert, Ready
  <2>3. Kept BY <2>2, ReturnReopens, GotoReopens
  <2>. QED BY <1>1, <2>1, <2>3, EndedOn, ClosedOn DEF Closed
<1>5. CASE \/ CreateReturn(r) \/ Abort(r) \/ RecordHistory(r)
           \/ \E u \in Users : CreateAssignment(r, u)
  <2>1. row' = row
    BY <1>5 DEF CreateReturn, Abort, RecordHistory, InsertHistory, CreateAssignment,
                InsertAssignment, table
  <2>2. Return(r) \/ req' = req
    BY <1>5 DEF CreateReturn, Abort, RecordHistory, CreateAssignment
  <2>3. Kept BY <2>2, ReturnReopens
  <2>. QED BY <1>1, <2>1, <2>3, EndedOn, ClosedOn DEF Closed
<1>6. CASE BulkValidate(r) \/ BulkRead(r)
  <2>1. row' = row BY <1>6 DEF BulkValidate, BulkRead, table
  <2>2. CASE Return(r) BY <1>1, <2>1, <2>2, ReturnReopens, EndedOn, ClosedOn DEF Closed
  <2>3. CASE BulkValidate(r) /\ ~Return(r)
    <3>1. PICK q : /\ req' = [req EXCEPT ![r] = q]
                   /\ \/ q = [req[r] EXCEPT !.at = "next", !.todo = req[r].ids]
                      \/ q = [req[r] EXCEPT !.todo = Tail(req[r].todo)]
      BY <2>3 DEF BulkValidate
    <3>2. /\ req[r].at = "validate" /\ req[r] \in RequestRecords /\ ~MayReopen(req[r], s)
      BY <2>3 DEF BulkValidate, WorkflowInv, TypeOK, Closed
    <3>3. /\ q.op = req[r].op /\ q.sub = req[r].sub /\ q.snap = req[r].snap
          /\ q.at \in {"next", "validate"}
      BY <3>1, <3>2 DEF RequestRecords
    <3>4. ~MayReopen(q, s) BY <3>2, <3>3 DEF MayReopen
    <3>. QED BY <1>1, <2>1, <3>1, <3>4, SlotReopens, EndedOn, ClosedOn DEF Closed
  <2>4. CASE BulkRead(r) /\ ~Return(r)
    <3>1. /\ req[r].op = "bulkReject" /\ BulkMayMove(r)
          /\ req' = [req EXCEPT ![r].at = "write", ![r].sub = Head(req[r].todo),
                                ![r].todo = Tail(req[r].todo)]
      BY <2>4 DEF BulkRead
    <3>2. PICK q : q = [req[r] EXCEPT !.at = "write", !.sub = Head(req[r].todo),
                                      !.todo = Tail(req[r].todo)]
      OBVIOUS
    <3>3. req' = [req EXCEPT ![r] = q] BY <3>1, <3>2
    <3>4. q.sub = Head(req[r].todo)
      BY <3>2 DEF WorkflowInv, TypeOK, RequestRecords
    <3>5. Head(req[r].todo) # s
      BY <3>1, EndedRow DEF BulkMayMove, BulkTarget
    <3>6. ~MayReopen(q, s) BY <3>4, <3>5 DEF MayReopen
    <3>. QED BY <1>1, <2>1, <3>3, <3>6, SlotReopens, EndedOn, ClosedOn DEF Closed
  <2>. QED BY <1>6, <2>2, <2>3, <2>4
<1>. QED BY <1>2, <1>3, <1>4, <1>5, <1>6 DEF Continue

\* A run that has not listed s does not touch it, but to archive it.
LEMMA TaskEnded ==
  ASSUME WorkflowInv, NEW s \in Submissions, Closed(s), Exists(s)',
         Tasks \/ TaskAbort \/ DaysPass \/ UNCHANGED vars
  PROVE  Closed(s)'
<1>1. req' = req
  BY DEF Tasks, TimeoutStart, TimeoutRecord, ArchiveStart, ArchiveMark, TimeoutWrite,
         ArchiveRecord, TaskAbort, DaysPass, vars
<1>2. s \notin timeoutJob'.todo
  <2>1. CASE TimeoutStart
    BY <2>1, EndedRow DEF TimeoutStart, TimeoutCandidates, NoTimeouts
  <2>2. CASE \/ ArchiveStart \/ ArchiveMark \/ \E x \in Submissions : ArchiveRecord(x)
    BY <2>2 DEF ArchiveStart, ArchiveMark, ArchiveRecord, Closed
  <2>3. CASE TaskAbort \/ DaysPass \/ UNCHANGED vars
    BY <2>3 DEF TaskAbort, DaysPass, vars, JobsUnchanged, NoTimeouts, Closed
  <2>4. timeoutJob \in [todo: SUBSET Submissions, cur: Submissions \cup {None}]
    BY DEF WorkflowInv, TypeOK
  <2>5. CASE TimeoutRecord BY <2>4, <2>5 DEF TimeoutRecord, Closed
  <2>6. ASSUME NEW x \in Submissions, TimeoutWrite(x) PROVE s \notin timeoutJob'.todo
    BY <2>4, <2>6 DEF TimeoutWrite, Closed
  <2>. QED BY <2>1, <2>2, <2>3, <2>5, <2>6 DEF Tasks
<1>3. Ended(s)'
  <2>1. ASSUME NEW x \in Submissions, TimeoutWrite(x) PROVE row'[s] = row[s]
    BY <2>1 DEF TimeoutWrite, UpdateStatus, Put, Closed, WorkflowInv, TypeOK
  <2>2. CASE ArchiveMark
    <3>1. row'[s] = row[s] \/ row'[s].status = "archived"
      BY <2>2, EndedRow DEF ArchiveMark, Rows
    <3>. QED BY <3>1, EndedOn DEF Closed, Ended
  <2>3. CASE \/ TimeoutStart \/ TimeoutRecord \/ ArchiveStart
             \/ \E x \in Submissions : ArchiveRecord(x)
             \/ TaskAbort \/ DaysPass \/ UNCHANGED vars
    <3>1. row' = row
      BY <2>3 DEF TimeoutStart, TimeoutRecord, ArchiveStart, ArchiveRecord, InsertHistory,
                  TaskAbort, DaysPass, table, vars
    <3>. QED BY <3>1, EndedOn DEF Closed
  <2>. QED BY <2>1, <2>2, <2>3, EndedOn DEF Tasks, Closed
<1>. QED BY <1>1, <1>2, <1>3, ClosedOn

\* A submission that was deleted or archived stays so with any number of
\* requests and runs, once nothing is in flight that saw it open, unless an
\* Assign of an archived one begins.
THEOREM EndedStands == Spec => EndedStays
<1>1. ASSUME WorkflowInv, [Next]_vars, NEW s \in Submissions, Closed(s), Exists(s)'
      PROVE  \/ Closed(s)'
             \/ /\ Ended(s)' /\ ~row[s].deleted
                /\ \E r \in Requests : req[r] = Idle /\ req'[r].op = "assign"
  BY <1>1, StartEnded, ContinueEnded, TaskEnded DEF Next
<1>2. WorkflowInv /\ [Next]_vars =>
        [\A s \in Submissions : Closed(s) /\ Exists(s)' =>
           \/ Closed(s)'
           \/ /\ Ended(s)' /\ ~row[s].deleted
              /\ \E r \in Requests : req[r] = Idle /\ req'[r].op = "assign"]_vars
  BY <1>1
<1>. QED BY <1>2, WorkflowSound, PTL DEF Spec, EndedStays

-----------------------------------------------------------------------------
(* One operation at a time *)

\* What a request in flight has read or written is what the table holds: the
\* row it read is the row until its own write, and after the write the row has
\* the status it will record.
RequestFresh(q) ==
  /\ q.snap # None /\ q.at # "log" => Live(q.sub) /\ row[q.sub] = q.snap
  /\ q.op = "archive" => IsValidTransition(q.snap.status, "archived")
  /\ q.op = "claim" /\ q.at = "assign" => assigns[q.sub] = {}
  /\ q.op \in DOMAIN Recorded /\ q.at = "log" =>
       /\ Exists(q.sub)
       /\ IF q.op = "softDelete" THEN row[q.sub].deleted
          ELSE row[q.sub].status = Recorded[q.op]
  /\ q.op = "bulkReject" /\ q.at = "write" =>
       Live(q.sub) /\ IsValidTransition(row[q.sub].status, "rejected")

\* The candidates of a run of a task are candidates until the run writes them.
TimeoutFresh ==
  /\ \A s \in timeoutJob.todo : Live(s) /\ row[s].status = "pending" /\ age[s] = 2
  /\ timeoutJob.cur # None =>
       Exists(timeoutJob.cur) /\ row[timeoutJob.cur].status = "timeouted"

ArchiveFresh ==
  \A s \in Submissions : archiveJob.old[s] # None =>
    /\ Exists(s)
    /\ archiveJob.old[s] \in {"approved", "rejected", "timeouted"}
    /\ IF archiveJob.marked THEN row[s].status = "archived"
       ELSE Live(s) /\ row[s].status = archiveJob.old[s]

Fresh == (\A r \in Requests : RequestFresh(req[r])) /\ TimeoutFresh /\ ArchiveFresh

SerialInv == WorkflowInv /\ OneAtATime /\ Fresh

\* Nothing but r is in flight, and perhaps r.
OnlySlot(r) ==
  /\ \A q \in Requests \ {r} : req[q] = Idle
  /\ timeoutJob = NoTimeouts /\ archiveJob = NoArchive

NoSlot == \A q \in Requests : req[q] = Idle

LEMMA RequestAlone ==
  ASSUME OneAtATime, NEW r \in Requests, req[r] # Idle
  PROVE  OnlySlot(r)
BY SlotsAssumption DEF OneAtATime, Busy, OnlySlot

LEMMA TimeoutAlone ==
  ASSUME OneAtATime, timeoutJob # NoTimeouts
  PROVE  NoSlot /\ archiveJob = NoArchive
BY SlotsAssumption DEF OneAtATime, Busy, NoSlot

LEMMA ArchiveAlone ==
  ASSUME OneAtATime, archiveJob # NoArchive
  PROVE  NoSlot /\ timeoutJob = NoTimeouts
BY SlotsAssumption DEF OneAtATime, Busy, NoSlot

LEMMA IdleFresh == RequestFresh(Idle)
BY ConstantsAssumption, Tables DEF RequestFresh, Idle, Request, AllOps

LEMMA NoJobsFresh ==
  /\ timeoutJob = NoTimeouts => TimeoutFresh
  /\ archiveJob = NoArchive => ArchiveFresh
BY DEF TimeoutFresh, ArchiveFresh, NoTimeouts, NoArchive

\* A step of the request in slot r, which is in flight before it or after it.
LEMMA SlotStep ==
  ASSUME WorkflowInv, OneAtATime, OneAtATime', NEW r \in Requests, NEW q,
         req[r] # Idle \/ q # Idle, req' = [req EXCEPT ![r] = q], JobsUnchanged
  PROVE  /\ OnlySlot(r)' /\ req'[r] = q
         /\ \A p \in Requests \ {r} : req[p] = Idle
<1>1. req'[r] = q /\ \A p \in Requests \ {r} : req'[p] = req[p]
  BY DEF WorkflowInv, TypeOK
<1>2. CASE req[r] # Idle
  BY <1>1, <1>2, RequestAlone DEF OnlySlot, JobsUnchanged
<1>3. CASE q # Idle
  <2>1. OnlySlot(r)' BY <1>1, <1>3, SlotsAssumption DEF OneAtATime, Busy, OnlySlot
  <2>. QED BY <1>1, <2>1 DEF OnlySlot
<1>. QED BY <1>2, <1>3

\* The request that a step sets is sound in the new state, which is enough.
LEMMA SetFresh ==
  ASSUME SerialInv, OneAtATime', NEW r \in Requests, NEW q,
         req[r] # Idle \/ q # Idle, req' = [req EXCEPT ![r] = q], JobsUnchanged,
         RequestFresh(q)'
  PROVE  Fresh'
<1>1. OnlySlot(r)' /\ req'[r] = q BY SlotStep DEF SerialInv
<1>2. RequestFresh(Idle)'
  BY ConstantsAssumption, Tables DEF RequestFresh, Idle, Request, AllOps
<1>3. \A p \in Requests : RequestFresh(req[p])'
  BY <1>1, <1>2 DEF OnlySlot, RequestFresh
<1>4. TimeoutFresh' /\ ArchiveFresh'
  BY <1>1 DEF OnlySlot, TimeoutFresh, ArchiveFresh, NoTimeouts, NoArchive
<1>. QED BY <1>3, <1>4 DEF Fresh

\* A request that ends leaves nothing in flight.
LEMMA ReturnFresh ==
  ASSUME SerialInv, OneAtATime', NEW r \in Requests, req[r] # Idle, Return(r), JobsUnchanged
  PROVE  Fresh'
<1>1. RequestFresh(Idle)'
  BY ConstantsAssumption, Tables DEF RequestFresh, Idle, Request, AllOps
<1>. QED BY <1>1, SetFresh DEF Return

\* Before its first statement a request for one submission has the row it found.
LEMMA BeginFresh ==
  ASSUME SerialInv, OneAtATime', NEW r \in Requests, NEW s \in Submissions,
         NEW op, NEW who, NEW stage \in {"check", "assign", "write"},
         Begin(r, op, s, who, stage), op \notin {"bulkReject"},
         op = "archive" => IsValidTransition(row[s].status, "archived"),
         op = "claim" => stage = "check"
  PROVE  Fresh'
<1>1. PICK q : q = Request(op, stage, s, who, row[s], <<>>) OBVIOUS
<1>2. q.op = op /\ q.at = stage /\ q.sub = s /\ q.snap = row[s] BY <1>1 DEF Request
<1>3. q # Idle BY <1>2 DEF Idle, Request
<1>4. row' = row BY DEF Begin, table
<1>5. RequestFresh(q)' BY <1>2, <1>4 DEF RequestFresh, Begin, Live, Exists
<1>. QED BY <1>1, <1>3, <1>5, SetFresh DEF Begin

LEMMA StartFresh ==
  ASSUME SerialInv, OneAtATime', NEW r \in Requests, Start(r)
  PROVE  Fresh'
<1>1. ASSUME NEW s \in Submissions, NEW u \in Users \cup {None}, Create(r, s, u)
      PROVE  Fresh'
  <2>1. PICK q : q = Request("create", "assign", s, None, None, <<>>) OBVIOUS
  <2>2. q.op = "create" /\ q.at = "assign" /\ q.snap = None BY <2>1 DEF Request
  <2>3. q # Idle BY <2>2 DEF Idle, Request
  <2>4. RequestFresh(q)' BY <2>2, Tables DEF RequestFresh
  <2>. QED BY <1>1, <2>1, <2>3, <2>4, SetFresh DEF Create
<1>2. ASSUME NEW s \in Submissions, NEW u \in Users \cup {None},
             \/ StartUpdate(r, s, u) \/ StartDelete(r, s) \/ StartSoftDelete(r, s)
             \/ StartArchive(r, s)
      PROVE  Fresh'
  BY <1>2, BeginFresh DEF StartUpdate, StartDelete, StartSoftDelete, StartArchive
<1>3. ASSUME NEW s \in Submissions, NEW u \in Users,
             \/ StartApprove(r, s, u) \/ StartReject(r, s, u)
             \/ StartClaim(r, s, u) \/ StartAssign(r, s, u)
      PROVE  Fresh'
  BY <1>3, BeginFresh DEF StartApprove, StartReject, StartClaim, StartAssign
<1>4. ASSUME NEW ids \in IdLists, NEW op \in DOMAIN BulkTarget, StartBulk(r, op, ids)
      PROVE  Fresh'
  <2>1. PICK q : q = Request(op, "validate", None, None, None, ids) OBVIOUS
  <2>2. q.op = op /\ q.at = "validate" /\ q.snap = None BY <2>1 DEF Request
  <2>3. q # Idle BY <2>2 DEF Idle, Request
  <2>4. op \in {"bulkApprove", "bulkReject"} BY DEF BulkTarget
  <2>5. RequestFresh(q)' BY <2>2, <2>4 DEF RequestFresh
  <2>. QED BY <1>4, <2>1, <2>3, <2>5, SetFresh DEF StartBulk
<1>5. \A s \in Submissions : StartDelete(r, s) \/ StartSoftDelete(r, s) \/ StartArchive(r, s)
        => Fresh'
  BY <1>2
<1>. QED BY <1>1, <1>2, <1>3, <1>4, <1>5 DEF Start

\* A request in flight and what it holds.
LEMMA InFlight ==
  ASSUME SerialInv, NEW r \in Requests
  PROVE  /\ req[r] \in RequestRecords /\ RequestFormed(req[r]) /\ SnapshotSound(req[r])
         /\ RequestFresh(req[r])
         /\ req[r].op # None \/ req[r].at # "idle" => req[r] # Idle
BY DEF SerialInv, WorkflowInv, TypeOK, RequestsSound, Fresh, Idle, Request

\* Moving on to a stage: the record keeps what it holds.
LEMMA GotoFresh ==
  ASSUME SerialInv, OneAtATime', NEW r \in Requests, NEW stage, Goto(r, stage),
         JobsUnchanged, req[r] # Idle,
         NEW q, q = [req[r] EXCEPT !.at = stage], RequestFresh(q)'
  PROVE  Fresh'
BY SetFresh DEF Goto

\* The fields of a request that moves on.
LEMMA Moved ==
  ASSUME SerialInv, NEW r \in Requests, NEW stage, NEW q, q = [req[r] EXCEPT !.at = stage]
  PROVE  /\ q.op = req[r].op /\ q.at = stage /\ q.sub = req[r].sub
         /\ q.snap = req[r].snap /\ q.who = req[r].who
BY InFlight DEF RequestRecords

LEMMA AssignmentFresh ==
  ASSUME SerialInv, OneAtATime', NEW r \in Requests,
         \/ ClaimCheck(r) \/ AssignmentInsert(r) \/ CreateReturn(r)
         \/ \E u \in Users : CreateAssignment(r, u)
  PROVE  Fresh'
<1>0. req[r] # Idle
  BY ConstantsAssumption, InFlight
  DEF ClaimCheck, AssignmentInsert, CreateReturn, CreateAssignment, Ready, AllOps
<1>1. CASE ClaimCheck(r)
  <2>1. CASE Return(r) BY <1>0, <1>1, <2>1, ReturnFresh DEF ClaimCheck
  <2>2. CASE assigns[req[r].sub] = {} /\ Goto(r, "assign")
    <3>1. PICK q : q = [req[r] EXCEPT !.at = "assign"] OBVIOUS
    <3>2. row' = row /\ assigns' = assigns BY <1>1 DEF ClaimCheck, table
    <3>3. req[r].at = "check" /\ req[r].op = "claim" BY <1>1 DEF ClaimCheck
    <3>4. RequestFresh(q)'
      BY <2>2, <3>1, <3>2, <3>3, InFlight, Moved DEF RequestFresh, Live, Exists
    <3>. QED BY <1>0, <1>1, <2>2, <3>1, <3>4, GotoFresh DEF ClaimCheck
  <2>3. CASE Goto(r, "blind")
    <3>1. PICK q : q = [req[r] EXCEPT !.at = "blind"] OBVIOUS
    <3>2. row' = row BY <1>1 DEF ClaimCheck, table
    <3>3. req[r].at = "check" /\ req[r].op = "claim" BY <1>1 DEF ClaimCheck
    <3>4. RequestFresh(q)'
      BY <3>1, <3>2, <3>3, InFlight, Moved DEF RequestFresh, Live, Exists
    <3>. QED BY <1>0, <1>1, <2>3, <3>1, <3>4, GotoFresh DEF ClaimCheck
  <2>. QED BY <1>1, <2>1, <2>2, <2>3 DEF ClaimCheck
<1>2. CASE AssignmentInsert(r)
  <2>1. PICK q : q = [req[r] EXCEPT !.at = "write"] OBVIOUS
  <2>2. row' = row BY <1>2 DEF AssignmentInsert, InsertAssignment
  <2>3. req[r].at \in {"assign", "blind"} /\ req[r].op \in {"claim", "assign"}
    BY <1>2 DEF AssignmentInsert, Ready
  <2>4. RequestFresh(q)'
    BY <2>1, <2>2, <2>3, InFlight, Moved DEF RequestFresh, Live, Exists
  <2>. QED BY <1>0, <1>2, <2>1, <2>4, GotoFresh DEF AssignmentInsert
<1>3. CASE CreateReturn(r) BY <1>0, <1>3, ReturnFresh DEF CreateReturn
<1>4. ASSUME NEW u \in Users, CreateAssignment(r, u) PROVE Fresh'
  <2>1. PICK q : q = req[r] OBVIOUS
  <2>2. row' = row BY <1>4 DEF CreateAssignment, InsertAssignment
  <2>3. q.op = "create" BY <1>4, <2>1 DEF CreateAssignment, Ready
  <2>4. RequestFresh(q)'
    BY <2>1, <2>2, <2>3, InFlight, Tables DEF RequestFresh, Live, Exists
  <2>5. req' = [req EXCEPT ![r] = q]
    BY <1>4, <2>1 DEF CreateAssignment, SerialInv, WorkflowInv, TypeOK
  <2>. QED BY <1>0, <1>4, <2>1, <2>4, <2>5, SetFresh DEF CreateAssignment
<1>. QED BY <1>1, <1>2, <1>3, <1>4

\* The row a write leaves.
LEMMA PutRow ==
  ASSUME SerialInv, NEW s \in Submissions, NEW new, Put(s, new)
  PROVE  row'[s] = new /\ \A x \in Submissions \ {s} : row'[x] = row[x] /\ age'[x] = age[x]
BY DEF Put, SerialInv, WorkflowInv, TypeOK

\* A write that records the status it set, or the deletion.
LEMMA RecordedWriteFresh ==
  ASSUME SerialInv, OneAtATime', NEW r \in Requests,
         Ready(r, DOMAIN Recorded, "write"), Goto(r, "log"), JobsUnchanged,
         NEW new \in Rows, Put(req[r].sub, new),
         IF req[r].op = "softDelete" THEN new.deleted
         ELSE new.status = Recorded[req[r].op]
  PROVE  Fresh'
<1>1. req[r] # Idle BY InFlight, ConstantsAssumption, Tables DEF Ready, AllOps
<1>2. PICK q : q = [req[r] EXCEPT !.at = "log"] OBVIOUS
<1>3. q.op = req[r].op /\ q.at = "log" /\ q.sub = req[r].sub /\ q.snap = req[r].snap
  BY <1>2, Moved
<1>4. req[r].sub \in Submissions BY WriterFacts DEF SerialInv
<1>5. row'[q.sub] = new /\ new # None
  BY <1>3, <1>4, PutRow, ConstantsAssumption
<1>6. q.op \in DOMAIN Recorded BY <1>3 DEF Ready
<1>7. RequestFresh(q)' BY <1>3, <1>5, <1>6, InFlight, Tables DEF RequestFresh, Exists
<1>. QED BY <1>1, <1>2, <1>7, GotoFresh

LEMMA WriteFresh ==
  ASSUME SerialInv, OneAtATime', NEW r \in Requests,
         \/ UpdateWrite(r) \/ HoldWrite(r) \/ ApproveWrite(r) \/ RejectWrite(r)
         \/ ArchiveWrite(r) \/ SoftDeleteWrite(r) \/ DeleteWrite(r)
  PROVE  Fresh'
<1>1. CASE UpdateWrite(r) \/ DeleteWrite(r)
  <2>1. req[r] # Idle
    BY <1>1, InFlight, ConstantsAssumption DEF UpdateWrite, DeleteWrite, Ready, AllOps
  <2>. QED BY <1>1, <2>1, ReturnFresh DEF UpdateWrite, DeleteWrite
<1>2. CASE HoldWrite(r)
  <2>1. PICK new : new = [req[r].snap EXCEPT !.approver = req[r].who,
                                            !.status = Holding[req[r].op]]
    OBVIOUS
  <2>2. /\ req[r].snap \in Rows /\ req[r].who \in Users
        /\ req[r].op \in {"claim", "assign"} /\ Ready(r, DOMAIN Recorded, "write")
    BY <1>2, WriterFacts, Tables DEF HoldWrite, Ready, SerialInv
  <2>3. new \in Rows /\ new.status = Recorded[req[r].op]
    <3>1. Holding[req[r].op] = Recorded[req[r].op] /\ Recorded[req[r].op] \in Statuses
      BY <2>2, Tables DEF Holding, Recorded
    <3>. QED BY <2>1, <2>2, <3>1 DEF Rows
  <2>. QED BY <1>2, <2>1, <2>2, <2>3, RecordedWriteFresh DEF HoldWrite
<1>3. CASE ApproveWrite(r) \/ RejectWrite(r) \/ ArchiveWrite(r) \/ SoftDeleteWrite(r)
  <2>1. PICK old : old = row[req[r].sub] OBVIOUS
  <2>2. Ready(r, DOMAIN Recorded, "write")
    BY <1>3, Tables DEF ApproveWrite, RejectWrite, ArchiveWrite, SoftDeleteWrite, Ready
  <2>3. old \in Rows BY <2>1, <2>2, WriterFacts DEF SerialInv
  <2>4. CASE ApproveWrite(r)
    <3>1. req[r].op = "approve" BY <2>4 DEF ApproveWrite, Ready
    <3>2. req[r].who \in Users BY <2>2, <3>1, WriterFacts DEF SerialInv
    <3>3. PICK new : new = [old EXCEPT !.status = "approved", !.approvedAt = TRUE,
                                       !.approver = req[r].who]
      OBVIOUS
    <3>4. new \in Rows /\ new.status = "approved" BY <2>3, <3>2, <3>3 DEF Rows, Statuses
    <3>. QED BY <2>1, <2>2, <2>4, <3>1, <3>3, <3>4, RecordedWriteFresh, Tables DEF ApproveWrite
  <2>5. CASE RejectWrite(r) \/ ArchiveWrite(r)
    <3>1. req[r].op \in {"reject", "archive"}
      BY <2>5 DEF RejectWrite, ArchiveWrite, Ready
    <3>2. PICK new : new = [old EXCEPT !.status = Recorded[req[r].op]] OBVIOUS
    <3>3. new \in Rows /\ new.status = Recorded[req[r].op]
      BY <2>3, <3>1, <3>2, Tables DEF Rows
    <3>4. Put(req[r].sub, new) /\ Goto(r, "log") /\ JobsUnchanged
      BY <2>1, <2>5, <3>2 DEF RejectWrite, ArchiveWrite, UpdateStatus, Ready, Recorded
    <3>. QED BY <2>2, <3>1, <3>3, <3>4, RecordedWriteFresh
  <2>6. CASE SoftDeleteWrite(r)
    <3>1. req[r].op = "softDelete" BY <2>6 DEF SoftDeleteWrite, Ready
    <3>2. PICK new : new = [old EXCEPT !.deleted = TRUE] OBVIOUS
    <3>3. new \in Rows /\ new.deleted BY <2>3, <3>2 DEF Rows
    <3>. QED BY <2>1, <2>2, <2>6, <3>1, <3>2, <3>3, RecordedWriteFresh DEF SoftDeleteWrite
  <2>. QED BY <1>3, <2>4, <2>5, <2>6
<1>. QED BY <1>1, <1>2, <1>3

LEMMA BulkFresh ==
  ASSUME SerialInv, OneAtATime', NEW r \in Requests,
         BulkValidate(r) \/ BulkRead(r) \/ BulkRejectWrite(r)
  PROVE  Fresh'
<1>0. /\ req[r] # Idle /\ req[r] \in RequestRecords /\ RequestFormed(req[r])
      /\ RequestFresh(req[r])
  BY InFlight, ConstantsAssumption DEF BulkValidate, BulkRead, BulkRejectWrite, Ready, AllOps
<1>1. CASE BulkValidate(r)
  <2>1. CASE Return(r) BY <1>0, <1>1, <2>1, ReturnFresh DEF BulkValidate
  <2>2. CASE \E at \in {"validate", "next"} : \E todo :
               req' = [req EXCEPT ![r] = [req[r] EXCEPT !.at = at, !.todo = todo]]
    <3>a. PICK at \in {"validate", "next"} : \E todo :
            req' = [req EXCEPT ![r] = [req[r] EXCEPT !.at = at, !.todo = todo]]
      BY <2>2
    <3>b. PICK todo :
            req' = [req EXCEPT ![r] = [req[r] EXCEPT !.at = at, !.todo = todo]]
      BY <3>a
    <3>c. PICK q : q = [req[r] EXCEPT !.at = at, !.todo = todo] OBVIOUS
    <3>1. /\ q.op = req[r].op /\ q.at = at /\ q.sub = req[r].sub /\ q.snap = req[r].snap
          /\ req' = [req EXCEPT ![r] = q]
      BY <1>0, <3>b, <3>c DEF RequestRecords
    <3>2. row' = row /\ req[r].at = "validate" BY <1>1 DEF BulkValidate, table
    <3>3. RequestFresh(q)' BY <1>0, <3>a, <3>1, <3>2 DEF RequestFresh, Live, Exists
    <3>. QED BY <1>0, <1>1, <3>1, <3>3, SetFresh DEF BulkValidate
  <2>. QED
    <3>1. req[r].at = "validate" /\ req[r] = [req[r] EXCEPT !.at = "validate"]
      BY <1>0, <1>1 DEF BulkValidate, RequestRecords
    <3>2. CASE req' = [req EXCEPT ![r].at = "next", ![r].todo = req[r].ids]
      BY <2>2, <3>2
    <3>3. CASE req' = [req EXCEPT ![r].todo = Tail(@)]
      <4>1. [req[r] EXCEPT !.todo = Tail(@)]
              = [req[r] EXCEPT !.at = "validate", !.todo = Tail(req[r].todo)]
        BY <1>0, <3>1 DEF RequestRecords
      <4>. QED BY <2>2, <3>3, <4>1
    <3>. QED BY <1>1, <2>1, <3>2, <3>3 DEF BulkValidate
<1>2. CASE BulkRead(r)
  <2>1. CASE Return(r) BY <1>0, <1>2, <2>1, ReturnFresh DEF BulkRead
  <2>2. CASE ~Return(r)
    <3>1. /\ req[r].todo # <<>> /\ req[r].op = "bulkReject" /\ BulkMayMove(r)
          /\ req' = [req EXCEPT ![r].at = "write", ![r].sub = Head(req[r].todo),
                                ![r].todo = Tail(req[r].todo)]
      BY <1>2, <2>2 DEF BulkRead
    <3>2. PICK q : q = [req[r] EXCEPT !.at = "write", !.sub = Head(req[r].todo),
                                      !.todo = Tail(req[r].todo)]
      OBVIOUS
    <3>3. q.op = "bulkReject" /\ q.at = "write" /\ q.sub = Head(req[r].todo) /\ q.snap = None
      BY <1>0, <3>1, <3>2 DEF RequestRecords, RequestFormed
    <3>4. Live(q.sub) /\ IsValidTransition(row[q.sub].status, "rejected")
      BY <3>1, <3>3 DEF BulkMayMove, BulkTarget
    <3>5. row' = row BY <1>2 DEF BulkRead, table
    <3>6. RequestFresh(q)' BY <3>3, <3>4, <3>5, Tables DEF RequestFresh, Live, Exists
    <3>7. req' = [req EXCEPT ![r] = q] BY <3>1, <3>2
    <3>. QED BY <1>0, <1>2, <3>6, <3>7, SetFresh DEF BulkRead
  <2>. QED BY <2>1, <2>2
<1>3. CASE BulkRejectWrite(r)
  <2>1. PICK q : q = [req[r] EXCEPT !.at = "next"] OBVIOUS
  <2>2. q.op = "bulkReject" /\ q.at = "next" /\ q.snap = None
    BY <1>0, <1>3, <2>1, Moved DEF BulkRejectWrite, Ready, RequestFormed
  <2>3. RequestFresh(q)' BY <2>2 DEF RequestFresh
  <2>. QED BY <1>0, <1>3, <2>1, <2>3, GotoFresh DEF BulkRejectWrite
<1>. QED BY <1>1, <1>2, <1>3

LEMMA ContinueFresh ==
  ASSUME SerialInv, OneAtATime', NEW r \in Requests, Continue(r) \/ Abort(r)
  PROVE  Fresh'
<1>1. CASE Abort(r) BY <1>1, ReturnFresh DEF Abort
<1>2. CASE RecordHistory(r)
  <2>1. req[r] # Idle
    BY <1>2, InFlight, ConstantsAssumption, Tables DEF RecordHistory, Ready, AllOps
  <2>. QED BY <1>2, <2>1, ReturnFresh DEF RecordHistory
<1>. QED BY <1>1, <1>2, AssignmentFresh, WriteFresh, BulkFresh DEF Continue

\* A step of a task's run, which is all there is in flight.
LEMMA JobStep ==
  ASSUME NoSlot', TimeoutFresh', ArchiveFresh'
  PROVE  Fresh'
<1>1. RequestFresh(Idle)' BY ConstantsAssumption, Tables DEF RequestFresh, Idle, Request, AllOps
<1>2. \A r \in Requests : RequestFresh(req[r])' BY <1>1 DEF NoSlot, RequestFresh
<1>. QED BY <1>2 DEF Fresh

LEMMA TaskFresh ==
  ASSUME SerialInv, OneAtATime', Tasks
  PROVE  Fresh'
<1>0. /\ row \in [Submissions -> Rows \cup {None}] /\ age \in [Submissions -> 0..2]
      /\ timeoutJob \in [todo: SUBSET Submissions, cur: Submissions \cup {None}]
      /\ archiveJob \in [marked: BOOLEAN, old: [Submissions -> Statuses \cup {None}]]
      /\ OneAtATime /\ TimeoutFresh /\ ArchiveFresh
  BY DEF SerialInv, WorkflowInv, TypeOK, Fresh
<1>a. None \notin Rows BY ConstantsAssumption
<1>1. CASE TimeoutStart
  <2>1. TimeoutCandidates # {} /\ timeoutJob'.todo = TimeoutCandidates /\ timeoutJob'.cur = None
    BY <1>1 DEF TimeoutStart, NoTimeouts
  <2>2. timeoutJob' # NoTimeouts BY <2>1 DEF NoTimeouts
  <2>3. NoSlot' /\ archiveJob' = NoArchive
    BY <2>2, SlotsAssumption DEF OneAtATime, Busy, NoSlot
  <2>4. TimeoutFresh'
    BY <1>1, <2>1 DEF TimeoutStart, table, TimeoutFresh, TimeoutCandidates, Live, Exists
  <2>5. ArchiveFresh' BY <2>3 DEF ArchiveFresh, NoArchive
  <2>. QED BY <2>3, <2>4, <2>5, JobStep
<1>2. CASE TimeoutRecord \/ \E s \in Submissions : TimeoutWrite(s)
  <2>1. timeoutJob # NoTimeouts
    BY <1>2 DEF TimeoutRecord, TimeoutWrite, NoTimeouts
  <2>2. NoSlot /\ archiveJob = NoArchive BY <1>0, <2>1, TimeoutAlone
  <2>3. UNCHANGED <<req, archiveJob>> BY <1>2 DEF TimeoutRecord, TimeoutWrite
  <2>4. NoSlot' /\ ArchiveFresh' BY <2>2, <2>3 DEF NoSlot, ArchiveFresh, NoArchive
  <2>5. CASE TimeoutRecord
    <3>1. /\ row' = row /\ age' = age
          /\ timeoutJob'.todo = timeoutJob.todo /\ timeoutJob'.cur = None
      BY <1>0, <2>5 DEF TimeoutRecord, InsertHistory, table
    <3>2. TimeoutFresh' BY <1>0, <3>1 DEF TimeoutFresh, Live, Exists
    <3>. QED BY <2>4, <3>2, JobStep
  <2>6. ASSUME NEW s \in Submissions, TimeoutWrite(s) PROVE Fresh'
    <3>1. s \in timeoutJob.todo /\ timeoutJob.cur = None BY <2>6 DEF TimeoutWrite
    <3>2. Exists(s) BY <1>0, <3>1 DEF TimeoutFresh, Live
    <3>3. /\ UpdateStatus(s, "timeouted")
          /\ timeoutJob'.todo = timeoutJob.todo \ {s} /\ timeoutJob'.cur = s
      BY <2>6, <3>2 DEF TimeoutWrite
    <3>4. PICK new : new = [row[s] EXCEPT !.status = "timeouted"] OBVIOUS
    <3>5. new \in Rows /\ new.status = "timeouted"
      BY <1>0, <3>2, <3>4 DEF Exists, Rows, Statuses
    <3>6. /\ row'[s] = new
          /\ \A x \in Submissions \ {s} : row'[x] = row[x] /\ age'[x] = age[x]
      BY <3>3, <3>4, PutRow DEF UpdateStatus
    <3>7. TimeoutFresh' BY <1>0, <1>a, <3>3, <3>5, <3>6 DEF TimeoutFresh, Live, Exists
    <3>. QED BY <2>4, <3>7, JobStep
  <2>. QED BY <1>2, <2>5, <2>6
<1>3. CASE ArchiveStart
  <2>1. PICK s \in Submissions : s \in ArchiveCandidates
    BY <1>3 DEF ArchiveStart, ArchiveCandidates
  <2>2. /\ archiveJob'.marked = FALSE
        /\ \A x \in Submissions : archiveJob'.old[x] = IF x \in ArchiveCandidates
                                                       THEN row[x].status ELSE None
    BY <1>3 DEF ArchiveStart
  <2>3. archiveJob'.old[s] # None
    BY <2>1, <2>2, ConstantsAssumption DEF ArchiveCandidates, Statuses
  <2>4. archiveJob' # NoArchive BY <2>3 DEF NoArchive
  <2>5. NoSlot' /\ timeoutJob' = NoTimeouts
    BY <2>4, SlotsAssumption DEF OneAtATime, Busy, NoSlot
  <2>6. ArchiveFresh'
    BY <1>3, <2>2 DEF ArchiveStart, table, ArchiveFresh, ArchiveCandidates, Live, Exists
  <2>7. TimeoutFresh' BY <2>5 DEF TimeoutFresh, NoTimeouts
  <2>. QED BY <2>5, <2>6, <2>7, JobStep
<1>4. CASE ArchiveMark \/ \E s \in Submissions : ArchiveRecord(s)
  <2>1. archiveJob # NoArchive
    BY <1>4 DEF ArchiveMark, ArchiveRecord, NoArchive
  <2>2. NoSlot /\ timeoutJob = NoTimeouts BY <1>0, <2>1, ArchiveAlone
  <2>3. UNCHANGED <<req, timeoutJob>> BY <1>4 DEF ArchiveMark, ArchiveRecord
  <2>4. NoSlot' /\ TimeoutFresh' BY <2>2, <2>3 DEF NoSlot, TimeoutFresh, NoTimeouts
  <2>5. CASE ArchiveMark
    <3>1. CASE archiveJob' = NoArchive
      <4>1. ArchiveFresh' BY <3>1 DEF ArchiveFresh, NoArchive
      <4>. QED BY <2>4, <4>1, JobStep
    <3>2. CASE archiveJob' # NoArchive
      <4>1. /\ archiveJob'.marked
            /\ \A x \in Submissions : archiveJob'.old[x] = IF x \in Archivable
                                                           THEN archiveJob.old[x] ELSE None
        BY <2>5, <3>2 DEF ArchiveMark
      <4>2. ASSUME NEW x \in Archivable
            PROVE  x \in Submissions /\ row'[x] \in Rows /\ row'[x].status = "archived"
        <5>1. x \in Submissions /\ row[x] \in Rows BY <1>0, <4>2 DEF Archivable, Exists
        <5>2. row'[x] = [row[x] EXCEPT !.status = "archived"] BY <2>5, <4>2, <5>1 DEF ArchiveMark
        <5>. QED BY <5>1, <5>2 DEF Rows, Statuses
      <4>3. ArchiveFresh'
        BY <1>0, <1>a, <4>1, <4>2 DEF ArchiveFresh, Exists
      <4>. QED BY <2>4, <4>3, JobStep
    <3>. QED BY <3>1, <3>2
  <2>6. ASSUME NEW s \in Submissions, ArchiveRecord(s) PROVE Fresh'
    <3>1. row' = row BY <2>6 DEF ArchiveRecord, InsertHistory, table
    <3>2. /\ archiveJob.marked
          /\ \A x \in Submissions : archiveJob'.old[x] \in {None, archiveJob.old[x]}
          /\ (\E x \in Submissions : archiveJob'.old[x] # None) => archiveJob'.marked
      BY <1>0, <2>6 DEF ArchiveRecord, NoArchive
    <3>3. ArchiveFresh' BY <1>0, <3>1, <3>2 DEF ArchiveFresh, Exists
    <3>. QED BY <2>4, <3>3, JobStep
  <2>. QED BY <1>4, <2>5, <2>6
<1>. QED BY <1>1, <1>2, <1>3, <1>4 DEF Tasks

LEMMA RestFresh ==
  ASSUME SerialInv, OneAtATime', TaskAbort \/ DaysPass \/ UNCHANGED vars
  PROVE  Fresh'
<1>0. OneAtATime /\ Fresh BY DEF SerialInv
<1>1. CASE TaskAbort
  <2>1. NoSlot BY <1>0, <1>1, TimeoutAlone, ArchiveAlone DEF TaskAbort
  <2>2. req' = req BY <1>1 DEF TaskAbort
  <2>3. timeoutJob' = NoTimeouts /\ archiveJob' = NoArchive
    BY <1>0, <1>1, TimeoutAlone, ArchiveAlone DEF TaskAbort
  <2>4. NoSlot' BY <2>1, <2>2 DEF NoSlot
  <2>5. TimeoutFresh' /\ ArchiveFresh'
    BY <2>3 DEF TimeoutFresh, ArchiveFresh, NoTimeouts, NoArchive
  <2>. QED BY <2>4, <2>5, JobStep
<1>2. CASE DaysPass
  <2>1. NoSlot /\ timeoutJob = NoTimeouts /\ archiveJob = NoArchive
    BY <1>2 DEF DaysPass, Busy, NoSlot
  <2>2. UNCHANGED <<req, timeoutJob, archiveJob>> BY <1>2 DEF DaysPass, JobsUnchanged
  <2>3. NoSlot' /\ TimeoutFresh' /\ ArchiveFresh'
    BY <2>1, <2>2 DEF NoSlot, TimeoutFresh, ArchiveFresh, NoTimeouts, NoArchive
  <2>. QED BY <2>3, JobStep
<1>3. CASE UNCHANGED vars
  BY <1>0, <1>3 DEF vars, table, Fresh, RequestFresh, TimeoutFresh, ArchiveFresh, Live, Exists
<1>. QED BY <1>1, <1>2, <1>3

\* Serial behaviours keep what requests and runs have read up to date.
LEMMA SerialSound == SerialSpec => []SerialInv
<1>1. Init => OneAtATime /\ Fresh
  <2> SUFFICES ASSUME Init PROVE OneAtATime /\ Fresh
    OBVIOUS
  <2>1. OneAtATime BY DEF Init, OneAtATime, Busy
  <2>. QED BY <2>1, IdleFresh, NoJobsFresh DEF Init, Fresh
<1>2. SerialInv /\ [SerialNext]_vars => (OneAtATime /\ Fresh)'
  <2> SUFFICES ASSUME SerialInv, [SerialNext]_vars PROVE (OneAtATime /\ Fresh)'
    OBVIOUS
  <2>1. OneAtATime'
    BY DEF SerialNext, SerialInv, OneAtATime, Busy, vars
  <2>2. CASE Next
    BY <2>1, <2>2, StartFresh, ContinueFresh, TaskFresh, RestFresh DEF Next
  <2>3. CASE UNCHANGED vars BY <2>1, <2>3, RestFresh
  <2>. QED BY <2>1, <2>2, <2>3 DEF SerialNext
<1>3. [SerialNext]_vars => [Next]_vars BY DEF SerialNext
<1>4. SerialSpec => Spec BY <1>3, PTL DEF SerialSpec, Spec
<1>. QED BY <1>1, <1>2, <1>4, WorkflowSound, PTL DEF SerialSpec, SerialInv

-----------------------------------------------------------------------------
(* One operation at a time, the workflow implements its lifecycle *)

\* The state the lifecycle sees, as SubmissionSerial maps it.
StatusBar == [s \in Submissions |->
                IF Exists(s) THEN row[s].status
                ELSE IF s \in used THEN "removed" ELSE "unborn"]
HiddenBar == {s \in Submissions : Exists(s) /\ row[s].deleted}

\* The steps of the lifecycle, said of that state.
LEMMA AbstractInit ==
  ASSUME StatusBar = [s \in Submissions |-> "unborn"], HiddenBar = {}
  PROVE  Lifecycle!LifecycleInit
BY DEF Lifecycle!LifecycleInit, StatusBar, HiddenBar

LEMMA AbstractStutter ==
  ASSUME StatusBar' = StatusBar, HiddenBar' = HiddenBar
  PROVE  UNCHANGED Lifecycle!lifecycle
BY DEF Lifecycle!lifecycle, StatusBar, HiddenBar

LEMMA AbstractReachable ==
  Lifecycle!Reachable = {s \in Submissions : StatusBar[s] \in Statuses} \ HiddenBar
BY DEF Lifecycle!Reachable, Lifecycle!Statuses, Statuses, StatusBar, HiddenBar

LEMMA AbstractTransition ==
  ASSUME NEW from, NEW to
  PROVE  Lifecycle!IsValidTransition(from, to) <=> IsValidTransition(from, to)
BY DEF Lifecycle!IsValidTransition, IsValidTransition, Lifecycle!ValidStatusTransitions,
       ValidStatusTransitions, Lifecycle!Statuses, Statuses

LEMMA AbstractOpen ==
  ASSUME NEW s \in Submissions, StatusBar[s] = "unborn",
         StatusBar' = [StatusBar EXCEPT ![s] = "pending"], HiddenBar' = HiddenBar
  PROVE  Lifecycle!LifecycleNext
<1>1. Lifecycle!Open(s) BY DEF Lifecycle!Open, StatusBar, HiddenBar
<1>. QED BY <1>1 DEF Lifecycle!LifecycleNext

LEMMA AbstractMove ==
  ASSUME NEW s \in Lifecycle!Reachable, NEW to \in Statuses,
         IsValidTransition(StatusBar[s], to),
         StatusBar' = [StatusBar EXCEPT ![s] = to], HiddenBar' = HiddenBar
  PROVE  Lifecycle!LifecycleNext
<1>1. s \in Submissions BY AbstractReachable
<1>2. Lifecycle!IsValidTransition(StatusBar[s], to) BY AbstractTransition
<1>3. Lifecycle!Move(s, to) BY <1>2 DEF Lifecycle!Move, StatusBar, HiddenBar
<1>. QED BY <1>1, <1>3 DEF Lifecycle!LifecycleNext, Lifecycle!Statuses, Statuses

LEMMA AbstractReassign ==
  ASSUME NEW s \in Lifecycle!Reachable,
         StatusBar' = [StatusBar EXCEPT ![s] = "assigned"], HiddenBar' = HiddenBar
  PROVE  Lifecycle!LifecycleNext
<1>1. s \in Submissions BY AbstractReachable
<1>2. Lifecycle!Reassign(s) BY DEF Lifecycle!Reassign, StatusBar, HiddenBar
<1>. QED BY <1>1, <1>2 DEF Lifecycle!LifecycleNext

LEMMA AbstractHide ==
  ASSUME NEW s \in Lifecycle!Reachable,
         StatusBar' = StatusBar, HiddenBar' = HiddenBar \cup {s}
  PROVE  Lifecycle!LifecycleNext
<1>1. s \in Submissions BY AbstractReachable
<1>2. Lifecycle!Hide(s) BY DEF Lifecycle!Hide, StatusBar, HiddenBar
<1>. QED BY <1>1, <1>2 DEF Lifecycle!LifecycleNext

LEMMA AbstractRemove ==
  ASSUME NEW s \in Lifecycle!Reachable,
         StatusBar' = [StatusBar EXCEPT ![s] = "removed"], HiddenBar' = HiddenBar
  PROVE  Lifecycle!LifecycleNext
<1>1. s \in Submissions BY AbstractReachable
<1>2. Lifecycle!Remove(s) BY DEF Lifecycle!Remove, StatusBar, HiddenBar
<1>. QED BY <1>1, <1>2 DEF Lifecycle!LifecycleNext

LEMMA AbstractArchiveAll ==
  ASSUME NEW S \in SUBSET Lifecycle!Reachable,
         \A s \in S : IsValidTransition(StatusBar[s], "archived"),
         StatusBar' = [s \in Submissions |-> IF s \in S THEN "archived" ELSE StatusBar[s]],
         HiddenBar' = HiddenBar
  PROVE  Lifecycle!LifecycleNext
<1>1. S \in SUBSET Submissions BY AbstractReachable
<1>2. \A s \in S : Lifecycle!IsValidTransition(StatusBar[s], "archived") BY AbstractTransition
<1>3. Lifecycle!ArchiveAll(S) BY <1>2 DEF Lifecycle!ArchiveAll, StatusBar, HiddenBar
<1>. QED BY <1>1, <1>3 DEF Lifecycle!LifecycleNext

\* What a step of the table does to that state.
LEMMA LiveReachable ==
  ASSUME SerialInv, NEW s \in Submissions, Live(s)
  PROVE  StatusBar[s] = row[s].status /\ s \in Lifecycle!Reachable
<1>1. StatusBar[s] = row[s].status BY DEF StatusBar, Live
<1>2. row[s] \in Rows BY DEF SerialInv, WorkflowInv, TypeOK, Live, Exists
<1>3. s \notin HiddenBar BY DEF HiddenBar, Live
<1>. QED BY <1>1, <1>2, <1>3, AbstractReachable DEF Rows

LEMMA UnmovedBar ==
  ASSUME row' = row, used' = used
  PROVE  UNCHANGED Lifecycle!lifecycle
<1>1. StatusBar' = StatusBar BY DEF StatusBar, Exists
<1>2. HiddenBar' = HiddenBar BY DEF HiddenBar, Exists
<1>. QED BY <1>1, <1>2, AbstractStutter

LEMMA PutBar ==
  ASSUME SerialInv, NEW s \in Submissions, Live(s), NEW new \in Rows, Put(s, new),
         used' = used
  PROVE  /\ StatusBar' = [StatusBar EXCEPT ![s] = new.status]
         /\ HiddenBar' = IF new.deleted THEN HiddenBar \cup {s} ELSE HiddenBar
<1>1. row'[s] = new /\ new # None /\ \A x \in Submissions \ {s} : row'[x] = row[x]
  BY PutRow, ConstantsAssumption
<1>2. StatusBar' = [x \in Submissions |-> IF x = s THEN new.status ELSE StatusBar[x]]
  BY <1>1 DEF StatusBar, Exists
<1>3. [StatusBar EXCEPT ![s] = new.status]
        = [x \in Submissions |-> IF x = s THEN new.status ELSE StatusBar[x]]
  BY DEF StatusBar
<1>4. new.deleted \in BOOLEAN BY DEF Rows
<1>5. HiddenBar' = IF new.deleted THEN HiddenBar \cup {s} ELSE HiddenBar
  BY <1>1, <1>4 DEF HiddenBar, Exists, Live
<1>. QED BY <1>2, <1>3, <1>5

\* A write of a live row along the table is a move, whatever writes it.
LEMMA MoveRefines ==
  ASSUME SerialInv, NEW s \in Submissions, Live(s), NEW new \in Rows, Put(s, new),
         used' = used, new.deleted = FALSE, IsValidTransition(row[s].status, new.status)
  PROVE  Lifecycle!LifecycleNext
<1>1. new.status \in Statuses BY DEF Rows
<1>2. HiddenBar' = HiddenBar /\ StatusBar' = [StatusBar EXCEPT ![s] = new.status]
  BY PutBar
<1>. QED BY <1>1, <1>2, LiveReachable, AbstractMove

LEMMA CreateRefines ==
  ASSUME SerialInv, NEW r \in Requests, NEW s \in Submissions,
         NEW u \in Users \cup {None}, Create(r, s, u)
  PROVE  Lifecycle!LifecycleNext
<1>1. PICK new : new = [status |-> "pending", approver |-> u,
                        approvedAt |-> FALSE, deleted |-> FALSE]
  OBVIOUS
<1>2. new \in Rows /\ new.status = "pending" /\ new.deleted = FALSE
  BY <1>1 DEF Rows, Statuses
<1>3. s \notin used /\ ~Exists(s) /\ used' = used \cup {s} /\ Put(s, new)
  BY <1>1 DEF Create, SerialInv, WorkflowInv, RequestsSound
<1>4. row'[s] = new /\ new # None /\ \A x \in Submissions \ {s} : row'[x] = row[x]
  BY <1>2, <1>3, PutRow, ConstantsAssumption
<1>5. StatusBar' = [StatusBar EXCEPT ![s] = "pending"]
  <2>1. StatusBar' = [x \in Submissions |-> IF x = s THEN "pending" ELSE StatusBar[x]]
    BY <1>2, <1>3, <1>4 DEF StatusBar, Exists
  <2>. QED BY <2>1 DEF StatusBar
<1>6. HiddenBar' = HiddenBar BY <1>2, <1>3, <1>4 DEF HiddenBar, Exists
<1>7. StatusBar[s] = "unborn" BY <1>3 DEF StatusBar
<1>. QED BY <1>5, <1>6, <1>7, AbstractOpen

\* A request about to write: its row is live and still the one it read.
LEMMA WriterFresh ==
  ASSUME SerialInv, NEW r \in Requests, NEW ops, Ready(r, ops, "write"),
         req[r].op \in DOMAIN Recorded \cup {"update", "delete"}
  PROVE  /\ req[r].sub \in Submissions /\ Live(req[r].sub)
         /\ row[req[r].sub] = req[r].snap /\ req[r].snap \in Rows
         /\ req[r].op \in {"approve", "reject", "claim", "assign"} => req[r].who \in Users
BY InFlight, WriterFacts, Tables DEF SerialInv, RequestFresh, RequestFormed, Ready

LEMMA UpdateRefines ==
  ASSUME SerialInv, NEW r \in Requests, UpdateWrite(r)
  PROVE  UNCHANGED Lifecycle!lifecycle
<1>1. /\ req[r].sub \in Submissions /\ Live(req[r].sub)
      /\ row[req[r].sub] = req[r].snap /\ req[r].snap \in Rows
  BY WriterFresh, Tables DEF UpdateWrite, Ready
<1>2. PICK new : new = IF req[r].who = None THEN req[r].snap
                       ELSE [req[r].snap EXCEPT !.approver = req[r].who]
  OBVIOUS
<1>3. req[r].who \in Users \cup {None} BY InFlight DEF RequestRecords
<1>4. new \in Rows /\ new.status = row[req[r].sub].status /\ new.deleted = FALSE
  BY <1>1, <1>2, <1>3 DEF Rows, Live
<1>5. Put(req[r].sub, new) /\ used' = used BY <1>2 DEF UpdateWrite
<1>6. /\ StatusBar' = [StatusBar EXCEPT ![req[r].sub] = new.status]
      /\ HiddenBar' = HiddenBar
  BY <1>1, <1>4, <1>5, PutBar
<1>7. StatusBar' = StatusBar BY <1>1, <1>4, <1>6, LiveReachable DEF StatusBar
<1>. QED BY <1>6, <1>7, AbstractStutter

LEMMA HoldRefines ==
  ASSUME SerialInv, NEW r \in Requests, HoldWrite(r)
  PROVE  Lifecycle!LifecycleNext
<1>1. req[r].op \in {"claim", "assign"} /\ Ready(r, {"claim", "assign"}, "write")
  BY DEF HoldWrite, Ready
<1>2. /\ req[r].sub \in Submissions /\ Live(req[r].sub)
      /\ row[req[r].sub] = req[r].snap /\ req[r].snap \in Rows /\ req[r].who \in Users
  BY <1>1, WriterFresh, Tables
<1>3. PICK new : new = [req[r].snap EXCEPT !.approver = req[r].who,
                                          !.status = Holding[req[r].op]]
  OBVIOUS
<1>4. new \in Rows /\ new.status = Holding[req[r].op] /\ new.deleted = FALSE
  BY <1>1, <1>2, <1>3, Tables DEF Rows, Live, Statuses
<1>5. Put(req[r].sub, new) /\ used' = used BY <1>3 DEF HoldWrite
<1>6. CASE req[r].op = "claim"
  <2>1. IsValidTransition(row[req[r].sub].status, "claimed")
    BY <1>2, <1>6, InFlight, Tables, ConstantsAssumption DEF SnapshotSound
  <2>. QED BY <1>2, <1>4, <1>5, <1>6, <2>1, MoveRefines, Tables
<1>7. CASE req[r].op = "assign"
  <2>1. /\ StatusBar' = [StatusBar EXCEPT ![req[r].sub] = "assigned"]
        /\ HiddenBar' = HiddenBar
    BY <1>2, <1>4, <1>5, <1>7, PutBar, Tables
  <2>. QED BY <1>2, <2>1, LiveReachable, AbstractReassign
<1>. QED BY <1>1, <1>6, <1>7

LEMMA DecisionRefines ==
  ASSUME SerialInv, NEW r \in Requests,
         ApproveWrite(r) \/ RejectWrite(r) \/ ArchiveWrite(r)
  PROVE  Lifecycle!LifecycleNext
<1>1. /\ req[r].op \in {"approve", "reject", "archive"}
      /\ Ready(r, {"approve", "reject", "archive"}, "write")
  BY DEF ApproveWrite, RejectWrite, ArchiveWrite, Ready
<1>2. /\ req[r].sub \in Submissions /\ Live(req[r].sub)
      /\ row[req[r].sub] = req[r].snap /\ req[r].snap \in Rows
      /\ req[r].op = "approve" => req[r].who \in Users
  BY <1>1, WriterFresh, Tables
<1>3. IsValidTransition(row[req[r].sub].status, Recorded[req[r].op])
  BY <1>1, <1>2, InFlight, ConstantsAssumption DEF SnapshotSound, RequestFresh, Recorded
<1>4. PICK old : old = row[req[r].sub] OBVIOUS
<1>5. PICK new : new = IF req[r].op = "approve"
                       THEN [old EXCEPT !.status = "approved", !.approvedAt = TRUE,
                                        !.approver = req[r].who]
                       ELSE [old EXCEPT !.status = Recorded[req[r].op]]
  OBVIOUS
<1>6. new \in Rows /\ new.status = Recorded[req[r].op] /\ new.deleted = FALSE
  BY <1>1, <1>2, <1>4, <1>5, Tables DEF Rows, Live, Statuses
<1>7. Put(req[r].sub, new) /\ used' = used
  BY <1>1, <1>4, <1>5 DEF ApproveWrite, RejectWrite, ArchiveWrite, UpdateStatus, Ready, Recorded
<1>. QED BY <1>2, <1>3, <1>6, <1>7, MoveRefines

LEMMA BulkRejectRefines ==
  ASSUME SerialInv, NEW r \in Requests, BulkRejectWrite(r)
  PROVE  Lifecycle!LifecycleNext
<1>1. Ready(r, {"bulkReject"}, "write") /\ req[r].op = "bulkReject" /\ req[r].at = "write"
  BY DEF BulkRejectWrite, Ready
<1>2. /\ req[r].sub \in Submissions /\ Live(req[r].sub) /\ row[req[r].sub] \in Rows
      /\ IsValidTransition(row[req[r].sub].status, "rejected")
  BY <1>1, WriterFacts, InFlight DEF SerialInv, RequestFresh
<1>3. PICK new : new = [row[req[r].sub] EXCEPT !.status = "rejected"] OBVIOUS
<1>4. new \in Rows /\ new.status = "rejected" /\ new.deleted = FALSE
  BY <1>2, <1>3 DEF Rows, Live, Statuses
<1>5. Put(req[r].sub, new) /\ used' = used BY <1>3 DEF BulkRejectWrite, UpdateStatus
<1>. QED BY <1>2, <1>4, <1>5, MoveRefines

LEMMA SoftDeleteRefines ==
  ASSUME SerialInv, NEW r \in Requests, SoftDeleteWrite(r)
  PROVE  Lifecycle!LifecycleNext
<1>1. Ready(r, {"softDelete"}, "write") /\ req[r].op = "softDelete"
  BY DEF SoftDeleteWrite, Ready
<1>2. req[r].sub \in Submissions /\ Live(req[r].sub) /\ row[req[r].sub] \in Rows
  BY <1>1, WriterFresh, Tables
<1>3. PICK new : new = [row[req[r].sub] EXCEPT !.deleted = TRUE] OBVIOUS
<1>4. new \in Rows /\ new.status = row[req[r].sub].status /\ new.deleted
  BY <1>2, <1>3 DEF Rows
<1>5. Put(req[r].sub, new) /\ used' = used BY <1>3 DEF SoftDeleteWrite
<1>6. /\ StatusBar' = [StatusBar EXCEPT ![req[r].sub] = new.status]
      /\ HiddenBar' = HiddenBar \cup {req[r].sub}
  BY <1>2, <1>4, <1>5, PutBar
<1>7. StatusBar' = StatusBar BY <1>2, <1>4, <1>6, LiveReachable DEF StatusBar
<1>. QED BY <1>2, <1>6, <1>7, LiveReachable, AbstractHide

LEMMA DeleteRefines ==
  ASSUME SerialInv, NEW r \in Requests, DeleteWrite(r)
  PROVE  Lifecycle!LifecycleNext
<1>1. Ready(r, {"delete"}, "write") /\ req[r].op = "delete" BY DEF DeleteWrite, Ready
<1>2. PICK s : s = req[r].sub OBVIOUS
<1>3. s \in Submissions /\ Live(s) /\ s \in used
  BY <1>1, <1>2, WriterFresh, Tables DEF SerialInv, WorkflowInv, RequestsSound, Live
<1>4. row' = [row EXCEPT ![s] = None] /\ used' = used BY <1>2 DEF DeleteWrite
<1>5. row'[s] = None /\ \A x \in Submissions \ {s} : row'[x] = row[x]
  BY <1>3, <1>4 DEF SerialInv, WorkflowInv, TypeOK
<1>6. StatusBar' = [StatusBar EXCEPT ![s] = "removed"]
  <2>1. StatusBar' = [x \in Submissions |-> IF x = s THEN "removed" ELSE StatusBar[x]]
    BY <1>3, <1>4, <1>5 DEF StatusBar, Exists
  <2>. QED BY <2>1 DEF StatusBar
<1>7. HiddenBar' = HiddenBar BY <1>3, <1>5 DEF HiddenBar, Exists, Live
<1>. QED BY <1>3, <1>6, <1>7, LiveReachable, AbstractRemove

\* The tasks: a candidate is still one when it is written.
LEMMA TimeoutRefines ==
  ASSUME SerialInv, NEW s \in Submissions, TimeoutWrite(s)
  PROVE  Lifecycle!LifecycleNext
<1>1. Live(s) /\ row[s].status = "pending" /\ row[s] \in Rows
  BY DEF TimeoutWrite, SerialInv, Fresh, TimeoutFresh, WorkflowInv, TypeOK, Live, Exists
<1>2. PICK new : new = [row[s] EXCEPT !.status = "timeouted"] OBVIOUS
<1>3. new \in Rows /\ new.status = "timeouted" /\ new.deleted = FALSE
  BY <1>1, <1>2 DEF Rows, Statuses, Live
<1>4. Put(s, new) /\ used' = used BY <1>1, <1>2 DEF TimeoutWrite, UpdateStatus, Live
<1>5. IsValidTransition("pending", "timeouted")
  BY DEF IsValidTransition, ValidStatusTransitions, Statuses
<1>. QED BY <1>1, <1>3, <1>4, <1>5, MoveRefines

LEMMA ArchiveRefines ==
  ASSUME SerialInv, ArchiveMark
  PROVE  Lifecycle!LifecycleNext
<1>1. ASSUME NEW s \in Archivable
      PROVE  /\ s \in Submissions /\ Live(s) /\ row[s] \in Rows
             /\ row[s].status \in {"approved", "rejected", "timeouted"}
  BY DEF Archivable, ArchiveMark, SerialInv, Fresh, ArchiveFresh, WorkflowInv, TypeOK, Exists
<1>2. \A s \in Archivable : IsValidTransition(StatusBar[s], "archived")
  BY <1>1, LiveReachable DEF IsValidTransition, ValidStatusTransitions, Statuses
<1>3. used' = used /\ \A s \in Submissions :
        row'[s] = IF s \in Archivable THEN [row[s] EXCEPT !.status = "archived"] ELSE row[s]
  BY DEF ArchiveMark
<1>4. ASSUME NEW s \in Archivable
      PROVE  /\ row'[s] # None /\ row'[s].status = "archived"
             /\ row'[s].deleted = row[s].deleted
  <2>1. row[s] \in Rows /\ row'[s] = [row[s] EXCEPT !.status = "archived"]
    BY <1>1, <1>3, <1>4
  <2>2. row'[s] \in Rows BY <2>1 DEF Rows, Statuses
  <2>. QED BY <2>1, <2>2, ConstantsAssumption DEF Rows
<1>5. StatusBar' = [s \in Submissions |-> IF s \in Archivable THEN "archived" ELSE StatusBar[s]]
  BY <1>3, <1>4 DEF StatusBar, Exists
<1>6. HiddenBar' = HiddenBar BY <1>1, <1>3, <1>4 DEF HiddenBar, Exists, Live
<1>7. Archivable \in SUBSET Lifecycle!Reachable BY <1>1, LiveReachable
<1>8. PICK S : S = Archivable OBVIOUS
<1>. QED BY <1>2, <1>5, <1>6, <1>7, <1>8, AbstractArchiveAll

\* Every other step keeps the rows and the identities.
LEMMA QuietRequest ==
  ASSUME NEW r \in Requests,
         \/ ClaimCheck(r) \/ AssignmentInsert(r) \/ CreateReturn(r)
         \/ \E u \in Users : CreateAssignment(r, u)
         \/ RecordHistory(r) \/ BulkValidate(r) \/ BulkRead(r) \/ Abort(r)
  PROVE  row' = row /\ used' = used
BY DEF ClaimCheck, AssignmentInsert, CreateReturn, CreateAssignment, InsertAssignment,
       RecordHistory, InsertHistory, BulkValidate, BulkRead, Abort, table

LEMMA QuietStart ==
  ASSUME NEW r \in Requests, Start(r),
         ~\E s \in Submissions, u \in Users \cup {None} : Create(r, s, u)
  PROVE  UNCHANGED table
<1>1. ASSUME NEW s \in Submissions, NEW u,
             \/ StartUpdate(r, s, u) \/ StartDelete(r, s) \/ StartSoftDelete(r, s)
             \/ StartArchive(r, s) \/ StartApprove(r, s, u) \/ StartReject(r, s, u)
             \/ StartClaim(r, s, u) \/ StartAssign(r, s, u)
      PROVE  UNCHANGED table
  BY <1>1 DEF StartUpdate, StartDelete, StartSoftDelete, StartArchive, StartApprove,
              StartReject, StartClaim, StartAssign, Begin
<1>2. ASSUME NEW op, NEW ids, StartBulk(r, op, ids)
      PROVE  UNCHANGED table
  BY <1>2 DEF StartBulk
<1>. QED BY <1>1, <1>2 DEF Start

LEMMA QuietTask ==
  ASSUME \/ TimeoutStart \/ TimeoutRecord \/ ArchiveStart
         \/ \E s \in Submissions : ArchiveRecord(s)
         \/ TaskAbort \/ DaysPass \/ UNCHANGED vars
  PROVE  row' = row /\ used' = used
BY DEF TimeoutStart, TimeoutRecord, ArchiveStart, ArchiveRecord, InsertHistory,
       TaskAbort, DaysPass, table, vars

\* One operation at a time, every step of the workflow is a step of the
\* lifecycle or leaves it alone: what the code checks before it writes is
\* enough to keep to the transition table, with the two exceptions the
\* lifecycle names (Assign, and soft deletion).
THEOREM SerialRefines == SerialSpec => ImplementsLifecycle
<1>1. Init => Lifecycle!LifecycleInit
  <2> SUFFICES ASSUME Init PROVE Lifecycle!LifecycleInit
    OBVIOUS
  <2>1. StatusBar = [s \in Submissions |-> "unborn"] BY DEF Init, StatusBar, Exists
  <2>2. HiddenBar = {} BY DEF Init, HiddenBar, Exists
  <2>. QED BY <2>1, <2>2, AbstractInit
<1>2. SerialInv /\ [SerialNext]_vars => [Lifecycle!LifecycleNext]_(Lifecycle!lifecycle)
  <2> SUFFICES ASSUME SerialInv, [SerialNext]_vars
               PROVE  Lifecycle!LifecycleNext \/ UNCHANGED Lifecycle!lifecycle
    OBVIOUS
  <2>1. ASSUME NEW r \in Requests, Start(r) \/ Continue(r) \/ Abort(r)
        PROVE  Lifecycle!LifecycleNext \/ UNCHANGED Lifecycle!lifecycle
    <3>1. CASE Start(r) BY <3>1, CreateRefines, QuietStart, UnmovedBar DEF table
    <3>2. CASE Continue(r) \/ Abort(r)
      BY <3>2, QuietRequest, UnmovedBar, UpdateRefines, HoldRefines, DecisionRefines,
         BulkRejectRefines, SoftDeleteRefines, DeleteRefines DEF Continue
    <3>. QED BY <2>1, <3>1, <3>2
  <2>2. CASE Tasks BY <2>2, QuietTask, UnmovedBar, TimeoutRefines, ArchiveRefines DEF Tasks
  <2>3. CASE TaskAbort \/ DaysPass \/ UNCHANGED vars BY <2>3, QuietTask, UnmovedBar
  <2>. QED BY <2>1, <2>2, <2>3 DEF SerialNext, Next
<1>. QED BY <1>1, <1>2, SerialSound, PTL DEF SerialSpec, ImplementsLifecycle, Lifecycle!LifecycleSpec

-----------------------------------------------------------------------------
(* One operation at a time, what a step may never do *)

\* The statements that write the history table.
LEMMA HistoryWriters ==
  ASSUME [SerialNext]_vars, log' # log
  PROVE  \/ \E r \in Requests : RecordHistory(r) \/ DeleteWrite(r)
         \/ TimeoutRecord \/ \E x \in Submissions : ArchiveRecord(x)
<1>1. ASSUME NEW r \in Requests, Start(r) \/ Continue(r) \/ Abort(r)
      PROVE  RecordHistory(r) \/ DeleteWrite(r)
  <2>1. CASE Start(r) BY <2>1, QuietStart DEF table, Create
  <2>2. CASE Continue(r) \/ Abort(r)
    BY <2>2 DEF Continue, ClaimCheck, AssignmentInsert, CreateReturn, CreateAssignment,
                InsertAssignment, UpdateWrite, HoldWrite, ApproveWrite, RejectWrite,
                ArchiveWrite, SoftDeleteWrite, BulkValidate, BulkRead, BulkRejectWrite,
                Abort, table
  <2>. QED BY <1>1, <2>1, <2>2
<1>2. CASE Tasks
  BY <1>2 DEF Tasks, TimeoutStart, ArchiveStart, ArchiveMark, TimeoutWrite, table
<1>3. ~(TaskAbort \/ DaysPass \/ UNCHANGED vars) BY DEF TaskAbort, DaysPass, vars, table
<1>. QED BY <1>1, <1>2, <1>3 DEF SerialNext, Next

\* What an insert leaves in the history of each submission.
LEMMA InsertedRow ==
  ASSUME SerialInv, NEW s \in Submissions, NEW x \in Submissions, NEW old, NEW new,
         InsertHistory(x, old, new), log'[s] # log[s]
  PROVE  x = s /\ log'[s].old = old /\ log'[s].new = new
BY DEF InsertHistory, SerialInv, WorkflowInv, TypeOK

\* One operation at a time, a history row names the status the submission has
\* when the row is inserted, and shows a move of the table or a reassignment;
\* a soft deletion records an archiving and keeps the status.
THEOREM HistoryAgrees == SerialSpec => HistoryTellsStatus
<1>1. ASSUME SerialInv, [SerialNext]_vars, NEW s \in Submissions,
             log'[s] # log[s], log'[s] # None
      PROVE  \/ /\ row[s].status = log'[s].new
                /\ \/ IsValidTransition(log'[s].old, log'[s].new)
                   \/ log'[s].new = "assigned"
             \/ row[s].deleted /\ log'[s].new = "archived"
  <2>1. ASSUME NEW r \in Requests, RecordHistory(r)
        PROVE  \/ /\ row[s].status = log'[s].new
                  /\ \/ IsValidTransition(log'[s].old, log'[s].new)
                     \/ log'[s].new = "assigned"
               \/ row[s].deleted /\ log'[s].new = "archived"
    <3>1. /\ req[r].op \in DOMAIN Recorded /\ req[r].at = "log"
          /\ InsertHistory(req[r].sub, req[r].snap.status, Recorded[req[r].op])
      BY <2>1 DEF RecordHistory, Ready
    <3>2. req[r].sub \in Submissions /\ req[r].snap # None
      BY <1>1, <3>1, InFlight, Tables DEF RequestFormed, RequestRecords
    <3>3. /\ req[r].sub = s /\ log'[s].old = req[r].snap.status
          /\ log'[s].new = Recorded[req[r].op]
      BY <1>1, <3>1, <3>2, InsertedRow
    <3>4. IF req[r].op = "softDelete" THEN row[s].deleted
          ELSE row[s].status = Recorded[req[r].op]
      BY <1>1, <3>1, <3>3, InFlight DEF RequestFresh
    <3>5. req[r].op \in {"claim", "approve", "reject", "archive"} =>
            IsValidTransition(req[r].snap.status, Recorded[req[r].op])
      BY <1>1, <3>2, InFlight DEF RequestFresh, SnapshotSound, Recorded
    <3>6. Recorded["assign"] = "assigned" /\ Recorded["softDelete"] = "archived"
      BY DEF Recorded
    <3>. QED BY <3>1, <3>3, <3>4, <3>5, <3>6, Tables
  <2>2. ASSUME NEW r \in Requests, DeleteWrite(r) PROVE FALSE
    BY <1>1, <2>2 DEF DeleteWrite, SerialInv, WorkflowInv, TypeOK
  <2>3. CASE TimeoutRecord
    <3>1. /\ timeoutJob.cur \in Submissions /\ Exists(timeoutJob.cur)
          /\ row[timeoutJob.cur].status = "timeouted"
      BY <1>1, <2>3 DEF TimeoutRecord, SerialInv, WorkflowInv, TypeOK, Fresh, TimeoutFresh
    <3>2. timeoutJob.cur = s /\ log'[s].old = "pending" /\ log'[s].new = "timeouted"
      BY <1>1, <2>3, <3>1, InsertedRow DEF TimeoutRecord
    <3>3. IsValidTransition("pending", "timeouted")
      BY DEF IsValidTransition, ValidStatusTransitions, Statuses
    <3>. QED BY <3>1, <3>2, <3>3
  <2>4. ASSUME NEW x \in Submissions, ArchiveRecord(x)
        PROVE  /\ row[s].status = log'[s].new
               /\ IsValidTransition(log'[s].old, log'[s].new)
    <3>1. /\ Exists(x) /\ row[x].status = "archived"
          /\ archiveJob.old[x] \in {"approved", "rejected", "timeouted"}
      BY <1>1, <2>4 DEF ArchiveRecord, SerialInv, Fresh, ArchiveFresh
    <3>2. x = s /\ log'[s].old = archiveJob.old[x] /\ log'[s].new = "archived"
      BY <1>1, <2>4, <3>1, InsertedRow DEF ArchiveRecord
    <3>3. \A old \in {"approved", "rejected", "timeouted"} : IsValidTransition(old, "archived")
      BY DEF IsValidTransition, ValidStatusTransitions, Statuses
    <3>. QED BY <3>1, <3>2, <3>3
  <2>. QED BY <1>1, <2>1, <2>2, <2>3, <2>4, HistoryWriters
<1>2. SerialInv /\ [SerialNext]_vars =>
        [\A s \in Submissions :
           log'[s] # log[s] /\ log'[s] # None =>
             \/ /\ row[s].status = log'[s].new
                /\ \/ IsValidTransition(log'[s].old, log'[s].new)
                   \/ log'[s].new = "assigned"
             \/ row[s].deleted /\ log'[s].new = "archived"]_vars
  BY <1>1
<1>. QED BY <1>2, SerialSound, PTL DEF SerialSpec, HistoryTellsStatus

\* The statements that write the assignment table are those of requests.
LEMMA AssignmentWriters ==
  ASSUME [SerialNext]_vars, assigns' # assigns
  PROVE  \E p \in Requests : \/ AssignmentInsert(p) \/ DeleteWrite(p)
                             \/ \E u \in Users : CreateAssignment(p, u)
<1>1. ASSUME NEW p \in Requests, Start(p) \/ Continue(p) \/ Abort(p)
      PROVE  \/ AssignmentInsert(p) \/ DeleteWrite(p)
             \/ \E u \in Users : CreateAssignment(p, u)
  <2>1. CASE Start(p) BY <2>1, QuietStart DEF table, Create
  <2>2. CASE Continue(p) \/ Abort(p)
    BY <2>2 DEF Continue, ClaimCheck, CreateReturn, UpdateWrite, HoldWrite, ApproveWrite,
                RejectWrite, ArchiveWrite, SoftDeleteWrite, RecordHistory, InsertHistory,
                BulkValidate, BulkRead, BulkRejectWrite, Abort, table
  <2>. QED BY <1>1, <2>1, <2>2
<1>2. ~Tasks
  BY DEF Tasks, TimeoutStart, TimeoutRecord, ArchiveStart, ArchiveMark, TimeoutWrite,
         ArchiveRecord, InsertHistory, table
<1>3. ~(TaskAbort \/ DaysPass \/ UNCHANGED vars) BY DEF TaskAbort, DaysPass, vars, table
<1>. QED BY <1>1, <1>2, <1>3 DEF SerialNext, Next

\* One operation at a time, a claim whose look-up was answered finds the
\* submission without assignment, and its insert comes before anyone else's;
\* only a claim whose look-up failed can add to an assignment.
THEOREM ClaimsExclude == SerialSpec => ClaimsAreExclusive
<1>1. ASSUME SerialInv, [SerialNext]_vars, NEW s \in Submissions, NEW r \in Requests,
             req[r].op = "claim", req[r].at # "blind", assigns'[s] # assigns[s]
      PROVE  assigns[s] = {}
  <2>1. req[r] # Idle BY <1>1, InFlight, ConstantsAssumption DEF AllOps
  <2>2. PICK p \in Requests : \/ AssignmentInsert(p) \/ DeleteWrite(p)
                              \/ \E u \in Users : CreateAssignment(p, u)
    BY <1>1, AssignmentWriters
  <2>3. req[p] # Idle
    BY <1>1, <2>2, InFlight, ConstantsAssumption
    DEF AssignmentInsert, DeleteWrite, CreateAssignment, Ready, AllOps
  <2>4. p = r BY <1>1, <2>1, <2>3, RequestAlone DEF SerialInv, OnlySlot
  <2>5. AssignmentInsert(r)
    BY <1>1, <2>2, <2>4 DEF DeleteWrite, CreateAssignment, Ready
  <2>6. req[r].sub = s
    BY <1>1, <2>5 DEF AssignmentInsert, InsertAssignment, SerialInv, WorkflowInv, TypeOK
  <2>. QED BY <1>1, <2>5, <2>6, InFlight DEF AssignmentInsert, Ready, RequestFresh
<1>2. SerialInv /\ [SerialNext]_vars =>
        [\A s \in Submissions, r \in Requests :
           /\ req[r].op = "claim" /\ req[r].at # "blind"
           /\ assigns'[s] # assigns[s]
           => assigns[s] = {}]_vars
  BY <1>1
<1>. QED BY <1>2, SerialSound, PTL DEF SerialSpec, ClaimsAreExclusive
=============================================================================
