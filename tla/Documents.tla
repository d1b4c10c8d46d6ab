----------------------------- MODULE Documents ------------------------------
(***************************************************************************)
(* Documents under review (internal/feature/document): status, version,    *)
(* counters, deletion and the status history.                              *)
(*                                                                         *)
(* An edit (UpdateDocument) reads the row and writes all of it back; the   *)
(* other operations write single columns, WHERE id = $1 only, so also on a *)
(* deleted row.  No statement shares a transaction with another.  Texts,   *)
(* the lock, which no operation looks at, and the folder (see Folders) are *)
(* left out; the counters of views, downloads and shares are one.  The     *)
(* history table is represented by its newest row for each document.       *)
(* No route reaches ReviewDocument, CreateNewVersion and the counters of   *)
(* downloads and shares yet; they are here as the use case has them.       *)
(***************************************************************************)
EXTENDS Requests, Integers

CONSTANTS
  Docs,       \* identities of documents
  MaxCount    \* bound: highest version number and count of views

ASSUME DocumentsAssumption == MaxCount \in Nat \ {0} /\ None \notin Docs

VARIABLES
  doc,       \* table document: id |-> row, or None
  docLog,    \* newest row of document_status_history: its status, or None
  docReq,    \* requests in flight
  docFixed,  \* history: what a document's status, version and views were when
             \* a statement other than an edit's last set one of them while
             \* no edit was in flight; None after one did during an edit
  docUntold  \* history: documents whose last change of status was not followed
             \* by its history row, or was overlapped by another change

docVars == <<doc, docLog, docReq, docFixed, docUntold>>

DocStatuses == {"draft", "pending_review", "is_reviewed", "is_approved",
                "rejected", "archived"}
DocRows == [owner: Users, status: DocStatuses, deleted: BOOLEAN,
            version: 1..MaxCount, views: 0..MaxCount, previous: Docs \cup {None}]
\* A request: an edit keeps the row it read, a new version the number it will
\* write, and the insert of a history row the status it will record.
DocRequests ==
  [op: {"edit", "delete", "submit", "archive", "version", "log"}, id: Docs,
   read: DocRows \cup {None}, version: 1..MaxCount, status: DocStatuses \cup {None}]

ASSUME NoDocRow == None \notin DocRows \cup DocRequests

DocTypeOK ==
  /\ doc \in [Docs -> DocRows \cup {None}]
  /\ docLog \in [Docs -> DocStatuses \cup {None}]
  /\ docReq \in [Slots -> DocRequests \cup {None}]
  /\ docFixed \in [Docs -> [status: DocStatuses, version: 1..MaxCount,
                            views: 0..MaxCount] \cup {None}]
  /\ docUntold \subseteq Docs

DocInit ==
  /\ doc = [d \in Docs |-> None]
  /\ docLog = [d \in Docs |-> None]
  /\ docReq = [r \in Slots |-> None]
  /\ docFixed = [d \in Docs |-> None]
  /\ docUntold = {}

-----------------------------------------------------------------------------
(* Statements *)

DocExists(d) == doc[d] # None
DocFree(r) == docReq[r] = None
DocAt(r, op) == docReq[r] # None /\ docReq[r].op = op
DocReturn(r) == docReq' = [docReq EXCEPT ![r] = None]

\* GetDocumentByID, and the ownership check that follows it.
OwnDocument(u, d) == DocExists(d) /\ ~doc[d].deleted /\ doc[d].owner = u

\* Mutants: a deletion that archives; an edit that keeps the link but not the number.
SoftDeletedArchived(d) == [doc[d] EXCEPT !.deleted = TRUE, !.status = "archived"]
EditedLinked(d, read) == [read EXCEPT !.deleted = doc[d].deleted, !.previous = doc[d].previous]

\* What the UPDATE statements make of row d, WHERE id = $1 only.
Submitted(d) == [doc[d] EXCEPT !.status = "pending_review"]
Approved(d) == [doc[d] EXCEPT !.status = "is_approved"]
Rejected(d) == [doc[d] EXCEPT !.status = "rejected"]
Reviewed(d, status) == [doc[d] EXCEPT !.status = status]
Archived(d) == [doc[d] EXCEPT !.status = "archived"]
SoftDeleted(d) == [doc[d] EXCEPT !.deleted = TRUE]
Counted(d) == [doc[d] EXCEPT !.views = @ + 1]
Versioned(d, n) == [doc[d] EXCEPT !.version = n, !.previous = d]
Edited(d, read) == [read EXCEPT !.deleted = doc[d].deleted]
Inserted(u) == [owner |-> u, status |-> "draft", deleted |-> FALSE, version |-> 1,
                views |-> 0, previous |-> None]

DocBegin(r, op, d, read, version) ==
  /\ DocFree(r)
  /\ docReq' = [docReq EXCEPT ![r] = [op |-> op, id |-> d, read |-> read,
                                     version |-> version, status |-> None]]
  /\ UNCHANGED <<doc, docLog, docFixed, docUntold>>

\* A statement other than an edit's sets row d to new.
Fix(d, new) ==
  /\ doc' = [doc EXCEPT ![d] = new]
  /\ docFixed' = [docFixed EXCEPT ![d] =
       IF \E r \in Slots : DocAt(r, "edit") /\ docReq[r].id = d THEN None
       ELSE [status |-> new.status, version |-> new.version, views |-> new.views]]

Unlogged(d) == \E r \in Slots : DocAt(r, "log") /\ docReq[r].id = d

\* The request goes on to insert the history row for the status it has set.
ThenLog(r, d, status) ==
  docReq' = [docReq EXCEPT ![r] = [op |-> "log", id |-> d, read |-> None,
                                   version |-> 1, status |-> status]]

\* A mutant of SetStatus: the history row has the status before.
SetStatusLogsOld(r, d, new) ==
  /\ Fix(d, new)
  /\ ThenLog(r, d, doc[d].status)
  /\ docUntold' = IF Unlogged(d) THEN docUntold \cup {d} ELSE docUntold \ {d}
  /\ UNCHANGED docLog

\* A statement sets the status of d.
SetStatus(r, d, new) ==
  /\ Fix(d, new)
  /\ ThenLog(r, d, new.status)
  /\ docUntold' = IF Unlogged(d) THEN docUntold \cup {d} ELSE docUntold \ {d}
  /\ UNCHANGED docLog

-----------------------------------------------------------------------------
(* Operations *)

CreateDocument(r) ==
  /\ DocFree(r)
  /\ \E d \in Docs, u \in Users :
       /\ ~DocExists(d)
       /\ doc' = [doc EXCEPT ![d] = Inserted(u)]
       /\ ThenLog(r, d, "draft")
  /\ UNCHANGED <<docLog, docFixed, docUntold>>

\* CreateStatusHistory: its error is dropped (DocAbort).
LogDocument(r) ==
  /\ DocAt(r, "log")
  /\ docLog' = [docLog EXCEPT ![docReq[r].id] = docReq[r].status]
  /\ DocReturn(r)
  /\ UNCHANGED <<doc, docFixed, docUntold>>

\* UpdateDocument: the columns the request does not give are written as read.
EditDocument(r) ==
  \E u \in Users, d \in Docs : OwnDocument(u, d) /\ DocBegin(r, "edit", d, doc[d], 1)

WriteEdit(r) ==
  /\ DocAt(r, "edit")
  /\ LET d == docReq[r].id
         new == Edited(d, docReq[r].read)
     IN  /\ doc' = [doc EXCEPT ![d] = new]
         /\ docUntold' = IF new.status = doc[d].status THEN docUntold ELSE docUntold \cup {d}
  /\ DocReturn(r)
  /\ UNCHANGED <<docLog, docFixed>>

\* DeleteDocument sets deleted_at and nothing else.
DeleteDocument(r) ==
  \E u \in Users, d \in Docs : OwnDocument(u, d) /\ DocBegin(r, "delete", d, None, 1)

WriteDelete(r) ==
  /\ DocAt(r, "delete")
  /\ doc' = [doc EXCEPT ![docReq[r].id] = SoftDeleted(docReq[r].id)]
  /\ DocReturn(r)
  /\ UNCHANGED <<docLog, docFixed, docUntold>>

SubmitForReview(r) ==
  \E u \in Users, d \in Docs : OwnDocument(u, d) /\ DocBegin(r, "submit", d, None, 1)

WriteSubmit(r) == DocAt(r, "submit") /\ SetStatus(r, docReq[r].id, Submitted(docReq[r].id))

\* ApproveDocument, RejectDocument and ReviewDocument read nothing first: any
\* row, in any status.  A review gives one of the statuses the handler admits.
ApproveDocument(r) ==
  \E d \in Docs : DocFree(r) /\ DocExists(d) /\ SetStatus(r, d, Approved(d))

RejectDocument(r) ==
  \E d \in Docs : DocFree(r) /\ DocExists(d) /\ SetStatus(r, d, Rejected(d))

ReviewDocument(r) ==
  \E d \in Docs, status \in {"is_approved", "rejected", "is_reviewed"} :
    DocFree(r) /\ DocExists(d) /\ SetStatus(r, d, Reviewed(d, status))

\* ArchiveDocument writes no history row.
ArchiveDocument(r) ==
  \E u \in Users, d \in Docs : OwnDocument(u, d) /\ DocBegin(r, "archive", d, None, 1)

WriteArchive(r) ==
  /\ DocAt(r, "archive")
  /\ LET d == docReq[r].id
     IN  /\ Fix(d, Archived(d))
         /\ docUntold' = docUntold \cup {d}
  /\ DocReturn(r)
  /\ UNCHANGED docLog

\* IncrementView, IncrementDownload and IncrementShare: one statement.
CountDocument ==
  /\ \E d \in Docs :
       /\ DocExists(d)
       /\ doc[d].views < MaxCount
       /\ Fix(d, Counted(d))
  /\ UNCHANGED <<docLog, docReq, docUntold>>

\* CreateNewVersion: the number read plus one, and the row's own id as the
\* previous version; the content it replaces is kept nowhere.
NewVersion(r) ==
  \E u \in Users, d \in Docs :
    /\ OwnDocument(u, d)
    /\ doc[d].version < MaxCount
    /\ DocBegin(r, "version", d, None, doc[d].version + 1)

WriteVersion(r) ==
  /\ DocAt(r, "version")
  /\ LET d == docReq[r].id
     IN  Fix(d, Versioned(d, docReq[r].version))
  /\ DocReturn(r)
  /\ UNCHANGED <<docLog, docUntold>>

\* A statement fails, the client goes away, or the process stops.
DocAbort(r) ==
  /\ docReq[r] # None
  /\ DocReturn(r)
  /\ docUntold' = IF DocAt(r, "log") THEN docUntold \cup {docReq[r].id} ELSE docUntold
  /\ UNCHANGED <<doc, docLog, docFixed>>

DocNext ==
  \/ \E r \in Slots :
       \/ CreateDocument(r) \/ LogDocument(r)
       \/ EditDocument(r) \/ WriteEdit(r) \/ DeleteDocument(r) \/ WriteDelete(r)
       \/ SubmitForReview(r) \/ WriteSubmit(r)
       \/ ApproveDocument(r) \/ RejectDocument(r) \/ ReviewDocument(r)
       \/ ArchiveDocument(r) \/ WriteArchive(r)
       \/ NewVersion(r) \/ WriteVersion(r)
       \/ DocAbort(r)
  \/ CountDocument

DocSpec == DocInit /\ [][DocNext]_docVars

-----------------------------------------------------------------------------
(* Properties *)

\* A status, a version or a view that was recorded while no edit was in flight
\* stays until the next one is recorded: an edit undoes only what happens
\* between its read and its write.
FixedStands ==
  \A d \in Docs : docFixed[d] # None =>
    /\ doc[d].status = docFixed[d].status
    /\ doc[d].version = docFixed[d].version
    /\ doc[d].views = docFixed[d].views

\* The newest history row tells the document's status, except while a row is
\* about to be written, and after an archival, a lost row, an edit that changed
\* the status back, or two changes that overlapped.
HistoryTells ==
  \A d \in Docs : DocExists(d) /\ ~Unlogged(d) /\ d \notin docUntold =>
    docLog[d] = doc[d].status

\* However requests overlap, a document past its first version names a previous
\* version, and that is always the document itself: CreateNewVersion overwrites
\* the row it starts from.
VersionLinks ==
  \A d \in Docs : DocExists(d) =>
    doc[d].previous = IF doc[d].version > 1 THEN d ELSE None
=============================================================================
