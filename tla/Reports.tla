------------------------------- MODULE Reports ------------------------------
(***************************************************************************)
(* Reports of one story (internal/feature/story_report): one open report   *)
(* for each reporter, which a moderator resolves, rejects or archives.     *)
(*                                                                         *)
(* Each action is one SQL statement of a request, with the code around it. *)
(* Titles and descriptions are left out, and so is who may act: users are  *)
(* moderators as well.  No unique key guards the table.                    *)
(***************************************************************************)
EXTENDS Requests

CONSTANT ReportIds   \* identities of reports

ASSUME ReportsAssumption == None \notin ReportIds

VARIABLES
  report,       \* table story_report: id |-> row, or None
  reportUsed,   \* ids ever inserted
  reportReq,    \* requests in flight
  reportFirm,   \* history: reports resolved while no other request named them
  reportEarned  \* history: reporters who had a report resolved, or two of whose
                \* creations overlapped

reportTables == <<report, reportUsed, reportFirm, reportEarned>>
reportVars == <<reportTables, reportReq>>

ReportStatuses == {"pending", "resolved", "rejected", "archived"}
\* stamped: resolved_at and resolved_by are set.
ReportRows == [reporter: Users, status: ReportStatuses, resolved: BOOLEAN, stamped: BOOLEAN]
\* A request: a creation has its reporter, the others their report; an update
\* has the row it will write, a decision the status it will set.
ReportRequests ==
  [op: {"create"}, reporter: Users]
  \cup [op: {"update"}, id: ReportIds, row: ReportRows]
  \cup [op: {"decide"}, id: ReportIds, status: ReportStatuses \ {"pending"}]
  \cup [op: {"delete"}, id: ReportIds]

ASSUME NoReportRow == None \notin ReportRows \cup ReportRequests

ReportTypeOK ==
  /\ report \in [ReportIds -> ReportRows \cup {None}]
  /\ reportUsed \subseteq ReportIds
  /\ reportReq \in [Slots -> ReportRequests \cup {None}]
  /\ reportFirm \subseteq ReportIds
  /\ reportEarned \subseteq Users

ReportInit ==
  /\ report = [x \in ReportIds |-> None]
  /\ reportUsed = {}
  /\ reportReq = [r \in Slots |-> None]
  /\ reportFirm = {}
  /\ reportEarned = {}

-----------------------------------------------------------------------------
(* Statements *)

ReportExists(x) == report[x] # None
ReportsOf(u) == {x \in ReportIds : ReportExists(x) /\ report[x].reporter = u}

ReportAt(r, op) == reportReq[r] # None /\ reportReq[r].op = op
OnReport(r, x) == reportReq[r] # None /\ reportReq[r].op # "create" /\ reportReq[r].id = x
ReportReturn(r) == reportReq' = [reportReq EXCEPT ![r] = None]

ReportBegin(r, request) ==
  /\ reportReq[r] = None
  /\ reportReq' = [reportReq EXCEPT ![r] = request]

PendingRow(u) == [reporter |-> u, status |-> "pending", resolved |-> FALSE, stamped |-> FALSE]

\* A mutant of DecidedRow: a decision other than resolving keeps what it finds.
DecidedRowKept(x, status) ==
  [report[x] EXCEPT !.status = status, !.resolved = @ \/ status = "resolved"]

\* UpdateStatus: a rejected or archived report counts as not resolved.
DecidedRow(x, status) ==
  [report[x] EXCEPT !.status = status, !.resolved = status = "resolved",
                    !.stamped = status = "resolved"]

\* A row is set; history: what is resolved now, and firmly if nobody else is at it.
PutReport(r, x, row) ==
  /\ report' = [report EXCEPT ![x] = row]
  /\ reportFirm' = IF row.resolved /\ \A q \in Slots \ {r} : ~OnReport(q, x)
                   THEN reportFirm \cup {x} ELSE reportFirm
  /\ reportEarned' = IF row.resolved THEN reportEarned \cup {row.reporter} ELSE reportEarned

-----------------------------------------------------------------------------
(* Operations *)

\* A mutant of CreateReport: nothing is looked up.
CreateReportUnseen(r) ==
  \E u \in Users :
    /\ ReportBegin(r, [op |-> "create", reporter |-> u])
    /\ reportEarned' = IF \E q \in Slots : ReportAt(q, "create") /\ reportReq[q].reporter = u
                       THEN reportEarned \cup {u} ELSE reportEarned
    /\ UNCHANGED <<report, reportUsed, reportFirm>>

\* CreateReport looks at one report of the reporter, whichever the query
\* returns first; one that is not resolved refuses the request.
CreateReport(r) ==
  \E u \in Users :
    /\ ReportsOf(u) = {} \/ \E x \in ReportsOf(u) : report[x].resolved
    /\ ReportBegin(r, [op |-> "create", reporter |-> u])
    /\ reportEarned' = IF \E q \in Slots : ReportAt(q, "create") /\ reportReq[q].reporter = u
                       THEN reportEarned \cup {u} ELSE reportEarned
    /\ UNCHANGED <<report, reportUsed, reportFirm>>

InsertReport(r) ==
  /\ ReportAt(r, "create")
  /\ \E x \in ReportIds \ reportUsed :
       /\ report' = [report EXCEPT ![x] = PendingRow(reportReq[r].reporter)]
       /\ reportUsed' = reportUsed \cup {x}
  /\ ReportReturn(r)
  /\ UNCHANGED <<reportFirm, reportEarned>>

\* UpdateReport may give a status; the three columns of a resolution are
\* written as they were read.
UpdateReport(r) ==
  \E x \in ReportIds : ReportExists(x) /\
    \E status \in ReportStatuses :
      /\ ReportBegin(r, [op |-> "update", id |-> x,
                         row |-> [report[x] EXCEPT !.status = status]])
      /\ UNCHANGED reportTables

\* A missing row makes the statement fail.
WriteReport(r) ==
  /\ ReportAt(r, "update")
  /\ ReportReturn(r)
  /\ IF ReportExists(reportReq[r].id) THEN PutReport(r, reportReq[r].id, reportReq[r].row)
     ELSE UNCHANGED <<report, reportFirm, reportEarned>>
  /\ UNCHANGED reportUsed

\* ResolveReport, RejectReport and ArchiveReport: a resolved report is refused.
DecideReport(r) ==
  \E x \in ReportIds, status \in ReportStatuses \ {"pending"} :
    /\ ReportExists(x) /\ ~report[x].resolved
    /\ ReportBegin(r, [op |-> "decide", id |-> x, status |-> status])
    /\ UNCHANGED reportTables

WriteDecision(r) ==
  /\ ReportAt(r, "decide")
  /\ ReportReturn(r)
  /\ LET x == reportReq[r].id
     IN  IF ReportExists(x) THEN PutReport(r, x, DecidedRow(x, reportReq[r].status))
         ELSE UNCHANGED <<report, reportFirm, reportEarned>>
  /\ UNCHANGED reportUsed

DeleteReport(r) ==
  \E x \in ReportIds :
    /\ ReportExists(x)
    /\ ReportBegin(r, [op |-> "delete", id |-> x])
    /\ UNCHANGED reportTables

DeleteReportRow(r) ==
  /\ ReportAt(r, "delete")
  /\ ReportReturn(r)
  /\ report' = [report EXCEPT ![reportReq[r].id] = None]
  /\ UNCHANGED <<reportUsed, reportFirm, reportEarned>>

\* A statement fails, the client goes away, or the process stops.
ReportAbort(r) == reportReq[r] # None /\ ReportReturn(r) /\ UNCHANGED reportTables

ReportNext ==
  \E r \in Slots :
    \/ CreateReport(r) \/ InsertReport(r)
    \/ UpdateReport(r) \/ WriteReport(r)
    \/ DecideReport(r) \/ WriteDecision(r)
    \/ DeleteReport(r) \/ DeleteReportRow(r)
    \/ ReportAbort(r)

ReportSpec == ReportInit /\ [][ReportNext]_reportVars

-----------------------------------------------------------------------------
(* Properties *)

\* However decisions and updates overlap, a resolution is whole: the mark, the
\* time and the resolver are there together or not at all, and a report that
\* was resolved while no other request was at it stays resolved.
ResolvedStands ==
  \A x \in ReportIds : ReportExists(x) =>
    /\ report[x].resolved <=> report[x].stamped
    /\ x \in reportFirm => report[x].resolved

\* A reporter has two unresolved reports of the story only after one of them
\* was resolved before, or after two creations overlapped.
SecondReportEarned ==
  \A u \in Users \ reportEarned :
    \A x, y \in ReportsOf(u) : x # y => report[x].resolved \/ report[y].resolved
=============================================================================
