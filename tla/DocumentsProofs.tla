--------------------------- MODULE DocumentsProofs --------------------------
(***************************************************************************)
(* Proofs about Documents: the types, VersionLinks, FixedStands and        *)
(* HistoryTells hold for every number of documents and of overlapping      *)
(* requests, and for every bound on versions and views.                    *)
(* An edit writes back a row it read earlier and a history row comes after *)
(* the status it records, so the invariant says what both still carry: the *)
(* row of an edit is linked like a row of the table and has what was fixed *)
(* (EditsFaithful), and the one history row still to come for a document   *)
(* has its status (LogsFaithful).                                          *)
(***************************************************************************)
EXTENDS Documents, TLAPS

Linked(row, d) == row.previous = IF row.version > 1 THEN d ELSE None

FixedIn(row, d) ==
  /\ row.status = docFixed[d].status
  /\ row.version = docFixed[d].version
  /\ row.views = docFixed[d].views

\* A request in flight for d.
About(r, d) == docReq[r] # None /\ docReq[r].id = d

\* Requests, and what was fixed, are about documents that exist.
RequestsThere ==
  \A d \in Docs :
    /\ \A r \in Slots : About(r, d) => DocExists(d)
    /\ docFixed[d] # None => DocExists(d)

EditsFaithful ==
  \A r \in Slots, d \in Docs : About(r, d) =>
    /\ docReq[r].op = "edit" =>
         /\ docReq[r].read \in DocRows
         /\ Linked(docReq[r].read, d)
         /\ docFixed[d] # None => FixedIn(docReq[r].read, d)
    /\ docReq[r].op = "version" => docReq[r].version > 1
    /\ docReq[r].op = "log" => docReq[r].status \in DocStatuses

Logs(r, d) == About(r, d) /\ docReq[r].op = "log"

LogsFaithful ==
  \A r \in Slots, d \in Docs \ docUntold : Logs(r, d) =>
    /\ docReq[r].status = doc[d].status
    /\ \A q \in Slots \ {r} : ~Logs(q, d)

DocInv ==
  /\ DocTypeOK
  /\ RequestsThere
  /\ EditsFaithful
  /\ LogsFaithful
  /\ VersionLinks
  /\ FixedStands
  /\ HistoryTells

LEMMA DocFields ==
  ASSUME NEW row \in DocRows
  PROVE  /\ row # None
         /\ row.status \in DocStatuses
         /\ row.version \in 1..MaxCount
         /\ row.views \in 0..MaxCount
         /\ row.previous \in Docs \cup {None}
BY NoDocRow DEF DocRows

LEMMA DocRequestFields ==
  ASSUME NEW r \in Slots, DocTypeOK, docReq[r] # None
  PROVE  /\ docReq[r] \in DocRequests
         /\ docReq[r].op \in {"edit", "delete", "submit", "archive", "version", "log"}
         /\ docReq[r].id \in Docs
         /\ docReq[r].version \in 1..MaxCount
         /\ docReq[r].status \in DocStatuses \cup {None}
BY DEF DocTypeOK, DocRequests

LEMMA RowThere ==
  ASSUME DocTypeOK, NEW d \in Docs, DocExists(d)
  PROVE  doc[d] \in DocRows
BY DEF DocTypeOK, DocExists

LEMMA UnloggedMeans ==
  ASSUME NEW d \in Docs
  PROVE  Unlogged(d) <=> \E r \in Slots : Logs(r, d)
BY DEF Unlogged, DocAt, Logs, About

-----------------------------------------------------------------------------
(* Steps *)

LEMMA DocBeginStep ==
  ASSUME DocInv, NEW r \in Slots, NEW d \in Docs, DocExists(d),
         NEW op \in {"edit", "delete", "submit", "archive", "version"},
         NEW read \in DocRows \cup {None}, NEW version \in 1..MaxCount,
         op = "edit" => read = doc[d],
         op = "version" => version > 1,
         DocBegin(r, op, d, read, version)
  PROVE  DocInv'
<1> DEFINE request == [op |-> op, id |-> d, read |-> read, version |-> version, status |-> None]
<1>1. /\ request \in DocRequests /\ request.op = op /\ request.id = d
      /\ request.read = read /\ request.version = version
  BY DEF DocRequests
<1>2. docReq' = [docReq EXCEPT ![r] = request] /\ docReq[r] = None
  BY DEF DocBegin, DocFree
<1> HIDE DEF request
<1>3. /\ docReq' \in [Slots -> DocRequests \cup {None}]
      /\ docReq'[r] = request
      /\ \A s \in Slots \ {r} : docReq'[s] = docReq[s]
  BY <1>1, <1>2 DEF DocInv, DocTypeOK
<1>4. UNCHANGED <<doc, docLog, docFixed, docUntold>> BY DEF DocBegin
<1>5. DocTypeOK' BY <1>3, <1>4 DEF DocInv, DocTypeOK
<1>6. \A s \in Slots, e \in Docs :
        About(s, e)' => IF s = r THEN e = d ELSE About(s, e) /\ docReq'[s] = docReq[s]
  BY <1>1, <1>3 DEF About
<1>7. \A s \in Slots, e \in Docs : Logs(s, e)' <=> Logs(s, e)
  BY <1>1, <1>2, <1>3 DEF Logs, About
<1>8. \A s \in Slots, e \in Docs : Logs(s, e) => docReq'[s] = docReq[s]
  BY <1>2, <1>3 DEF Logs, About
<1>9. RequestsThere' BY <1>4, <1>6 DEF DocInv, RequestsThere, DocExists
<1>10. EditsFaithful'
  <2>1. doc[d] \in DocRows /\ Linked(doc[d], d)
    BY RowThere DEF DocInv, VersionLinks, Linked
  <2>2. docFixed[d] # None => FixedIn(doc[d], d) BY DEF DocInv, FixedStands, FixedIn
  <2> SUFFICES ASSUME NEW s \in Slots, NEW e \in Docs, About(s, e)'
               PROVE  /\ docReq'[s].op = "edit" =>
                           /\ docReq'[s].read \in DocRows
                           /\ Linked(docReq'[s].read, e)
                           /\ docFixed[e] # None => FixedIn(docReq'[s].read, e)
                      /\ docReq'[s].op = "version" => docReq'[s].version > 1
                      /\ docReq'[s].op = "log" => docReq'[s].status \in DocStatuses
    BY <1>4 DEF EditsFaithful, Linked, FixedIn
  <2>3. CASE s = r
    <3>1. e = d /\ docReq'[s] = request BY <1>3, <1>6, <2>3
    <3>. QED BY <1>1, <2>1, <2>2, <3>1
  <2>4. CASE s # r
    <3>1. About(s, e) /\ docReq'[s] = docReq[s] BY <1>6, <2>4
    <3>. QED BY <3>1 DEF DocInv, EditsFaithful
  <2>. QED BY <2>3, <2>4
<1>11. LogsFaithful' BY <1>4, <1>7, <1>8 DEF DocInv, LogsFaithful
<1>12. VersionLinks' /\ FixedStands'
  BY <1>4 DEF DocInv, VersionLinks, FixedStands, DocExists
<1>13. HistoryTells'
  <2>1. \A e \in Docs : Unlogged(e)' <=> Unlogged(e)
    <3> SUFFICES ASSUME NEW e \in Docs PROVE Unlogged(e)' <=> Unlogged(e) OBVIOUS
    <3>1. Unlogged(e)' <=> \E s \in Slots : Logs(s, e)'
      BY DEF Unlogged, DocAt, Logs, About
    <3>. QED BY <1>7, <3>1, UnloggedMeans
  <2>. QED BY <1>4, <2>1 DEF DocInv, HistoryTells, DocExists
<1>. QED BY <1>5, <1>9, <1>10, <1>11, <1>12, <1>13 DEF DocInv

\* The columns of row that docFixed' says of d.
FixedThen(row, d) ==
  docFixed'[d] # None =>
    /\ row.status = docFixed'[d].status
    /\ row.version = docFixed'[d].version
    /\ row.views = docFixed'[d].views

\* A statement other than an edit's leaves what docFixed says right: of the row,
\* and of every edit, since it says nothing when there is one.
LEMMA FixStep ==
  ASSUME DocInv, NEW d \in Docs, NEW new \in DocRows, Fix(d, new)
  PROVE  /\ doc' = [doc EXCEPT ![d] = new]
         /\ docFixed' \in [Docs -> [status: DocStatuses, version: 1..MaxCount,
                                    views: 0..MaxCount] \cup {None}]
         /\ \A e \in Docs \ {d} : docFixed'[e] = docFixed[e]
         /\ FixedThen(new, d)
         /\ \A s \in Slots : About(s, d) /\ docReq[s].op = "edit" => docFixed'[d] = None
<1> DEFINE fixed == [status |-> new.status, version |-> new.version, views |-> new.views]
<1>1. fixed \in [status: DocStatuses, version: 1..MaxCount, views: 0..MaxCount]
  BY DocFields
<1>2. /\ fixed.status = new.status /\ fixed.version = new.version
      /\ fixed.views = new.views
  OBVIOUS
<1> HIDE DEF fixed
<1> DEFINE editing == \E s \in Slots : DocAt(s, "edit") /\ docReq[s].id = d
<1>3. docFixed' = [docFixed EXCEPT ![d] = IF editing THEN None ELSE fixed]
  BY DEF Fix, fixed
<1>4. (\E s \in Slots : About(s, d) /\ docReq[s].op = "edit") => editing
  BY DEF About, DocAt
<1> HIDE DEF editing
<1>. QED BY <1>1, <1>2, <1>3, <1>4 DEF Fix, FixedThen, DocInv, DocTypeOK

\* Requests end or stay as they are.
DocEnding ==
  /\ docReq' \in [Slots -> DocRequests \cup {None}]
  /\ \A s \in Slots : docReq'[s] \in {None, docReq[s]}

\* A row is set while requests end: it is linked; docFixed is right of it and
\* of the edits that go on; a change of status, and a history row that will not
\* come, are noted.
LEMMA RowStep ==
  ASSUME DocInv, DocEnding, NEW d \in Docs, NEW row \in DocRows, DocExists(d),
         doc' = [doc EXCEPT ![d] = row], UNCHANGED docLog,
         Linked(row, d),
         docFixed' \in [Docs -> [status: DocStatuses, version: 1..MaxCount,
                                views: 0..MaxCount] \cup {None}],
         \A e \in Docs \ {d} : docFixed'[e] = docFixed[e],
         FixedThen(row, d),
         \A s \in Slots : About(s, d)' /\ docReq[s].op = "edit" => FixedThen(docReq[s].read, d),
         docUntold \subseteq docUntold', docUntold' \subseteq Docs,
         row.status = doc[d].status \/ d \in docUntold',
         \A s \in Slots, e \in Docs : Logs(s, e) => docReq'[s] = docReq[s] \/ e \in docUntold'
  PROVE  DocInv'
<1>1. /\ doc'[d] = row /\ \A e \in Docs \ {d} : doc'[e] = doc[e]
      /\ doc' \in [Docs -> DocRows \cup {None}]
  BY DEF DocInv, DocTypeOK
<1>2. row # None BY DocFields
<1>3. \A e \in Docs : DocExists(e)' <=> DocExists(e) BY <1>1, <1>2 DEF DocExists
<1>4. DocTypeOK' BY <1>1 DEF DocInv, DocTypeOK, DocEnding
<1>5. \A s \in Slots, e \in Docs :
        About(s, e)' => About(s, e) /\ docReq'[s] = docReq[s]
  BY DEF About, DocEnding
<1>6. RequestsThere'
  <2>1. \A e \in Docs : docFixed'[e] # None => DocExists(e)
    BY DEF DocInv, RequestsThere
  <2>. QED BY <1>3, <1>5, <2>1 DEF DocInv, RequestsThere
<1>7. EditsFaithful'
  <2> SUFFICES ASSUME NEW s \in Slots, NEW e \in Docs, About(s, e)'
               PROVE  /\ docReq'[s].op = "edit" =>
                           /\ docReq'[s].read \in DocRows
                           /\ Linked(docReq'[s].read, e)
                           /\ FixedThen(docReq'[s].read, e)
                      /\ docReq'[s].op = "version" => docReq'[s].version > 1
                      /\ docReq'[s].op = "log" => docReq'[s].status \in DocStatuses
    BY DEF EditsFaithful, Linked, FixedIn, FixedThen
  <2>1. About(s, e) /\ docReq'[s] = docReq[s] BY <1>5
  <2>2. docReq[s].op = "edit" => FixedThen(docReq[s].read, e)
    BY <2>1 DEF DocInv, EditsFaithful, FixedIn, FixedThen
  <2>. QED BY <2>1, <2>2 DEF DocInv, EditsFaithful
<1>8. \A s \in Slots, e \in Docs : Logs(s, e)' => Logs(s, e) /\ docReq'[s] = docReq[s]
  BY <1>5 DEF Logs, About
<1>9. \A e \in Docs \ docUntold' : DocExists(e) => doc'[e].status = doc[e].status
  BY <1>1
<1>10. LogsFaithful'
  <2>1. \A s \in Slots, e \in Docs : Logs(s, e) => DocExists(e)
    BY DEF DocInv, RequestsThere, Logs
  <2>. QED BY <1>8, <1>9, <2>1 DEF DocInv, LogsFaithful
<1>11. VersionLinks' BY <1>1, <1>3 DEF DocInv, VersionLinks, Linked
<1>12. FixedStands' BY <1>1 DEF DocInv, FixedStands, FixedThen
<1>13. HistoryTells'
  <2> SUFFICES ASSUME NEW e \in Docs, DocExists(e)', ~Unlogged(e)', e \notin docUntold'
               PROVE  docLog[e] = doc'[e].status
    BY DEF HistoryTells
  <2>1. ~Unlogged(e)
    <3>1. ASSUME NEW s \in Slots, Logs(s, e) PROVE Unlogged(e)'
      <4>1. docReq'[s] = docReq[s] BY <3>1
      <4>. QED BY <3>1, <4>1 DEF Unlogged, DocAt, Logs, About
    <3>. QED BY <3>1, UnloggedMeans
  <2>2. DocExists(e) /\ e \notin docUntold BY <1>3
  <2>. QED BY <1>9, <2>1, <2>2 DEF DocInv, HistoryTells
<1>. QED BY <1>4, <1>6, <1>7, <1>10, <1>11, <1>12, <1>13 DEF DocInv

\* Request r goes on to insert the history row of d.
LEMMA ThenLogStep ==
  ASSUME DocTypeOK, NEW r \in Slots, NEW d \in Docs, NEW status \in DocStatuses,
         MaxCount >= 1, ThenLog(r, d, status)
  PROVE  /\ docReq' \in [Slots -> DocRequests \cup {None}]
         /\ docReq'[r] # None
         /\ docReq'[r].op = "log" /\ docReq'[r].id = d /\ docReq'[r].status = status
         /\ \A s \in Slots \ {r} : docReq'[s] = docReq[s]
<1> DEFINE request == [op |-> "log", id |-> d, read |-> None, version |-> 1, status |-> status]
<1>1. /\ request \in DocRequests
      /\ request.op = "log" /\ request.id = d /\ request.status = status
  BY DocumentsAssumption DEF DocRequests
<1>2. docReq' = [docReq EXCEPT ![r] = request] BY DEF ThenLog
<1> HIDE DEF request
<1>3. request # None BY <1>1, NoDocRow
<1>. QED BY <1>1, <1>2, <1>3 DEF DocTypeOK

\* A statement sets the status of a row: it is recorded if no other record is
\* still to come, and noted otherwise.
LEMMA SetStatusStep ==
  ASSUME DocInv, NEW r \in Slots, NEW d \in Docs, DocExists(d), NEW new \in DocRows,
         Linked(new, d), SetStatus(r, d, new),
         docReq[r] # None => docReq[r].op # "log"
  PROVE  DocInv'
<1>1. /\ Fix(d, new) /\ ThenLog(r, d, new.status) /\ UNCHANGED docLog
      /\ docUntold' = IF Unlogged(d) THEN docUntold \cup {d} ELSE docUntold \ {d}
  BY DEF SetStatus
<1>2. /\ doc' = [doc EXCEPT ![d] = new]
      /\ docFixed' \in [Docs -> [status: DocStatuses, version: 1..MaxCount,
                                 views: 0..MaxCount] \cup {None}]
      /\ \A e \in Docs \ {d} : docFixed'[e] = docFixed[e]
      /\ FixedThen(new, d)
      /\ \A s \in Slots : About(s, d) /\ docReq[s].op = "edit" => docFixed'[d] = None
  BY <1>1, FixStep
<1>3. /\ doc'[d] = new /\ \A e \in Docs \ {d} : doc'[e] = doc[e]
      /\ doc' \in [Docs -> DocRows \cup {None}]
      /\ \A e \in Docs : DocExists(e)' <=> DocExists(e)
  BY <1>2, DocFields DEF DocInv, DocTypeOK, DocExists
<1>4. new.status \in DocStatuses /\ new.version \in 1..MaxCount BY DocFields
<1>5. /\ docReq' \in [Slots -> DocRequests \cup {None}]
      /\ docReq'[r] # None
      /\ docReq'[r].op = "log" /\ docReq'[r].id = d /\ docReq'[r].status = new.status
      /\ \A s \in Slots \ {r} : docReq'[s] = docReq[s]
  <2>1. MaxCount >= 1 BY <1>4, DocumentsAssumption
  <2>. QED BY <1>1, <1>4, <2>1, ThenLogStep DEF DocInv
<1>6. docUntold' \subseteq Docs BY <1>1 DEF DocInv, DocTypeOK
<1>7. DocTypeOK' BY <1>1, <1>2, <1>3, <1>5, <1>6 DEF DocInv, DocTypeOK
<1>8. \A s \in Slots, e \in Docs :
        About(s, e)' <=> IF s = r THEN e = d ELSE About(s, e)
  BY <1>5 DEF About
<1>9. \A s \in Slots, e \in Docs : Logs(s, e)' <=> IF s = r THEN e = d ELSE Logs(s, e)
  BY <1>5 DEF Logs, About
<1>10. RequestsThere'
  <2>1. \A e \in Docs : docFixed'[e] # None => DocExists(e)
    BY <1>2 DEF DocInv, RequestsThere
  <2>. QED BY <1>3, <1>8, <2>1 DEF DocInv, RequestsThere
<1>11. EditsFaithful'
  <2> SUFFICES ASSUME NEW s \in Slots, NEW e \in Docs, About(s, e)'
               PROVE  /\ docReq'[s].op = "edit" =>
                           /\ docReq'[s].read \in DocRows
                           /\ Linked(docReq'[s].read, e)
                           /\ FixedThen(docReq'[s].read, e)
                      /\ docReq'[s].op = "version" => docReq'[s].version > 1
                      /\ docReq'[s].op = "log" => docReq'[s].status \in DocStatuses
    BY DEF EditsFaithful, Linked, FixedIn, FixedThen
  <2>1. CASE s = r BY <1>4, <1>5, <2>1
  <2>2. CASE s # r
    <3>1. About(s, e) /\ docReq'[s] = docReq[s] BY <1>5, <1>8, <2>2
    <3>2. docReq[s].op = "edit" => FixedThen(docReq[s].read, e)
      <4>1. CASE e = d BY <1>2, <3>1, <4>1 DEF FixedThen
      <4>2. CASE e # d
        BY <1>2, <3>1, <4>2 DEF DocInv, EditsFaithful, FixedIn, FixedThen
      <4>. QED BY <4>1, <4>2
    <3>. QED BY <3>1, <3>2 DEF DocInv, EditsFaithful
  <2>. QED BY <2>1, <2>2
<1>12. LogsFaithful'
  <2> SUFFICES ASSUME NEW s \in Slots, NEW e \in Docs \ docUntold', Logs(s, e)'
               PROVE  /\ docReq'[s].status = doc'[e].status
                      /\ \A q \in Slots \ {s} : ~Logs(q, e)'
    BY DEF LogsFaithful
  <2>1. CASE e = d
    <3>1. \A q \in Slots : ~Logs(q, d) BY <1>1, <2>1, UnloggedMeans
    <3>. QED BY <1>3, <1>5, <1>9, <2>1, <3>1
  <2>2. CASE e # d
    <3>1. e \notin docUntold BY <1>1, <2>2
    <3>2. s # r /\ Logs(s, e) /\ docReq'[s] = docReq[s] BY <1>5, <1>9, <2>2
    <3>. QED BY <1>3, <1>9, <2>2, <3>1, <3>2 DEF DocInv, LogsFaithful
  <2>. QED BY <2>1, <2>2
<1>13. VersionLinks' BY <1>3 DEF DocInv, VersionLinks, Linked
<1>14. FixedStands' BY <1>2, <1>3 DEF DocInv, FixedStands, FixedThen
<1>15. HistoryTells'
  <2> SUFFICES ASSUME NEW e \in Docs, DocExists(e)', ~Unlogged(e)', e \notin docUntold'
               PROVE  docLog[e] = doc'[e].status
    BY <1>1 DEF HistoryTells
  <2>1. e # d BY <1>5 DEF Unlogged, DocAt
  <2>2. ~Unlogged(e)
    <3>1. ASSUME NEW s \in Slots, Logs(s, e) PROVE Unlogged(e)'
      <4>1. s # r BY <3>1 DEF Logs, About
      <4>2. docReq'[s] = docReq[s] BY <1>5, <4>1
      <4>. QED BY <3>1, <4>2 DEF Unlogged, DocAt, Logs, About
    <3>. QED BY <3>1, UnloggedMeans
  <2>. QED BY <1>1, <1>3, <2>1, <2>2 DEF DocInv, HistoryTells
<1>. QED BY <1>7, <1>10, <1>11, <1>12, <1>13, <1>14, <1>15 DEF DocInv
LEMMA CreateStep ==
  ASSUME DocInv, NEW r \in Slots, CreateDocument(r) PROVE DocInv'
<1>1. PICK d \in Docs, u \in Users :
        /\ ~DocExists(d)
        /\ doc' = [doc EXCEPT ![d] = Inserted(u)]
        /\ ThenLog(r, d, "draft")
  BY DEF CreateDocument
<1>2. docReq[r] = None /\ UNCHANGED <<docLog, docFixed, docUntold>>
  BY DEF CreateDocument, DocFree
<1> DEFINE row == Inserted(u)
<1>3. /\ row \in DocRows /\ row.status = "draft" /\ Linked(row, d)
  BY DocumentsAssumption DEF Inserted, DocRows, DocStatuses, Linked
<1> HIDE DEF row
<1>4. /\ doc'[d] = row /\ \A e \in Docs \ {d} : doc'[e] = doc[e]
      /\ doc' \in [Docs -> DocRows \cup {None}]
      /\ \A e \in Docs : DocExists(e)' <=> e = d \/ DocExists(e)
  BY <1>1, <1>3, DocFields DEF DocInv, DocTypeOK, DocExists, row
<1>5. /\ docReq' \in [Slots -> DocRequests \cup {None}]
      /\ docReq'[r] # None
      /\ docReq'[r].op = "log" /\ docReq'[r].id = d /\ docReq'[r].status = "draft"
      /\ \A s \in Slots \ {r} : docReq'[s] = docReq[s]
  <2>1. MaxCount >= 1 /\ "draft" \in DocStatuses BY DocumentsAssumption DEF DocStatuses
  <2>. QED BY <1>1, <2>1, ThenLogStep DEF DocInv
<1>6. \A s \in Slots : ~About(s, d) BY <1>1 DEF DocInv, RequestsThere
<1>7. docFixed[d] = None BY <1>1 DEF DocInv, RequestsThere
<1>8. DocTypeOK' BY <1>2, <1>4, <1>5 DEF DocInv, DocTypeOK
<1>9. \A s \in Slots, e \in Docs : About(s, e)' <=> IF s = r THEN e = d ELSE About(s, e)
  BY <1>5 DEF About
<1>10. \A s \in Slots, e \in Docs : Logs(s, e)' <=> IF s = r THEN e = d ELSE Logs(s, e)
  BY <1>5 DEF Logs, About
<1>11. RequestsThere' BY <1>2, <1>4, <1>9 DEF DocInv, RequestsThere
<1>12. EditsFaithful'
  <2> SUFFICES ASSUME NEW s \in Slots, NEW e \in Docs, About(s, e)'
               PROVE  /\ docReq'[s].op = "edit" =>
                           /\ docReq'[s].read \in DocRows
                           /\ Linked(docReq'[s].read, e)
                           /\ docFixed[e] # None => FixedIn(docReq'[s].read, e)
                      /\ docReq'[s].op = "version" => docReq'[s].version > 1
                      /\ docReq'[s].op = "log" => docReq'[s].status \in DocStatuses
    BY <1>2 DEF EditsFaithful, Linked, FixedIn
  <2>1. CASE s = r BY <1>5, <2>1 DEF DocStatuses
  <2>2. CASE s # r BY <1>5, <1>9, <2>2 DEF DocInv, EditsFaithful
  <2>. QED BY <2>1, <2>2
<1>13. LogsFaithful'
  <2> SUFFICES ASSUME NEW s \in Slots, NEW e \in Docs \ docUntold, Logs(s, e)'
               PROVE  /\ docReq'[s].status = doc'[e].status
                      /\ \A q \in Slots \ {s} : ~Logs(q, e)'
    BY <1>2 DEF LogsFaithful
  <2>1. CASE e = d
    <3>1. \A q \in Slots : ~Logs(q, d) BY <1>6 DEF Logs
    <3>. QED BY <1>3, <1>4, <1>5, <1>10, <2>1, <3>1
  <2>2. CASE e # d
    <3>1. s # r /\ Logs(s, e) /\ docReq'[s] = docReq[s] BY <1>5, <1>10, <2>2
    <3>. QED BY <1>4, <1>10, <2>2, <3>1 DEF DocInv, LogsFaithful
  <2>. QED BY <2>1, <2>2
<1>14. VersionLinks' BY <1>3, <1>4 DEF DocInv, VersionLinks, Linked
<1>15. FixedStands' BY <1>2, <1>4, <1>7 DEF DocInv, FixedStands
<1>16. HistoryTells'
  <2> SUFFICES ASSUME NEW e \in Docs, DocExists(e)', ~Unlogged(e)', e \notin docUntold
               PROVE  docLog[e] = doc'[e].status
    BY <1>2 DEF HistoryTells
  <2>1. e # d BY <1>5 DEF Unlogged, DocAt
  <2>2. ~Unlogged(e)
    <3>1. ASSUME NEW s \in Slots, Logs(s, e) PROVE Unlogged(e)'
      <4>1. docReq'[s] = docReq[s] BY <1>2, <1>5, <3>1 DEF Logs, About
      <4>. QED BY <3>1, <4>1 DEF Unlogged, DocAt, Logs, About
    <3>. QED BY <3>1, UnloggedMeans
  <2>. QED BY <1>4, <2>1, <2>2 DEF DocInv, HistoryTells
<1>. QED BY <1>8, <1>11, <1>12, <1>13, <1>14, <1>15, <1>16 DEF DocInv

LEMMA LogStep ==
  ASSUME DocInv, NEW r \in Slots, LogDocument(r) PROVE DocInv'
<1> DEFINE d == docReq[r].id
<1>1. docReq[r] # None /\ docReq[r].op = "log" BY DEF LogDocument, DocAt
<1>2. d \in Docs /\ Logs(r, d) BY <1>1, DocRequestFields DEF DocInv, Logs, About
<1>3. docReq[r].status \in DocStatuses BY <1>1, <1>2 DEF DocInv, EditsFaithful, Logs
<1>4. /\ docLog' \in [Docs -> DocStatuses \cup {None}]
      /\ docLog'[d] = docReq[r].status
      /\ \A e \in Docs \ {d} : docLog'[e] = docLog[e]
      /\ UNCHANGED <<doc, docFixed, docUntold>>
  BY <1>2, <1>3 DEF LogDocument, DocInv, DocTypeOK
<1>5. /\ docReq' \in [Slots -> DocRequests \cup {None}]
      /\ docReq'[r] = None
      /\ \A s \in Slots \ {r} : docReq'[s] = docReq[s]
  BY DEF LogDocument, DocReturn, DocInv, DocTypeOK
<1>6. DocTypeOK' BY <1>4, <1>5 DEF DocInv, DocTypeOK
<1>7. \A s \in Slots, e \in Docs :
        About(s, e)' => s # r /\ About(s, e) /\ docReq'[s] = docReq[s]
  BY <1>5 DEF About
<1>8. \A s \in Slots, e \in Docs :
        Logs(s, e)' => s # r /\ Logs(s, e) /\ docReq'[s] = docReq[s]
  BY <1>7 DEF Logs, About
<1>9. RequestsThere' BY <1>4, <1>7 DEF DocInv, RequestsThere, DocExists
<1>10. EditsFaithful'
  <2> SUFFICES ASSUME NEW s \in Slots, NEW e \in Docs, About(s, e)'
               PROVE  /\ docReq'[s].op = "edit" =>
                           /\ docReq'[s].read \in DocRows
                           /\ Linked(docReq'[s].read, e)
                           /\ docFixed[e] # None => FixedIn(docReq'[s].read, e)
                      /\ docReq'[s].op = "version" => docReq'[s].version > 1
                      /\ docReq'[s].op = "log" => docReq'[s].status \in DocStatuses
    BY <1>4 DEF EditsFaithful, Linked, FixedIn
  <2>. QED BY <1>7 DEF DocInv, EditsFaithful
<1>11. LogsFaithful' BY <1>4, <1>8 DEF DocInv, LogsFaithful
<1>12. VersionLinks' /\ FixedStands'
  BY <1>4 DEF DocInv, VersionLinks, FixedStands, DocExists
<1>13. HistoryTells'
  <2> SUFFICES ASSUME NEW e \in Docs, DocExists(e), ~Unlogged(e)', e \notin docUntold
               PROVE  docLog'[e] = doc[e].status
    BY <1>4 DEF HistoryTells, DocExists
  <2>1. CASE e = d BY <1>2, <1>4, <2>1 DEF DocInv, LogsFaithful
  <2>2. CASE e # d
    <3>1. ASSUME NEW s \in Slots, Logs(s, e) PROVE Unlogged(e)'
      <4>1. s # r BY <2>2, <3>1 DEF Logs, About
      <4>2. docReq'[s] = docReq[s] BY <1>5, <4>1
      <4>. QED BY <3>1, <4>2 DEF Unlogged, DocAt, Logs, About
    <3>2. ~Unlogged(e) BY <3>1, UnloggedMeans
    <3>. QED BY <1>4, <2>2, <3>2 DEF DocInv, HistoryTells
  <2>. QED BY <2>1, <2>2
<1>. QED BY <1>6, <1>9, <1>10, <1>11, <1>12, <1>13 DEF DocInv

\* Request r, which is not about to write history, ends with a write to its row.
LEMMA WriteEnds ==
  ASSUME DocInv, NEW r \in Slots, docReq[r] # None, docReq[r].op # "log", DocReturn(r)
  PROVE  /\ DocEnding
         /\ docReq[r].id \in Docs
         /\ doc[docReq[r].id] \in DocRows
         /\ DocExists(docReq[r].id)
         /\ Linked(doc[docReq[r].id], docReq[r].id)
         /\ \A s \in Slots, e \in Docs : Logs(s, e) => docReq'[s] = docReq[s]
         /\ \A s \in Slots, e \in Docs : About(s, e)' => About(s, e)
         /\ docUntold \subseteq Docs
<1>1. docReq[r].id \in Docs BY DocRequestFields DEF DocInv
<1>2. DocEnding /\ docUntold \subseteq Docs BY DEF DocReturn, DocEnding, DocInv, DocTypeOK
<1>3. DocExists(docReq[r].id) BY <1>1 DEF DocInv, RequestsThere, About
<1>4. doc[docReq[r].id] \in DocRows BY <1>1, <1>3, RowThere DEF DocInv
<1>5. Linked(doc[docReq[r].id], docReq[r].id) BY <1>1, <1>3 DEF DocInv, VersionLinks, Linked
<1>6. \A s \in Slots, e \in Docs : Logs(s, e) => docReq'[s] = docReq[s]
  BY DEF DocReturn, Logs, About, DocInv, DocTypeOK
<1>7. \A s \in Slots, e \in Docs : About(s, e)' => About(s, e)
  BY <1>2 DEF DocEnding, About
<1>. QED BY <1>1, <1>2, <1>3, <1>4, <1>5, <1>6, <1>7

\* While docFixed stays it is right of the row and of the edits that go on.
LEMMA FixedStays ==
  ASSUME DocInv, DocEnding, NEW d \in Docs, docFixed' = docFixed
  PROVE  /\ FixedThen(doc[d], d)
         /\ \A s \in Slots :
              About(s, d)' /\ docReq[s].op = "edit" => FixedThen(docReq[s].read, d)
         /\ docFixed' \in [Docs -> [status: DocStatuses, version: 1..MaxCount,
                                    views: 0..MaxCount] \cup {None}]
<1>1. \A s \in Slots : About(s, d)' => About(s, d) BY DEF DocEnding, About
<1>2. FixedThen(doc[d], d) BY DEF DocInv, FixedStands, FixedThen
<1>. QED BY <1>1, <1>2 DEF DocInv, DocTypeOK, EditsFaithful, FixedIn, FixedThen

LEMMA WriteEditStep ==
  ASSUME DocInv, NEW r \in Slots, WriteEdit(r) PROVE DocInv'
<1>1. docReq[r] # None /\ docReq[r].op = "edit" /\ DocReturn(r)
  BY DEF WriteEdit, DocAt
<1>2. PICK d \in Docs : d = docReq[r].id BY <1>1, WriteEnds
<1> DEFINE row == Edited(d, docReq[r].read)
<1>3. /\ docReq[r].read \in DocRows /\ Linked(docReq[r].read, d)
      /\ docFixed[d] # None => FixedIn(docReq[r].read, d)
  BY <1>1, <1>2 DEF DocInv, EditsFaithful, About
<1>4. DocEnding /\ DocExists(d) /\ doc[d] \in DocRows /\ docUntold \subseteq Docs
  BY <1>1, <1>2, WriteEnds
<1>5. /\ doc' = [doc EXCEPT ![d] = row]
      /\ docUntold' = IF row.status = doc[d].status THEN docUntold ELSE docUntold \cup {d}
      /\ UNCHANGED <<docLog, docFixed>>
  BY <1>2 DEF WriteEdit
<1>6. /\ row \in DocRows /\ row.previous = docReq[r].read.previous
      /\ row.version = docReq[r].read.version /\ row.status = docReq[r].read.status
      /\ row.views = docReq[r].read.views
  BY <1>3, <1>4 DEF Edited, DocRows
<1> HIDE DEF row
<1>7. Linked(row, d) BY <1>3, <1>6 DEF Linked
<1>8. FixedThen(row, d) BY <1>3, <1>5, <1>6 DEF FixedThen, FixedIn
<1>9. /\ docUntold \subseteq docUntold' /\ docUntold' \subseteq Docs
      /\ row.status = doc[d].status \/ d \in docUntold'
  BY <1>4, <1>5
<1>10. \A s \in Slots, e \in Docs : Logs(s, e) => docReq'[s] = docReq[s]
  BY <1>1, WriteEnds
<1>11. /\ \A s \in Slots :
            About(s, d)' /\ docReq[s].op = "edit" => FixedThen(docReq[s].read, d)
       /\ docFixed' \in [Docs -> [status: DocStatuses, version: 1..MaxCount,
                                  views: 0..MaxCount] \cup {None}]
  BY <1>4, <1>5, FixedStays
<1>. QED BY <1>4, <1>5, <1>6, <1>7, <1>8, <1>9, <1>10, <1>11, RowStep

LEMMA WriteDeleteStep ==
  ASSUME DocInv, NEW r \in Slots, WriteDelete(r) PROVE DocInv'
<1>1. docReq[r] # None /\ docReq[r].op # "log" /\ DocReturn(r)
  BY DEF WriteDelete, DocAt
<1>2. PICK d \in Docs : d = docReq[r].id BY <1>1, WriteEnds
<1> DEFINE row == SoftDeleted(d)
<1>3. /\ DocEnding /\ DocExists(d) /\ doc[d] \in DocRows /\ Linked(doc[d], d)
      /\ docUntold \subseteq Docs
  BY <1>1, <1>2, WriteEnds
<1>4. doc' = [doc EXCEPT ![d] = row] /\ UNCHANGED <<docLog, docFixed, docUntold>>
  BY <1>2 DEF WriteDelete
<1>5. /\ row \in DocRows /\ row.previous = doc[d].previous /\ row.version = doc[d].version
      /\ row.status = doc[d].status /\ row.views = doc[d].views
  BY <1>3 DEF SoftDeleted, DocRows
<1> HIDE DEF row
<1>6. Linked(row, d) BY <1>3, <1>5 DEF Linked
<1>7. /\ FixedThen(doc[d], d)
      /\ \A s \in Slots :
           About(s, d)' /\ docReq[s].op = "edit" => FixedThen(docReq[s].read, d)
      /\ docFixed' \in [Docs -> [status: DocStatuses, version: 1..MaxCount,
                                 views: 0..MaxCount] \cup {None}]
  BY <1>3, <1>4, FixedStays
<1>8. FixedThen(row, d) BY <1>5, <1>7 DEF FixedThen
<1>9. \A s \in Slots, e \in Docs : Logs(s, e) => docReq'[s] = docReq[s]
  BY <1>1, WriteEnds
<1>. QED BY <1>3, <1>4, <1>5, <1>6, <1>7, <1>8, <1>9, RowStep

\* WriteArchive, WriteVersion and CountDocument fix what they set.
LEMMA FixedRowStep ==
  ASSUME DocInv, DocEnding, NEW d \in Docs, DocExists(d), NEW row \in DocRows, Linked(row, d),
         Fix(d, row), UNCHANGED docLog,
         docUntold \subseteq docUntold', docUntold' \subseteq Docs,
         row.status = doc[d].status \/ d \in docUntold',
         \A s \in Slots, e \in Docs : Logs(s, e) => docReq'[s] = docReq[s]
  PROVE  DocInv'
<1>1. /\ doc' = [doc EXCEPT ![d] = row]
      /\ docFixed' \in [Docs -> [status: DocStatuses, version: 1..MaxCount,
                                 views: 0..MaxCount] \cup {None}]
      /\ \A e \in Docs \ {d} : docFixed'[e] = docFixed[e]
      /\ FixedThen(row, d)
      /\ \A s \in Slots : About(s, d) /\ docReq[s].op = "edit" => docFixed'[d] = None
  BY FixStep
<1>2. \A s \in Slots :
        About(s, d)' /\ docReq[s].op = "edit" => FixedThen(docReq[s].read, d)
  BY <1>1 DEF DocEnding, About, FixedThen
<1>. QED BY <1>1, <1>2, RowStep

LEMMA WriteArchiveStep ==
  ASSUME DocInv, NEW r \in Slots, WriteArchive(r) PROVE DocInv'
<1>1. docReq[r] # None /\ docReq[r].op # "log" /\ DocReturn(r)
  BY DEF WriteArchive, DocAt
<1>2. PICK d \in Docs : d = docReq[r].id BY <1>1, WriteEnds
<1>3. /\ DocEnding /\ DocExists(d) /\ doc[d] \in DocRows /\ Linked(doc[d], d)
      /\ docUntold \subseteq Docs
  BY <1>1, <1>2, WriteEnds
<1>4. Archived(d) \in DocRows /\ Linked(Archived(d), d)
  BY <1>3 DEF Archived, DocRows, DocStatuses, Linked
<1>5. Fix(d, Archived(d)) /\ docUntold' = docUntold \cup {d} /\ UNCHANGED docLog
  BY <1>2 DEF WriteArchive
<1>6. \A s \in Slots, e \in Docs : Logs(s, e) => docReq'[s] = docReq[s]
  BY <1>1, WriteEnds
<1>. QED BY <1>3, <1>4, <1>5, <1>6, FixedRowStep

LEMMA WriteVersionStep ==
  ASSUME DocInv, NEW r \in Slots, WriteVersion(r) PROVE DocInv'
<1>1. docReq[r] # None /\ docReq[r].op = "version" /\ DocReturn(r)
  BY DEF WriteVersion, DocAt
<1>2. PICK d \in Docs : d = docReq[r].id BY <1>1, WriteEnds
<1> DEFINE row == Versioned(d, docReq[r].version)
<1>3. /\ DocEnding /\ DocExists(d) /\ doc[d] \in DocRows /\ docUntold \subseteq Docs
  BY <1>1, <1>2, WriteEnds
<1>4. docReq[r].version \in 1..MaxCount /\ docReq[r].version > 1
  BY <1>1, <1>2, DocRequestFields DEF DocInv, EditsFaithful, About
<1>5. row \in DocRows /\ Linked(row, d) /\ row.status = doc[d].status
  BY <1>3, <1>4 DEF Versioned, DocRows, Linked
<1>6. Fix(d, row) /\ UNCHANGED <<docLog, docUntold>> BY <1>2 DEF WriteVersion
<1>7. \A s \in Slots, e \in Docs : Logs(s, e) => docReq'[s] = docReq[s]
  BY <1>1, WriteEnds
<1>. QED BY <1>3, <1>5, <1>6, <1>7, FixedRowStep

LEMMA DocCountStep == ASSUME DocInv, CountDocument PROVE DocInv'
<1>1. PICK d \in Docs : DocExists(d) /\ doc[d].views < MaxCount /\ Fix(d, Counted(d))
  BY DEF CountDocument
<1>2. UNCHANGED <<docLog, docReq, docUntold>> BY DEF CountDocument
<1>3. doc[d] \in DocRows /\ Linked(doc[d], d)
  BY <1>1, RowThere DEF DocInv, VersionLinks, Linked
<1>4. doc[d].views + 1 \in 0..MaxCount
  BY <1>1, <1>3, DocFields, DocumentsAssumption
<1>5. /\ Counted(d) \in DocRows /\ Linked(Counted(d), d)
      /\ Counted(d).status = doc[d].status
  BY <1>3, <1>4 DEF Counted, DocRows, Linked
<1>6. DocEnding /\ docUntold \subseteq Docs BY <1>2 DEF DocEnding, DocInv, DocTypeOK
<1>. QED BY <1>1, <1>2, <1>5, <1>6, FixedRowStep

\* A request ends without a write; a lost history row is noted.
LEMMA DocAbortStep ==
  ASSUME DocInv, NEW r \in Slots, DocAbort(r) PROVE DocInv'
<1>1. docReq[r] # None /\ UNCHANGED <<doc, docLog, docFixed>> BY DEF DocAbort
<1>2. PICK d \in Docs : d = docReq[r].id BY <1>1, DocRequestFields DEF DocInv
<1>3. DocExists(d) BY <1>1, <1>2 DEF DocInv, RequestsThere, About
<1>4. doc[d] \in DocRows /\ Linked(doc[d], d)
  BY <1>3, RowThere DEF DocInv, VersionLinks, Linked
<1>5. doc' = [doc EXCEPT ![d] = doc[d]] BY <1>1 DEF DocInv, DocTypeOK
<1>6. DocEnding BY DEF DocAbort, DocReturn, DocEnding, DocInv, DocTypeOK
<1>7. /\ docUntold \subseteq docUntold' /\ docUntold' \subseteq Docs
      /\ DocAt(r, "log") => d \in docUntold'
  BY <1>2 DEF DocAbort, DocInv, DocTypeOK
<1>8. /\ FixedThen(doc[d], d)
      /\ \A s \in Slots :
           About(s, d)' /\ docReq[s].op = "edit" => FixedThen(docReq[s].read, d)
      /\ docFixed' \in [Docs -> [status: DocStatuses, version: 1..MaxCount,
                                 views: 0..MaxCount] \cup {None}]
  BY <1>1, <1>6, FixedStays
<1>9. \A s \in Slots, e \in Docs : Logs(s, e) => docReq'[s] = docReq[s] \/ e \in docUntold'
  <2> SUFFICES ASSUME NEW s \in Slots, NEW e \in Docs, Logs(s, e)
               PROVE  docReq'[s] = docReq[s] \/ e \in docUntold'
    OBVIOUS
  <2>1. CASE s = r BY <1>2, <1>7, <2>1 DEF Logs, About, DocAt
  <2>2. CASE s # r BY <2>2 DEF DocAbort, DocReturn, DocInv, DocTypeOK
  <2>. QED BY <2>1, <2>2
<1>. QED BY <1>1, <1>3, <1>4, <1>5, <1>6, <1>7, <1>8, <1>9, RowStep

\* WriteSubmit, ApproveDocument, RejectDocument and ReviewDocument.
LEMMA StatusStep ==
  ASSUME DocInv, NEW r \in Slots,
         WriteSubmit(r) \/ ApproveDocument(r) \/ RejectDocument(r) \/ ReviewDocument(r)
  PROVE  DocInv'
<1>1. ASSUME NEW d \in Docs, DocExists(d), NEW status \in DocStatuses
      PROVE  Reviewed(d, status) \in DocRows /\ Linked(Reviewed(d, status), d)
  <2>1. doc[d] \in DocRows /\ Linked(doc[d], d)
    BY <1>1, RowThere DEF DocInv, VersionLinks, Linked
  <2>. QED BY <2>1 DEF Reviewed, DocRows, Linked
<1>2. CASE WriteSubmit(r)
  <2>1. docReq[r] # None /\ docReq[r].op = "submit" BY <1>2 DEF WriteSubmit, DocAt
  <2>2. PICK d \in Docs : d = docReq[r].id BY <2>1, DocRequestFields DEF DocInv
  <2>3. DocExists(d) BY <2>1, <2>2 DEF DocInv, RequestsThere, About
  <2>4. SetStatus(r, d, Submitted(d)) BY <1>2, <2>2 DEF WriteSubmit
  <2>5. Submitted(d) \in DocRows /\ Linked(Submitted(d), d)
    BY <1>1, <2>3 DEF Submitted, Reviewed, DocStatuses
  <2>. QED BY <2>1, <2>3, <2>4, <2>5, SetStatusStep
<1>3. CASE ApproveDocument(r)
  <2>1. PICK d \in Docs : DocFree(r) /\ DocExists(d) /\ SetStatus(r, d, Approved(d))
    BY <1>3 DEF ApproveDocument
  <2>2. Approved(d) \in DocRows /\ Linked(Approved(d), d)
    BY <1>1, <2>1 DEF Approved, Reviewed, DocStatuses
  <2>. QED BY <2>1, <2>2, SetStatusStep DEF DocFree
<1>4. CASE RejectDocument(r)
  <2>1. PICK d \in Docs : DocFree(r) /\ DocExists(d) /\ SetStatus(r, d, Rejected(d))
    BY <1>4 DEF RejectDocument
  <2>2. Rejected(d) \in DocRows /\ Linked(Rejected(d), d)
    BY <1>1, <2>1 DEF Rejected, Reviewed, DocStatuses
  <2>. QED BY <2>1, <2>2, SetStatusStep DEF DocFree
<1>5. CASE ReviewDocument(r)
  <2>1. PICK d \in Docs, status \in {"is_approved", "rejected", "is_reviewed"} :
          DocFree(r) /\ DocExists(d) /\ SetStatus(r, d, Reviewed(d, status))
    BY <1>5 DEF ReviewDocument
  <2>2. status \in DocStatuses BY DEF DocStatuses
  <2>. QED BY <1>1, <2>1, <2>2, SetStatusStep DEF DocFree
<1>. QED BY <1>2, <1>3, <1>4, <1>5

-----------------------------------------------------------------------------
(* The invariant and the theorems *)

LEMMA DocInvInit == DocInit => DocInv
BY DEF DocInit, DocInv, DocTypeOK, RequestsThere, EditsFaithful, LogsFaithful, Logs, About,
       VersionLinks, FixedStands, HistoryTells, DocExists

LEMMA DocInvStep == DocInv /\ [DocNext]_docVars => DocInv'
<1> SUFFICES ASSUME DocInv, [DocNext]_docVars PROVE DocInv'
  OBVIOUS
<1>1. 1 \in 1..MaxCount BY DocumentsAssumption
<1>2. ASSUME NEW r \in Slots, EditDocument(r) PROVE DocInv'
  <2>1. PICK d \in Docs : DocExists(d) /\ DocBegin(r, "edit", d, doc[d], 1)
    BY <1>2 DEF EditDocument, OwnDocument
  <2>2. doc[d] \in DocRows BY <2>1, RowThere DEF DocInv
  <2>. QED BY <1>1, <2>1, <2>2, DocBeginStep
<1>3. ASSUME NEW r \in Slots, DeleteDocument(r) PROVE DocInv'
  <2>1. PICK d \in Docs : DocExists(d) /\ DocBegin(r, "delete", d, None, 1)
    BY <1>3 DEF DeleteDocument, OwnDocument
  <2>. QED BY <1>1, <2>1, DocBeginStep
<1>4. ASSUME NEW r \in Slots, SubmitForReview(r) PROVE DocInv'
  <2>1. PICK d \in Docs : DocExists(d) /\ DocBegin(r, "submit", d, None, 1)
    BY <1>4 DEF SubmitForReview, OwnDocument
  <2>. QED BY <1>1, <2>1, DocBeginStep
<1>5. ASSUME NEW r \in Slots, ArchiveDocument(r) PROVE DocInv'
  <2>1. PICK d \in Docs : DocExists(d) /\ DocBegin(r, "archive", d, None, 1)
    BY <1>5 DEF ArchiveDocument, OwnDocument
  <2>. QED BY <1>1, <2>1, DocBeginStep
<1>6. ASSUME NEW r \in Slots, NewVersion(r) PROVE DocInv'
  <2>1. PICK d \in Docs :
          /\ DocExists(d) /\ doc[d].version < MaxCount
          /\ DocBegin(r, "version", d, None, doc[d].version + 1)
    BY <1>6 DEF NewVersion, OwnDocument
  <2>2. doc[d].version + 1 \in 1..MaxCount /\ doc[d].version + 1 > 1
    BY <2>1, RowThere, DocFields, DocumentsAssumption DEF DocInv
  <2>. QED BY <2>1, <2>2, DocBeginStep
<1>7. CASE UNCHANGED docVars
  BY <1>7 DEF docVars, DocInv, DocTypeOK, RequestsThere, EditsFaithful, LogsFaithful, Logs,
              About, Linked, FixedIn, VersionLinks, FixedStands, HistoryTells, Unlogged,
              DocAt, DocExists
<1>. QED
  BY <1>2, <1>3, <1>4, <1>5, <1>6, <1>7, CreateStep, LogStep, WriteEditStep,
     WriteDeleteStep, WriteArchiveStep, WriteVersionStep, DocCountStep, DocAbortStep,
     StatusStep DEF DocNext

LEMMA DocInvHolds == DocSpec => []DocInv
BY DocInvInit, DocInvStep, PTL DEF DocSpec

\* The types of Documents' state.
THEOREM DocTypes == DocSpec => []DocTypeOK
<1>1. DocInv => DocTypeOK BY DEF DocInv
<1>. QED BY <1>1, DocInvHolds, PTL

\* A document past its first version names itself as the previous one.
THEOREM VersionsLinkToThemselves == DocSpec => []VersionLinks
<1>1. DocInv => VersionLinks BY DEF DocInv
<1>. QED BY <1>1, DocInvHolds, PTL

\* What was recorded of a document while no edit was in flight stays until the
\* next record: an edit undoes only what happens between its read and its write.
THEOREM FixedStaysFixed == DocSpec => []FixedStands
<1>1. DocInv => FixedStands BY DEF DocInv
<1>. QED BY <1>1, DocInvHolds, PTL

\* The newest history row tells the document's status, but for the exceptions
\* that HistoryTells names.
THEOREM HistoryStaysTrue == DocSpec => []HistoryTells
<1>1. DocInv => HistoryTells BY DEF DocInv
<1>. QED BY <1>1, DocInvHolds, PTL
=============================================================================
