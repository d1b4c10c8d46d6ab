-------------------------------- MODULE Cache -------------------------------
(***************************************************************************)
(* Submissions read through the cache: the client of                       *)
(* internal/infras/cache as the repository of internal/feature/submission  *)
(* uses it, with caching enabled.                                          *)
(*                                                                         *)
(* Each action is one SQL statement or one call to Redis, with the code    *)
(* around it; a request is one call of the repository.  A row is its       *)
(* deletion mark and a number that every write counts up, so two contents  *)
(* are never taken for each other.  Compression and encoding are left out  *)
(* but for the error they end in.  Once, SetXX and SetNX have no caller.   *)
(* The wiring (bootstrap/deps/repositories.go) passes no client yet, which *)
(* Submission models for the worker; here the repository has one.          *)
(***************************************************************************)
EXTENDS Requests, Integers

CONSTANTS
  CachedIds,   \* identities of submissions
  MaxWrites    \* bound: writes of one submission

ASSUME CacheAssumption == None \notin CachedIds /\ MaxWrites \in Nat

VARIABLES
  cachedRow,   \* table submission: id |-> row, or None
  writes,      \* writes of an id so far; 0 before its insertion
  entry,       \* Redis: id |-> the row its key holds, or None
  cacheReq,    \* calls in flight
  entryLoose   \* history: ids whose entry was left behind by a write past the
               \* repository or in a task, by a failed DEL, or by calls that
               \* overlapped, and was not removed since by a call alone

cacheTables == <<cachedRow, writes, entry, entryLoose>>
cacheVars == <<cacheTables, cacheReq>>

CachedRows == [version: 1..MaxWrites, deleted: BOOLEAN]
\* A call in flight.  since: what a reader could have been answered so far.
CacheRequests ==
  [op: {"read"}, at: {"select", "set", "answer"}, id: CachedIds,
   row: CachedRows \cup {None}, since: SUBSET (CachedRows \cup {None})]
  \cup [op: {"save"}, at: {"write"}, id: CachedIds]
  \cup [op: {"list", "save"}, at: {"set"}, id: CachedIds, row: CachedRows]
  \cup [op: {"remove"}, at: {"write"}, id: CachedIds]

ASSUME NoCachedRow == None \notin CachedRows \cup CacheRequests

CacheTypeOK ==
  /\ cachedRow \in [CachedIds -> CachedRows \cup {None}]
  /\ writes \in [CachedIds -> 0..MaxWrites]
  /\ entry \in [CachedIds -> CachedRows \cup {None}]
  /\ cacheReq \in [Slots -> CacheRequests \cup {None}]
  /\ entryLoose \subseteq CachedIds

CacheInit ==
  /\ cachedRow = [x \in CachedIds |-> None]
  /\ writes = [x \in CachedIds |-> 0]
  /\ entry = [x \in CachedIds |-> None]
  /\ cacheReq = [r \in Slots |-> None]
  /\ entryLoose = {}

-----------------------------------------------------------------------------
(* Calls *)

CacheAt(r, at) == cacheReq[r] # None /\ cacheReq[r].at = at
CacheOp(r, op) == cacheReq[r] # None /\ cacheReq[r].op = op
OnEntry(r, x) == cacheReq[r] # None /\ cacheReq[r].id = x
CacheReturn(r) == cacheReq' = [cacheReq EXCEPT ![r] = None]

Writes(op) == op \in {"save", "remove"}
Alone(r, x) == \A q \in Slots \ {r} : ~OnEntry(q, x)
\* A call of this kind overlaps with another, and one of the two writes.
Crossed(r, x, op) ==
  \E q \in Slots \ {r} : OnEntry(q, x) /\ (Writes(op) \/ Writes(cacheReq[q].op))

\* GetSubmissionByID with is_deleted = FALSE, and the lists: what a reader is shown.
ShownRow(row) == IF row # None /\ ~row.deleted THEN row ELSE None

\* UPDATE, INSERT and DELETE.  Who reads this row meanwhile may be answered either.
PutCached(requests, x, row) ==
  /\ cachedRow' = [cachedRow EXCEPT ![x] = row]
  /\ writes' = [writes EXCEPT ![x] = @ + 1]
  /\ cacheReq' = [q \in Slots |->
       IF OnEntry(q, x) /\ CacheOp(q, "read")
       THEN [requests[q] EXCEPT !.since = @ \cup {ShownRow(row)}] ELSE requests[q]]

NextVersion(x, deleted) == [version |-> writes[x] + 1, deleted |-> deleted]

-----------------------------------------------------------------------------
(* The client *)

\* A mutant of DecodeErrs: the decoder's own result is returned.
DecodeErrsNot(row) == FALSE

\* _unmarshal wraps the decoder's result whatever it is, and an error around
\* nil is an error: a stored row is never decoded without one.
DecodeErrs(row) == TRUE

\* Get: an answer for the caller, as far as the caller can tell.
Hit(x) == entry[x] # None /\ ~DecodeErrs(entry[x])

\* Set: the row is stored or Redis fails; the error is wrapped in the same way,
\* and every repository drops it.
SetEntry(r) ==
  /\ CacheAt(r, "set")
  /\ \/ entry' = [entry EXCEPT ![cacheReq[r].id] = cacheReq[r].row]
     \/ UNCHANGED entry
  /\ IF CacheOp(r, "read") THEN cacheReq' = [cacheReq EXCEPT ![r].at = "answer"]
     ELSE CacheReturn(r)
  /\ UNCHANGED <<cachedRow, writes, entryLoose>>

\* DEL: the key is removed, or Redis fails, which every repository ignores.  A
\* call that is alone at the id leaves nothing that could put an old row back.
DropEntry(r, x) ==
  \/ /\ entry' = [entry EXCEPT ![x] = None]
     /\ entryLoose' = IF Alone(r, x) THEN entryLoose \ {x} ELSE entryLoose \cup {x}
  \/ /\ entryLoose' = entryLoose \cup {x}
     /\ UNCHANGED entry

\* QueryCacheTTL is over, or a list by service level removes the keys of its rows.
Expire ==
  \E x \in CachedIds :
    /\ entry[x] # None
    /\ entry' = [entry EXCEPT ![x] = None]
    /\ entryLoose' = IF \E q \in Slots : OnEntry(q, x) THEN entryLoose ELSE entryLoose \ {x}
    /\ UNCHANGED <<cachedRow, writes, cacheReq>>

-----------------------------------------------------------------------------
(* The repository *)

CacheBegin(r, call) ==
  /\ cacheReq[r] = None
  /\ cacheReq' = [cacheReq EXCEPT ![r] = call]

\* Create: the insertion; its row is stored next.
CreateCached(r) ==
  \E x \in CachedIds :
    /\ cacheReq[r] = None /\ writes[x] = 0 /\ MaxWrites > 0
    /\ LET row == NextVersion(x, FALSE)
       IN  PutCached([cacheReq EXCEPT ![r] = [op |-> "save", at |-> "set", id |-> x, row |-> row]],
                     x, row)
    /\ UNCHANGED <<entry, entryLoose>>

\* GetByID asks the cache first.
ReadCached(r) ==
  \E x \in CachedIds :
    /\ writes[x] > 0
    /\ CacheBegin(r, [op |-> "read", at |-> IF Hit(x) THEN "answer" ELSE "select", id |-> x,
                      row |-> IF Hit(x) THEN entry[x] ELSE None,
                      since |-> {ShownRow(cachedRow[x])}])
    /\ entryLoose' = IF Crossed(r, x, "read") THEN entryLoose \cup {x} ELSE entryLoose
    /\ UNCHANGED <<cachedRow, writes, entry>>

\* What is not found is answered at once, and not stored.
SelectCached(r) ==
  /\ CacheAt(r, "select")
  /\ LET row == ShownRow(cachedRow[cacheReq[r].id])
     IN  cacheReq' = [cacheReq EXCEPT ![r].at = IF row = None THEN "answer" ELSE "set",
                                      ![r].row = row]
  /\ UNCHANGED cacheTables

\* The caller goes on with the row.
AnswerCached(r) == CacheAt(r, "answer") /\ CacheReturn(r) /\ UNCHANGED cacheTables

\* List, GetByRequesterID and GetByApproverID ask the database alone and store
\* every row they return.
ListCached(r) ==
  \E x \in CachedIds :
    /\ ShownRow(cachedRow[x]) # None
    /\ CacheBegin(r, [op |-> "list", at |-> "set", id |-> x, row |-> cachedRow[x]])
    /\ entryLoose' = IF Crossed(r, x, "list") THEN entryLoose \cup {x} ELSE entryLoose
    /\ UNCHANGED <<cachedRow, writes, entry>>

\* A mutant of SaveCached: the key stays until the row is stored.
SaveCachedKept(r) ==
  \E x \in CachedIds :
    /\ writes[x] > 0
    /\ CacheBegin(r, [op |-> "save", at |-> "write", id |-> x])
    /\ entryLoose' = IF Crossed(r, x, "save") THEN entryLoose \cup {x} ELSE entryLoose
    /\ UNCHANGED <<cachedRow, writes, entry>>

\* Update and UpdateStatus remove the key,
SaveCached(r) ==
  \E x \in CachedIds :
    /\ writes[x] > 0
    /\ CacheBegin(r, [op |-> "save", at |-> "write", id |-> x])
    /\ DropEntry(r, x)
    /\ UNCHANGED <<cachedRow, writes>>

\* write the row, which may take back a deletion, and store what they wrote; a
\* row that is gone makes the statement fail.
WriteCached(r) ==
  /\ CacheAt(r, "write") /\ CacheOp(r, "save")
  /\ LET x == cacheReq[r].id
     IN  \/ /\ cachedRow[x] # None /\ writes[x] < MaxWrites
            /\ \E deleted \in {FALSE, cachedRow[x].deleted} :
                 LET row == NextVersion(x, deleted)
                 IN  PutCached([cacheReq EXCEPT ![r] = [op |-> "save", at |-> "set", id |-> x,
                                                        row |-> row]], x, row)
         \/ cachedRow[x] = None /\ CacheReturn(r) /\ UNCHANGED <<cachedRow, writes>>
  /\ UNCHANGED <<entry, entryLoose>>

\* Delete and SoftDelete remove the key, then the row or its readers' sight of it.
RemoveCached(r) ==
  \E x \in CachedIds :
    /\ writes[x] > 0
    /\ CacheBegin(r, [op |-> "remove", at |-> "write", id |-> x])
    /\ DropEntry(r, x)
    /\ UNCHANGED <<cachedRow, writes>>

DeleteCached(r) ==
  /\ CacheAt(r, "write") /\ CacheOp(r, "remove")
  /\ LET x == cacheReq[r].id
         freed == [cacheReq EXCEPT ![r] = None]
     IN  /\ writes[x] < MaxWrites
         /\ \/ PutCached(freed, x, None)
            \/ cachedRow[x] # None /\ PutCached(freed, x, NextVersion(x, TRUE))
  /\ UNCHANGED <<entry, entryLoose>>

\* A row is written and its entry left as it is.
WritePast(x) ==
  /\ cachedRow[x] # None /\ writes[x] < MaxWrites
  /\ PutCached(cacheReq, x, NextVersion(x, cachedRow[x].deleted))
  /\ entryLoose' = entryLoose \cup {x}
  /\ UNCHANGED entry

\* An approval is written by the use case itself, past the repository.
ApproveCached == \E x \in CachedIds : WritePast(x)

\* BulkMarkArchived is called by the worker, whose repository has no client: it
\* panics at the removal of the key, after the rows were written.
ArchiveCached == \E x \in CachedIds : WritePast(x)

\* A statement fails, the client goes away, or the process stops.
CacheAbort(r) == cacheReq[r] # None /\ CacheReturn(r) /\ UNCHANGED cacheTables

CacheNext ==
  \/ Expire \/ ApproveCached \/ ArchiveCached
  \/ \E r \in Slots :
       \/ CreateCached(r) \/ SetEntry(r)
       \/ ReadCached(r) \/ SelectCached(r) \/ AnswerCached(r) \/ ListCached(r)
       \/ SaveCached(r) \/ WriteCached(r)
       \/ RemoveCached(r) \/ DeleteCached(r)
       \/ CacheAbort(r)

CacheSpec == CacheInit /\ [][CacheNext]_cacheVars

-----------------------------------------------------------------------------
(* Properties *)

\* GetByID answers with a row that was the current one at some moment of the
\* call, however it overlaps with writers, failures of Redis and calls that
\* break off.  It is what lets the other models read a row in one step; and it
\* holds although an approval leaves the old row in the cache.
ReadsAreCurrent ==
  \A r \in Slots : CacheAt(r, "answer") => cacheReq[r].row \in cacheReq[r].since

\* The repository keeps its key in step with the row: an entry differs from its
\* row only after a write past the repository or in a task, a DEL that failed,
\* or two calls that overlapped, and only until a call that is alone at the row,
\* or the key's expiry, removes it.  A call that breaks off, or a SET that
\* fails, never parts them.
EntryInStep ==
  \A x \in CachedIds \ entryLoose : entry[x] \in {None, cachedRow[x]}
=============================================================================
