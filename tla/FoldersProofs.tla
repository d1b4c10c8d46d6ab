--------------------------- MODULE FoldersProofs ----------------------------
(***************************************************************************)
(* Proofs about Folders: the types, DepthTrue and TreeComplete hold for    *)
(* every number of folders, documents, users and overlapping requests.     *)
(* DepthTrue alone is not inductive: a request in flight will write a      *)
(* depth it computed before, so the invariant also says what every such    *)
(* request may still write (PromisedDepth).  It stays right because the    *)
(* depth of a folder that was never moved never changes, a parent that is  *)
(* gone makes the statement fail, and ids are not used twice (Referenced). *)
(***************************************************************************)
EXTENDS Folders, TLAPS

\* Folders that exist were inserted, and so are their parents, which exist.
Referenced ==
  \A f \in Folders : FolderExists(f) =>
    /\ f \in folderUsed
    /\ folder[f].parent = None \/ FolderExists(folder[f].parent)

\* What the requests in flight will write: a parent that was inserted once,
\* and, if it is still there and was never moved, the depth below it.
PromisedDepth ==
  \A r \in Slots :
    folderReq[r] # None /\ folderReq[r].op # "delete" =>
      LET p == folderReq[r].parent
      IN  /\ p \in folderUsed \cup {None}
          /\ folderReq[r].at = "write" /\ FolderExists(p) /\ p \notin folderMoved =>
               folderReq[r].depth = folder[p].depth + 1

FolderInv == FolderTypeOK /\ Referenced /\ PromisedDepth /\ DepthTrue

LEMMA RequestFields ==
  ASSUME NEW r \in Slots, FolderTypeOK, folderReq[r] # None
  PROVE  /\ folderReq[r] \in FolderRequests
         /\ folderReq[r].op \in {"create", "update", "move", "delete"}
         /\ folderReq[r].at \in {"depth", "children", "documents", "write"}
         /\ folderReq[r].id \in Folders \cup {None}
         /\ folderReq[r].owner \in Users
         /\ folderReq[r].parent \in Folders \cup {None}
         /\ folderReq[r].depth \in 0..2
         /\ folderReq[r].late \in SUBSET (Folders \cup FiledDocs)
BY DEF FolderTypeOK, FolderRequests

LEMMA RowFields ==
  ASSUME NEW f \in Folders, FolderTypeOK, FolderExists(f)
  PROVE  /\ f # None
         /\ folder[f] \in FolderRows
         /\ folder[f].owner \in Users
         /\ folder[f].parent \in Folders \cup {None}
         /\ folder[f].depth \in 0..2
BY DEF FolderTypeOK, FolderRows, FolderExists

LEMMA DepthUnderType ==
  ASSUME FolderTypeOK, NEW p \in Folders \cup {None}
  PROVE  /\ DepthUnder(p) \in 0..3
         /\ FolderExists(p) => DepthUnder(p) = folder[p].depth + 1
<1>1. CASE FolderExists(p)
  <2>1. p \in Folders BY <1>1 DEF FolderExists
  <2>2. folder[p].depth \in 0..2 BY <1>1, <2>1, RowFields
  <2>. QED BY <1>1, <2>2 DEF DepthUnder
<1>2. CASE ~FolderExists(p) BY <1>2 DEF DepthUnder
<1>. QED BY <1>1, <1>2

-----------------------------------------------------------------------------
(* Steps that leave the tables alone *)

\* A request begins.
LEMMA BeginStep ==
  ASSUME FolderInv, NEW r \in Slots,
         NEW op \in {"create", "update", "move", "delete"},
         NEW stage \in {"depth", "children", "documents", "write"},
         NEW f \in Folders \cup {None}, NEW u \in Users,
         NEW p \in folderUsed \cup {None}, NEW d \in 0..2,
         FolderBegin(r, op, stage, f, u, p, d),
         op # "delete" /\ stage = "write" /\ FolderExists(p) /\ p \notin folderMoved
           => d = folder[p].depth + 1
  PROVE  FolderInv'
<1> DEFINE q == [op |-> op, at |-> stage, id |-> f, owner |-> u, parent |-> p,
                 depth |-> d, late |-> {}]
<1>. folderUsed \subseteq Folders BY DEF FolderInv, FolderTypeOK
<1>1. q \in FolderRequests BY DEF FolderRequests
<1>2. /\ folderReq' = [folderReq EXCEPT ![r] = q]
      /\ UNCHANGED <<folder, folderUsed, filed, folderMoved>>
  BY DEF FolderBegin, folderTables
<1>3. FolderTypeOK' BY <1>1, <1>2 DEF FolderInv, FolderTypeOK
<1>4. Referenced' /\ DepthTrue'
  BY <1>2 DEF FolderInv, Referenced, DepthTrue, FolderExists
<1>5. PromisedDepth'
  <2> SUFFICES ASSUME NEW s \in Slots, folderReq'[s] # None, folderReq'[s].op # "delete"
               PROVE  /\ folderReq'[s].parent \in folderUsed \cup {None}
                      /\ /\ folderReq'[s].at = "write"
                         /\ FolderExists(folderReq'[s].parent)
                         /\ folderReq'[s].parent \notin folderMoved
                         => folderReq'[s].depth = folder[folderReq'[s].parent].depth + 1
    BY <1>2 DEF PromisedDepth, FolderExists
  <2>1. CASE s = r
    <3>1. folderReq'[s] = q BY <1>2, <2>1 DEF FolderInv, FolderTypeOK
    <3>. QED BY <3>1
  <2>2. CASE s # r
    <3>1. folderReq'[s] = folderReq[s] BY <1>2, <2>2 DEF FolderInv, FolderTypeOK
    <3>. QED BY <3>1 DEF FolderInv, PromisedDepth
  <2>. QED BY <2>1, <2>2
<1>. QED BY <1>3, <1>4, <1>5 DEF FolderInv

\* Every other step on the requests alone: each request ends, or goes on with
\* the same parent, and with a depth that is right if it is written next.
LEMMA QuietStep ==
  ASSUME FolderInv, UNCHANGED folderTables,
         folderReq' \in [Slots -> FolderRequests \cup {None}],
         \A s \in Slots :
           \/ folderReq'[s] = None
           \/ folderReq'[s] = folderReq[s]
           \/ /\ folderReq[s] # None
              /\ folderReq'[s].op = folderReq[s].op
              /\ folderReq'[s].parent = folderReq[s].parent
              /\ \/ folderReq[s].op = "delete"
                 \/ FolderExists(folderReq[s].parent) =>
                      folderReq'[s].depth = folder[folderReq[s].parent].depth + 1
  PROVE  FolderInv'
<1>1. UNCHANGED <<folder, folderUsed, filed, folderMoved>> BY DEF folderTables
<1>2. FolderTypeOK' BY <1>1 DEF FolderInv, FolderTypeOK
<1>3. Referenced' /\ DepthTrue'
  BY <1>1 DEF FolderInv, Referenced, DepthTrue, FolderExists
<1>4. PromisedDepth' BY <1>1 DEF FolderInv, PromisedDepth, FolderExists
<1>. QED BY <1>2, <1>3, <1>4 DEF FolderInv

LEMMA ReturnStep ==
  ASSUME FolderInv, NEW r \in Slots, FolderReturn(r), UNCHANGED folderTables
  PROVE  FolderInv'
<1>1. folderReq' \in [Slots -> FolderRequests \cup {None}]
  BY DEF FolderInv, FolderTypeOK, FolderReturn, FolderDone
<1>2. \A s \in Slots : folderReq'[s] \in {None, folderReq[s]}
  BY DEF FolderInv, FolderTypeOK, FolderReturn, FolderDone
<1>. QED BY <1>1, <1>2, QuietStep

LEMMA CountStep ==
  ASSUME FolderInv, NEW r \in Slots, CountChildren(r) \/ CountDocuments(r)
  PROVE  FolderInv'
<1>1. UNCHANGED folderTables BY DEF CountChildren, CountDocuments
<1>2. folderReq[r] # None /\ folderReq[r].op = "delete"
  BY DEF CountChildren, CountDocuments, FolderAt
<1>3. CASE FolderReturn(r) BY <1>1, <1>3, ReturnStep
<1>4. ASSUME NEW stage \in {"documents", "write"}, FolderGoto(r, stage) PROVE FolderInv'
  <2>1. folderReq[r] \in FolderRequests BY <1>2, RequestFields DEF FolderInv
  <2>2. [folderReq[r] EXCEPT !.at = stage] \in FolderRequests
    BY <2>1 DEF FolderRequests
  <2>3. folderReq' = [folderReq EXCEPT ![r] = [folderReq[r] EXCEPT !.at = stage]]
    BY <1>4 DEF FolderGoto
  <2>4. folderReq' \in [Slots -> FolderRequests \cup {None}]
    BY <2>2, <2>3 DEF FolderInv, FolderTypeOK
  <2>5. ASSUME NEW s \in Slots
        PROVE  \/ folderReq'[s] = folderReq[s]
               \/ /\ folderReq[s] # None
                  /\ folderReq[s].op = "delete"
                  /\ folderReq'[s].op = folderReq[s].op
                  /\ folderReq'[s].parent = folderReq[s].parent
    <3>1. CASE s = r
      <4>1. folderReq'[s] = [folderReq[r] EXCEPT !.at = stage]
        BY <2>3, <3>1 DEF FolderInv, FolderTypeOK
      <4>. QED BY <1>2, <2>1, <3>1, <4>1 DEF FolderRequests
    <3>2. CASE s # r BY <2>3, <3>2 DEF FolderInv, FolderTypeOK
    <3>. QED BY <3>1, <3>2
  <2>. QED BY <1>1, <2>4, <2>5, QuietStep
<1>. QED BY <1>3, <1>4 DEF CountChildren, CountDocuments

LEMMA ValidateStep ==
  ASSUME FolderInv, NEW r \in Slots, ValidateDepth(r)
  PROVE  FolderInv'
<1> DEFINE p == folderReq[r].parent
           q == [folderReq[r] EXCEPT !.at = "write", !.depth = DepthUnder(p)]
<1>1. UNCHANGED folderTables BY DEF ValidateDepth
<1>2. folderReq[r] # None BY DEF ValidateDepth, FolderAt
<1>3. folderReq[r] \in FolderRequests /\ p \in Folders \cup {None}
  BY <1>2, RequestFields DEF FolderInv
<1>4. DepthUnder(p) \in 0..3 /\ (FolderExists(p) => DepthUnder(p) = folder[p].depth + 1)
  BY <1>3, DepthUnderType DEF FolderInv
<1>5. CASE DepthUnder(p) > 2
  <2>1. FolderReturn(r) BY <1>5 DEF ValidateDepth, FolderReturn, FolderDone
  <2>. QED BY <1>1, <2>1, ReturnStep
<1>6. CASE ~(DepthUnder(p) > 2)
  <2>1. folderReq' = [folderReq EXCEPT ![r] = q] BY <1>6 DEF ValidateDepth
  <2>2. DepthUnder(p) \in 0..2 BY <1>4, <1>6
  <2>3. q \in FolderRequests BY <1>3, <2>2 DEF FolderRequests
  <2>4. folderReq' \in [Slots -> FolderRequests \cup {None}]
    BY <2>1, <2>3 DEF FolderInv, FolderTypeOK
  <2>5. q.op = folderReq[r].op /\ q.parent = p /\ q.depth = DepthUnder(p)
    BY <1>3 DEF FolderRequests
  <2>6. ASSUME NEW s \in Slots
        PROVE  \/ folderReq'[s] = folderReq[s]
               \/ /\ folderReq[s] # None
                  /\ folderReq'[s].op = folderReq[s].op
                  /\ folderReq'[s].parent = folderReq[s].parent
                  /\ FolderExists(folderReq[s].parent) =>
                       folderReq'[s].depth = folder[folderReq[s].parent].depth + 1
    <3>1. CASE s = r
      <4>1. folderReq'[s] = q BY <2>1, <3>1 DEF FolderInv, FolderTypeOK
      <4>. QED BY <1>2, <1>4, <2>5, <3>1, <4>1
    <3>2. CASE s # r BY <2>1, <3>2 DEF FolderInv, FolderTypeOK
    <3>. QED BY <3>1, <3>2
  <2>. QED BY <1>1, <2>4, <2>6, QuietStep
<1>. QED BY <1>5, <1>6

-----------------------------------------------------------------------------
(* Steps that change the tables *)

\* FolderNoted changes the history field of deletions and nothing else.
LEMMA NotedRequests ==
  ASSUME NEW reqs \in [Slots -> FolderRequests \cup {None}],
         NEW x \in Folders \cup FiledDocs, NEW p
  PROVE  /\ FolderNoted(reqs, x, p) \in [Slots -> FolderRequests \cup {None}]
         /\ \A s \in Slots :
              \/ FolderNoted(reqs, x, p)[s] = reqs[s]
              \/ /\ reqs[s] # None
                 /\ reqs[s].op = "delete"
                 /\ FolderNoted(reqs, x, p)[s].op = "delete"
                 /\ FolderNoted(reqs, x, p)[s].parent = reqs[s].parent
<1> SUFFICES ASSUME NEW s \in Slots
             PROVE  /\ FolderNoted(reqs, x, p)[s] \in FolderRequests \cup {None}
                    /\ \/ FolderNoted(reqs, x, p)[s] = reqs[s]
                       \/ /\ reqs[s] # None
                          /\ reqs[s].op = "delete"
                          /\ FolderNoted(reqs, x, p)[s].op = "delete"
                          /\ FolderNoted(reqs, x, p)[s].parent = reqs[s].parent
  BY DEF FolderNoted
<1>1. CASE reqs[s] # None /\ reqs[s].op = "delete" /\ reqs[s].at # "children" /\ reqs[s].id = p
  <2>1. FolderNoted(reqs, x, p)[s] = [reqs[s] EXCEPT !.late = @ \cup {x}]
    BY <1>1 DEF FolderNoted
  <2>2. reqs[s] \in FolderRequests BY <1>1
  <2>. QED BY <1>1, <2>1, <2>2 DEF FolderRequests
<1>2. CASE ~(reqs[s] # None /\ reqs[s].op = "delete" /\ reqs[s].at # "children" /\ reqs[s].id = p)
  <2>1. FolderNoted(reqs, x, p)[s] = reqs[s] BY <1>2 DEF FolderNoted
  <2>. QED BY <2>1
<1>. QED BY <1>1, <1>2

\* The requests other than r after a step of r, which ends; deletions may have
\* been noted something.
Continued ==
  \A s \in Slots :
    \/ folderReq'[s] = None
    \/ folderReq'[s] = folderReq[s]
    \/ /\ folderReq[s] # None
       /\ folderReq[s].op = "delete"
       /\ folderReq'[s].op = "delete"
       /\ folderReq'[s].parent = folderReq[s].parent

LEMMA DoneRequests ==
  ASSUME FolderTypeOK, NEW r \in Slots
  PROVE  /\ FolderDone(r) \in [Slots -> FolderRequests \cup {None}]
         /\ \A s \in Slots : FolderDone(r)[s] \in {None, folderReq[s]}
BY DEF FolderTypeOK, FolderDone

LEMMA ContinuedAfterNoting ==
  ASSUME FolderTypeOK, NEW r \in Slots, NEW x \in Folders \cup FiledDocs, NEW p,
         folderReq' \in {FolderDone(r), FolderNoted(FolderDone(r), x, p)}
  PROVE  Continued /\ folderReq' \in [Slots -> FolderRequests \cup {None}]
<1>1. CASE folderReq' = FolderDone(r) BY <1>1, DoneRequests DEF Continued
<1>2. CASE folderReq' = FolderNoted(FolderDone(r), x, p)
  <2>1. FolderDone(r) \in [Slots -> FolderRequests \cup {None}] BY DoneRequests
  <2>2. folderReq' \in [Slots -> FolderRequests \cup {None}] BY <1>2, <2>1, NotedRequests
  <2>3. \A s \in Slots :
          \/ folderReq'[s] = FolderDone(r)[s]
          \/ /\ FolderDone(r)[s] # None
             /\ FolderDone(r)[s].op = "delete"
             /\ folderReq'[s].op = "delete"
             /\ folderReq'[s].parent = FolderDone(r)[s].parent
    BY <1>2, <2>1, NotedRequests
  <2>4. \A s \in Slots : FolderDone(r)[s] \in {None, folderReq[s]} BY DoneRequests
  <2>5. Continued
    <3> SUFFICES ASSUME NEW s \in Slots
                 PROVE  \/ folderReq'[s] = None
                        \/ folderReq'[s] = folderReq[s]
                        \/ /\ folderReq[s] # None
                           /\ folderReq[s].op = "delete"
                           /\ folderReq'[s].op = "delete"
                           /\ folderReq'[s].parent = folderReq[s].parent
      BY DEF Continued
    <3>1. CASE FolderDone(r)[s] = None BY <2>3, <3>1
    <3>2. CASE FolderDone(r)[s] = folderReq[s] BY <2>3, <3>2
    <3>. QED BY <2>4, <3>1, <3>2
  <2>. QED BY <2>2, <2>5
<1>. QED BY <1>1, <1>2

\* The promises survive when no folder appears under an old id and no folder
\* that was never moved changes its depth.
LEMMA PromiseStep ==
  ASSUME FolderInv, Continued, folderUsed \subseteq folderUsed',
         \A p \in folderUsed :
           folder'[p] # None /\ p \notin folderMoved' =>
             /\ FolderExists(p)
             /\ p \notin folderMoved
             /\ folder'[p].depth = folder[p].depth
  PROVE  PromisedDepth'
<1> SUFFICES ASSUME NEW s \in Slots, folderReq'[s] # None, folderReq'[s].op # "delete"
             PROVE  LET p == folderReq'[s].parent
                    IN  /\ p \in folderUsed' \cup {None}
                        /\ folderReq'[s].at = "write" /\ p # None /\ folder'[p] # None
                           /\ p \notin folderMoved' =>
                             folderReq'[s].depth = folder'[p].depth + 1
  BY DEF PromisedDepth, FolderExists
<1>1. folderReq'[s] = folderReq[s] BY DEF Continued
<1>2. folderReq[s].parent \in folderUsed \cup {None}
  BY <1>1 DEF FolderInv, PromisedDepth
<1>3. ASSUME folderReq[s].at = "write", folderReq[s].parent # None,
             folder'[folderReq[s].parent] # None, folderReq[s].parent \notin folderMoved'
      PROVE  folderReq[s].depth = folder'[folderReq[s].parent].depth + 1
  <2>1. /\ FolderExists(folderReq[s].parent)
        /\ folderReq[s].parent \notin folderMoved
        /\ folder'[folderReq[s].parent].depth = folder[folderReq[s].parent].depth
    BY <1>2, <1>3
  <2>2. folderReq[s].depth = folder[folderReq[s].parent].depth + 1
    BY <1>1, <1>3, <2>1 DEF FolderInv, PromisedDepth
  <2>. QED BY <2>1, <2>2
<1>. QED BY <1>1, <1>2, <1>3

LEMMA InsertStep ==
  ASSUME FolderInv, NEW r \in Slots, CreateFolderInsert(r)
  PROVE  FolderInv'
<1> DEFINE q == folderReq[r]
<1>1. q # None /\ q.op = "create" /\ q.at = "write"
  BY DEF CreateFolderInsert, FolderAt
<1>2. q.owner \in Users /\ q.parent \in Folders \cup {None} /\ q.depth \in 0..2
  BY <1>1, RequestFields DEF FolderInv
<1>3. CASE ~ParentThere(q.parent)
  BY <1>3, ReturnStep DEF CreateFolderInsert
<1>4. CASE ParentThere(q.parent)
  <2>1. PICK f \in Folders \ folderUsed :
          /\ folder' = [folder EXCEPT ![f] =
               [owner |-> q.owner, parent |-> q.parent, depth |-> q.depth]]
          /\ folderUsed' = folderUsed \cup {f}
          /\ folderReq' = FolderNoted(FolderDone(r), f, q.parent)
          /\ UNCHANGED <<filed, folderMoved>>
    BY <1>4 DEF CreateFolderInsert
  <2>2. Continued /\ folderReq' \in [Slots -> FolderRequests \cup {None}]
    BY <2>1, ContinuedAfterNoting DEF FolderInv
  <2>3. /\ f # None
        /\ folder'[f] = [owner |-> q.owner, parent |-> q.parent, depth |-> q.depth]
        /\ \A g \in Folders : g # f => folder'[g] = folder[g]
    BY <2>1, FoldersAssumption DEF FolderInv, FolderTypeOK
  <2>4. folder'[f] \in FolderRows BY <1>2, <2>3 DEF FolderRows
  <2>5. ~FolderExists(f) BY <2>1 DEF FolderInv, Referenced
  <2>6. FolderTypeOK' BY <2>1, <2>2, <2>4 DEF FolderInv, FolderTypeOK
  <2>7. q.parent \in folderUsed \cup {None} BY <1>1 DEF FolderInv, PromisedDepth
  <2>8. PromisedDepth'
    <3>1. \A p \in folderUsed : folder'[p] = folder[p] /\ p # None
      BY <2>1, <2>3, FoldersAssumption DEF FolderInv, FolderTypeOK
    <3>. QED BY <2>1, <2>2, <3>1, PromiseStep DEF FolderExists
  <2>9. \A g \in Folders : FolderExists(g) =>
          /\ g # f
          /\ folder[g].parent \in Folders \cup {None}
          /\ folder[g].parent # f
    <3> SUFFICES ASSUME NEW g \in Folders, FolderExists(g)
                 PROVE  g # f /\ folder[g].parent \in Folders \cup {None} /\ folder[g].parent # f
      OBVIOUS
    <3>1. g # f BY <2>5
    <3>2. folder[g].parent \in Folders \cup {None} BY RowFields DEF FolderInv
    <3>3. folder[g].parent = None \/ FolderExists(folder[g].parent)
      BY DEF FolderInv, Referenced
    <3>. QED BY <2>3, <2>5, <3>1, <3>2, <3>3
  <2>10. Referenced'
    <3> SUFFICES ASSUME NEW g \in Folders, folder'[g] # None
                 PROVE  /\ g \in folderUsed'
                        /\ \/ folder'[g].parent = None
                           \/ folder'[g].parent # None /\ folder'[folder'[g].parent] # None
      BY DEF Referenced, FolderExists
    <3>1. CASE g = f
      <4>1. q.parent # None => q.parent # f /\ folder[q.parent] # None
        BY <1>4, <2>1, <2>7 DEF ParentThere, FolderExists
      <4>. QED BY <1>2, <2>1, <2>3, <3>1, <4>1
    <3>2. CASE g # f
      <4>1. folder'[g] = folder[g] /\ FolderExists(g)
        BY <2>3, <3>2, FoldersAssumption DEF FolderExists
      <4>2. g \in folderUsed /\ (folder[g].parent = None \/ FolderExists(folder[g].parent))
        BY <4>1 DEF FolderInv, Referenced
      <4>. QED BY <2>1, <2>3, <2>9, <4>1, <4>2 DEF FolderExists
    <3>. QED BY <3>1, <3>2
  <2>11. DepthTrue'
    <3> SUFFICES ASSUME NEW g \in Folders, folder'[g] # None,
                        folder'[g].parent \in Folders \ folderMoved
                 PROVE  /\ folder'[g].parent # None
                        /\ folder'[folder'[g].parent] # None
                        /\ folder'[g].depth = folder'[folder'[g].parent].depth + 1
      BY <2>1 DEF DepthTrue, FolderExists
    <3>1. CASE g = f
      <4>1. folder'[g].parent = q.parent /\ folder'[g].depth = q.depth BY <2>3, <3>1
      <4>2. q.parent # None /\ FolderExists(q.parent)
        BY <1>4, <4>1, FoldersAssumption DEF ParentThere
      <4>3. q.parent \in Folders /\ q.parent # f BY <2>1, <2>7, <4>1, <4>2
      <4>4. q.depth = folder[q.parent].depth + 1
        BY <1>1, <4>1, <4>2 DEF FolderInv, PromisedDepth
      <4>. QED BY <2>3, <4>1, <4>2, <4>3, <4>4 DEF FolderExists
    <3>2. CASE g # f
      <4>1. folder'[g] = folder[g] /\ FolderExists(g)
        BY <2>3, <3>2, FoldersAssumption DEF FolderExists
      <4>2. /\ FolderExists(folder[g].parent)
            /\ folder[g].depth = folder[folder[g].parent].depth + 1
        BY <4>1 DEF FolderInv, DepthTrue
      <4>. QED BY <2>3, <2>9, <4>1, <4>2 DEF FolderExists
    <3>. QED BY <3>1, <3>2
  <2>. QED BY <2>6, <2>8, <2>10, <2>11 DEF FolderInv
<1>. QED BY <1>3, <1>4

LEMMA WriteStep ==
  ASSUME FolderInv, NEW r \in Slots, WriteFolder(r)
  PROVE  FolderInv'
<1> DEFINE q == folderReq[r]
           f == q.id
<1>1. q # None /\ q.op # "delete" /\ q.at = "write"
  BY DEF WriteFolder, FolderAt
<1>2. q.parent \in Folders \cup {None} /\ q.depth \in 0..2 /\ f \in Folders \cup {None}
  BY <1>1, RequestFields DEF FolderInv
<1>3. CASE ~(FolderExists(f) /\ ParentThere(q.parent))
  BY <1>3, ReturnStep DEF WriteFolder
<1>4. CASE FolderExists(f) /\ ParentThere(q.parent)
  <2>1. f \in Folders /\ f \in folderUsed
    BY <1>2, <1>4 DEF FolderInv, Referenced, FolderExists
  <2>2. /\ folder' = [folder EXCEPT ![f].parent = q.parent, ![f].depth = q.depth]
        /\ folderMoved' = IF folder'[f] = folder[f] THEN folderMoved
                          ELSE folderMoved \cup {f}
        /\ folderReq' \in {FolderDone(r), FolderNoted(FolderDone(r), f, q.parent)}
        /\ UNCHANGED <<folderUsed, filed>>
    BY <1>4 DEF WriteFolder
  <2>3. Continued /\ folderReq' \in [Slots -> FolderRequests \cup {None}]
    BY <2>1, <2>2, ContinuedAfterNoting DEF FolderInv
  <2>4. folder[f] \in FolderRows BY <1>4, <2>1, RowFields DEF FolderInv
  <2>5. /\ folder'[f] = [owner |-> folder[f].owner, parent |-> q.parent, depth |-> q.depth]
        /\ \A g \in Folders : g # f => folder'[g] = folder[g]
        /\ DOMAIN folder' = Folders
    BY <2>1, <2>2, <2>4 DEF FolderInv, FolderTypeOK, FolderRows
  <2>6. folder'[f] \in FolderRows BY <1>2, <2>4, <2>5 DEF FolderRows
  <2>7. folder'[f] # None BY <2>6, NoFolderRow
  <2>8. folderMoved' \subseteq folderUsed BY <2>1, <2>2 DEF FolderInv, FolderTypeOK
  <2>9. FolderTypeOK' BY <2>2, <2>3, <2>6, <2>8 DEF FolderInv, FolderTypeOK
  <2>10. CASE folder'[f] = folder[f]
    <3>1. folder' = folder BY <2>2, <2>5, <2>10 DEF FolderInv, FolderTypeOK
    <3>2. folderMoved' = folderMoved BY <2>2, <2>10
    <3>3. Referenced' /\ DepthTrue'
      BY <2>2, <3>1, <3>2 DEF FolderInv, Referenced, DepthTrue, FolderExists
    <3>4. PromisedDepth'
      <4>1. \A p \in folderUsed : p # None
        BY FoldersAssumption DEF FolderInv, FolderTypeOK
      <4>. QED BY <2>2, <2>3, <3>1, <3>2, <4>1, PromiseStep DEF FolderExists
    <3>. QED BY <2>9, <3>3, <3>4 DEF FolderInv
  <2>11. CASE folder'[f] # folder[f]
    <3>1. folderMoved' = folderMoved \cup {f} BY <2>2, <2>11
    <3>2. PromisedDepth'
      <4>1. \A p \in folderUsed : p # None /\ (p \notin folderMoved' => folder'[p] = folder[p])
        BY <2>5, <3>1, FoldersAssumption DEF FolderInv, FolderTypeOK
      <4>. QED BY <2>2, <2>3, <3>1, <4>1, PromiseStep DEF FolderExists
    <3>3. \A p : FolderExists(p) /\ p \in Folders => folder'[p] # None
      BY <2>5, <2>7 DEF FolderExists
    <3>4. Referenced'
      <4> SUFFICES ASSUME NEW g \in Folders, folder'[g] # None
                   PROVE  /\ g \in folderUsed
                          /\ \/ folder'[g].parent = None
                             \/ folder'[g].parent # None /\ folder'[folder'[g].parent] # None
        BY <2>2 DEF Referenced, FolderExists
      <4>1. CASE g = f
        <5>1. folder'[g].parent = q.parent BY <2>5, <4>1
        <5>2. q.parent # None => FolderExists(q.parent) /\ q.parent \in Folders
          BY <1>2, <1>4 DEF ParentThere
        <5>. QED BY <2>1, <3>3, <4>1, <5>1, <5>2
      <4>2. CASE g # f
        <5>1. folder'[g] = folder[g] /\ FolderExists(g)
          BY <2>5, <4>2, FoldersAssumption DEF FolderExists
        <5>2. /\ g \in folderUsed
              /\ folder[g].parent = None \/ FolderExists(folder[g].parent)
          BY <5>1 DEF FolderInv, Referenced
        <5>3. folder[g].parent \in Folders \cup {None}
          BY <5>1, RowFields DEF FolderInv
        <5>. QED BY <3>3, <5>1, <5>2, <5>3
      <4>. QED BY <4>1, <4>2
    <3>5. DepthTrue'
      <4> SUFFICES ASSUME NEW g \in Folders, folder'[g] # None,
                          folder'[g].parent \in Folders, folder'[g].parent # f,
                          folder'[g].parent \notin folderMoved
                   PROVE  /\ folder'[g].parent # None
                          /\ folder'[folder'[g].parent] # None
                          /\ folder'[g].depth = folder'[folder'[g].parent].depth + 1
        BY <3>1 DEF DepthTrue, FolderExists
      <4>1. CASE g = f
        <5>1. folder'[g].parent = q.parent /\ folder'[g].depth = q.depth BY <2>5, <4>1
        <5>2. FolderExists(q.parent)
          BY <1>4, <5>1, FoldersAssumption DEF ParentThere
        <5>3. q.depth = folder[q.parent].depth + 1
          BY <1>1, <5>1, <5>2 DEF FolderInv, PromisedDepth
        <5>. QED BY <2>5, <5>1, <5>2, <5>3 DEF FolderExists
      <4>2. CASE g # f
        <5>1. folder'[g] = folder[g] /\ FolderExists(g)
          BY <2>5, <4>2, FoldersAssumption DEF FolderExists
        <5>2. /\ FolderExists(folder[g].parent)
              /\ folder[g].depth = folder[folder[g].parent].depth + 1
          BY <5>1 DEF FolderInv, DepthTrue
        <5>. QED BY <2>5, <5>1, <5>2 DEF FolderExists
      <4>. QED BY <4>1, <4>2
    <3>. QED BY <2>9, <3>2, <3>4, <3>5 DEF FolderInv
  <2>. QED BY <2>10, <2>11
<1>. QED BY <1>3, <1>4

LEMMA DeleteStep ==
  ASSUME FolderInv, NEW r \in Slots, DeleteFolderRow(r)
  PROVE  FolderInv'
<1> DEFINE f == folderReq[r].id
<1>1. /\ folder' = [c \in Folders |->
                      IF c = f THEN None
                      ELSE IF c \in ChildrenOf(f) THEN [folder[c] EXCEPT !.parent = None]
                      ELSE folder[c]]
      /\ filed' = [d \in FiledDocs |-> IF filed[d] = f THEN None ELSE filed[d]]
      /\ folderReq' = FolderDone(r)
      /\ UNCHANGED <<folderUsed, folderMoved>>
  BY DEF DeleteFolderRow, DeleteRow, FolderReturn
<1>2. Continued /\ folderReq' \in [Slots -> FolderRequests \cup {None}]
  BY <1>1, DoneRequests DEF FolderInv, Continued
<1>3. ASSUME NEW c \in Folders
      PROVE  \/ c = f /\ folder'[c] = None
             \/ ~FolderExists(c) /\ folder'[c] = None
             \/ /\ c # f /\ FolderExists(c)
                /\ folder'[c] \in FolderRows
                /\ folder'[c] # None
                /\ folder'[c].depth = folder[c].depth
                /\ \/ folder'[c].parent = None
                   \/ folder[c].parent # f /\ folder'[c].parent = folder[c].parent
  <2>1. CASE c = f BY <1>1, <2>1
  <2>2. CASE c # f /\ ~FolderExists(c)
    BY <1>1, <2>2, FoldersAssumption DEF ChildrenOf, FolderExists
  <2>3. CASE c # f /\ FolderExists(c)
    <3>1. folder[c] \in FolderRows BY <2>3, RowFields DEF FolderInv
    <3>2. CASE c \in ChildrenOf(f)
      <4>1. folder'[c] = [folder[c] EXCEPT !.parent = None] BY <1>1, <2>3, <3>2
      <4>2. folder'[c] \in FolderRows /\ folder'[c].parent = None
            /\ folder'[c].depth = folder[c].depth
        BY <3>1, <4>1 DEF FolderRows
      <4>. QED BY <2>3, <4>2, NoFolderRow
    <3>3. CASE c \notin ChildrenOf(f)
      <4>1. folder'[c] = folder[c] BY <1>1, <2>3, <3>3
      <4>2. folder[c].parent # f BY <2>3, <3>3 DEF ChildrenOf
      <4>. QED BY <2>3, <3>1, <4>1, <4>2, NoFolderRow
    <3>. QED BY <3>2, <3>3
  <2>. QED BY <2>1, <2>2, <2>3
<1>4. FolderTypeOK'
  <2>1. folder' \in [Folders -> FolderRows \cup {None}]
    <3>1. \A c \in Folders : folder'[c] \in FolderRows \cup {None} BY <1>3
    <3>. QED BY <1>1, <3>1
  <2>2. filed' \in [FiledDocs -> Folders \cup {None}]
    BY <1>1 DEF FolderInv, FolderTypeOK
  <2>. QED BY <1>1, <1>2, <2>1, <2>2 DEF FolderInv, FolderTypeOK
<1>5. Referenced'
  <2> SUFFICES ASSUME NEW g \in Folders, folder'[g] # None
               PROVE  /\ g \in folderUsed
                      /\ \/ folder'[g].parent = None
                         \/ folder'[g].parent # None /\ folder'[folder'[g].parent] # None
    BY <1>1 DEF Referenced, FolderExists
  <2>1. FolderExists(g) BY <1>3
  <2>2. g \in folderUsed /\ (folder[g].parent = None \/ FolderExists(folder[g].parent))
    BY <2>1 DEF FolderInv, Referenced
  <2>3. CASE folder'[g].parent # None
    <3>1. folder[g].parent # f /\ folder'[g].parent = folder[g].parent BY <1>3, <2>3
    <3>2. folder[g].parent \in Folders BY <2>1, <2>3, <3>1, RowFields DEF FolderInv
    <3>3. folder'[folder[g].parent] # None
      BY <1>3, <2>2, <2>3, <3>1, <3>2 DEF FolderExists
    <3>. QED BY <2>2, <2>3, <3>1, <3>3
  <2>. QED BY <2>2, <2>3
<1>6. DepthTrue'
  <2> SUFFICES ASSUME NEW g \in Folders, folder'[g] # None,
                      folder'[g].parent \in Folders \ folderMoved
               PROVE  /\ folder'[g].parent # None
                      /\ folder'[folder'[g].parent] # None
                      /\ folder'[g].depth = folder'[folder'[g].parent].depth + 1
    BY <1>1 DEF DepthTrue, FolderExists
  <2>1. folder'[g].parent # None BY FoldersAssumption
  <2>2. /\ FolderExists(g) /\ folder'[g].depth = folder[g].depth
        /\ folder[g].parent # f /\ folder'[g].parent = folder[g].parent
    BY <1>3, <2>1
  <2>3. /\ FolderExists(folder[g].parent)
        /\ folder[g].depth = folder[folder[g].parent].depth + 1
    BY <2>2 DEF FolderInv, DepthTrue
  <2>4. /\ folder'[folder[g].parent] # None
        /\ folder'[folder[g].parent].depth = folder[folder[g].parent].depth
    BY <1>3, <2>2, <2>3
  <2>. QED BY <2>1, <2>2, <2>3, <2>4
<1>7. PromisedDepth'
  <2>1. \A p \in folderUsed : folder'[p] # None =>
          FolderExists(p) /\ folder'[p].depth = folder[p].depth
    BY <1>3 DEF FolderInv, FolderTypeOK
  <2>. QED BY <1>1, <1>2, <2>1, PromiseStep
<1>. QED BY <1>4, <1>5, <1>6, <1>7 DEF FolderInv

LEMMA FilingStep ==
  ASSUME FolderInv, FileDocument \/ UnfileDocument
  PROVE  FolderInv'
<1>1. UNCHANGED <<folder, folderUsed, folderMoved>> BY DEF FileDocument, UnfileDocument
<1>2. /\ filed' \in [FiledDocs -> Folders \cup {None}]
      /\ folderReq' \in [Slots -> FolderRequests \cup {None}]
      /\ Continued
  <2>1. CASE FileDocument
    <3>1. PICK d \in FiledDocs, f \in Folders :
            /\ filed' = [filed EXCEPT ![d] = f]
            /\ folderReq' \in {folderReq, FolderNoted(folderReq, d, f)}
      BY <2>1 DEF FileDocument
    <3>2. folderReq \in [Slots -> FolderRequests \cup {None}] BY DEF FolderInv, FolderTypeOK
    <3>3. folderReq' \in [Slots -> FolderRequests \cup {None}] /\ Continued
      BY <3>1, <3>2, NotedRequests DEF Continued
    <3>. QED BY <3>1, <3>3 DEF FolderInv, FolderTypeOK
  <2>2. CASE UnfileDocument
    <3>1. filed' \in [FiledDocs -> Folders \cup {None}]
      BY <2>2 DEF UnfileDocument, FolderInv, FolderTypeOK
    <3>2. folderReq' = folderReq BY <2>2 DEF UnfileDocument
    <3>. QED BY <3>1, <3>2 DEF Continued, FolderInv, FolderTypeOK
  <2>. QED BY <2>1, <2>2
<1>3. FolderTypeOK' BY <1>1, <1>2 DEF FolderInv, FolderTypeOK
<1>4. Referenced' /\ DepthTrue'
  BY <1>1 DEF FolderInv, Referenced, DepthTrue, FolderExists
<1>5. PromisedDepth'
  <2>1. \A p \in folderUsed : p # None
    BY FoldersAssumption DEF FolderInv, FolderTypeOK
  <2>. QED BY <1>1, <1>2, <2>1, PromiseStep DEF FolderExists
<1>. QED BY <1>3, <1>4, <1>5 DEF FolderInv

-----------------------------------------------------------------------------
(* The invariant, and what follows from it *)

LEMMA FolderInvInit == FolderInit => FolderInv
BY DEF FolderInit, FolderInv, FolderTypeOK, Referenced, PromisedDepth, DepthTrue,
       FolderExists

LEMMA FolderInvStep == FolderInv /\ [FolderNext]_folderVars => FolderInv'
<1> SUFFICES ASSUME FolderInv, [FolderNext]_folderVars PROVE FolderInv'
  OBVIOUS
<1>. folderUsed \subseteq Folders BY DEF FolderInv, FolderTypeOK
<1>1. ASSUME NEW r \in Slots, CreateFolder(r) PROVE FolderInv'
  <2>1. PICK u \in Users, p \in folderUsed \cup {None} :
          /\ DepthUnder(p) <= 2
          /\ FolderBegin(r, "create", "write", None, u, p, DepthUnder(p))
    BY <1>1 DEF CreateFolder
  <2>2. DepthUnder(p) \in 0..2 /\ (FolderExists(p) => DepthUnder(p) = folder[p].depth + 1)
    BY <2>1, DepthUnderType DEF FolderInv
  <2>. QED BY <2>1, <2>2, BeginStep
<1>2. ASSUME NEW r \in Slots, UpdateFolder(r) PROVE FolderInv'
  <2>1. PICK u \in Users, f \in Folders, p \in folderUsed \cup {"keep"} :
          /\ OwnFolder(u, f)
          /\ IF p = "keep"
             THEN FolderBegin(r, "update", "write", f, u, folder[f].parent, folder[f].depth)
             ELSE FolderBegin(r, "update", "depth", f, u, p, 0)
    BY <1>2 DEF UpdateFolder
  <2>2. CASE p # "keep" BY <2>1, <2>2, BeginStep
  <2>3. CASE p = "keep"
    <3>1. FolderExists(f) BY <2>1 DEF OwnFolder
    <3>2. folder[f].parent \in folderUsed \cup {None} /\ folder[f].depth \in 0..2
      <4>1. folder[f].parent \in Folders \cup {None} /\ folder[f].depth \in 0..2
        BY <3>1, RowFields DEF FolderInv
      <4>2. folder[f].parent = None \/ FolderExists(folder[f].parent)
        BY <3>1 DEF FolderInv, Referenced
      <4>. QED BY <4>1, <4>2 DEF FolderInv, Referenced
    <3>3. folder[f].parent \in Folders \ folderMoved =>
            folder[f].depth = folder[folder[f].parent].depth + 1
      BY <3>1 DEF FolderInv, DepthTrue
    <3>. QED BY <2>1, <2>3, <3>2, <3>3, BeginStep DEF FolderExists
  <2>. QED BY <2>2, <2>3
<1>3. ASSUME NEW r \in Slots, MoveFolder(r) PROVE FolderInv'
  <2>1. PICK u \in Users, f \in Folders, p \in folderUsed \cup {None} :
          FolderBegin(r, "move", IF p = None THEN "write" ELSE "depth", f, u, p, 0)
    BY <1>3 DEF MoveFolder
  <2>2. CASE p = None BY <2>1, <2>2, BeginStep DEF FolderExists
  <2>3. CASE p # None BY <2>1, <2>3, BeginStep
  <2>. QED BY <2>2, <2>3
<1>4. ASSUME NEW r \in Slots, DeleteFolder(r) PROVE FolderInv'
  <2>1. PICK u \in Users, f \in Folders :
          FolderBegin(r, "delete", "children", f, u, None, 0)
    BY <1>4 DEF DeleteFolder
  <2>. QED BY <2>1, BeginStep
<1>5. ASSUME NEW r \in Slots, FolderAbort(r) PROVE FolderInv'
  BY <1>5, ReturnStep DEF FolderAbort
<1>6. CASE UNCHANGED folderVars
  BY <1>6 DEF folderVars, folderTables, FolderInv, FolderTypeOK, Referenced, PromisedDepth,
              DepthTrue, FolderExists
<1>. QED
  BY <1>1, <1>2, <1>3, <1>4, <1>5, <1>6, InsertStep, ValidateStep, WriteStep, CountStep,
     DeleteStep, FilingStep DEF FolderNext

LEMMA FolderInvHolds == FolderSpec => []FolderInv
BY FolderInvInit, FolderInvStep, PTL DEF FolderSpec

\* The types of Folders' state; in particular no folder and no request ever has
\* a depth outside 0..2, moved folders included.
THEOREM FolderTypes == FolderSpec => []FolderTypeOK
<1>1. FolderInv => FolderTypeOK BY DEF FolderInv
<1>. QED BY <1>1, FolderInvHolds, PTL

\* A folder is one level below its parent unless the parent was itself moved,
\* however creations, moves, renames and deletions overlap.
THEOREM DepthStaysTrue == FolderSpec => []DepthTrue
<1>1. FolderInv => DepthTrue BY DEF FolderInv
<1>. QED BY <1>1, FolderInvHolds, PTL

\* As long as no folder was moved, the tree GetFolderTree reads in two levels of
\* links leaves out nothing below a folder: a depth is at most 2.
THEOREM TreeStaysComplete == FolderSpec => []TreeComplete
<1>1. FolderInv => TreeComplete
  <2> SUFFICES ASSUME FolderInv, folderMoved = {}, NEW f \in Folders, FolderExists(f),
                      NEW c \in TreeOf(f), NEW x \in ChildrenOf(c)
               PROVE  x \in TreeOf(f)
    BY DEF TreeComplete
  <2>1. ASSUME NEW g \in Folders, NEW y \in ChildrenOf(g)
        PROVE  /\ y \in Folders /\ FolderExists(y) /\ FolderExists(g)
               /\ folder[y].depth = folder[g].depth + 1
    <3>1. y \in Folders /\ FolderExists(y) /\ folder[y].parent = g BY DEF ChildrenOf
    <3>. QED BY <3>1 DEF FolderInv, DepthTrue
  <2>2. CASE c = f BY <2>2 DEF TreeOf
  <2>3. CASE c \in ChildrenOf(f) BY <2>3 DEF TreeOf
  <2>4. ASSUME NEW b \in ChildrenOf(f), c \in ChildrenOf(b) PROVE FALSE
    <3>1. b \in Folders /\ FolderExists(b) /\ folder[b].depth = folder[f].depth + 1 BY <2>1
    <3>2. c \in Folders /\ FolderExists(c) /\ folder[c].depth = folder[b].depth + 1
      BY <2>1, <2>4, <3>1
    <3>3. FolderExists(x) /\ x \in Folders /\ folder[x].depth = folder[c].depth + 1
      BY <2>1, <3>2
    <3>4. folder[f].depth \in 0..2 /\ folder[x].depth \in 0..2
      BY <3>3, RowFields DEF FolderInv
    <3>. QED BY <3>1, <3>2, <3>3, <3>4
  <2>. QED BY <2>2, <2>3, <2>4 DEF TreeOf
<1>. QED BY <1>1, FolderInvHolds, PTL

-----------------------------------------------------------------------------
(* What a deletion takes *)

\* A deletion of f that has counted the children, or the documents too.
Deletes(r, f, stages) ==
  folderReq[r] # None /\ folderReq[r].op = "delete" /\ folderReq[r].id = f
    /\ folderReq[r].at \in stages

\* What is in the folder of a deletion that has counted came after the count.
LateTold ==
  \A r \in Slots :
    /\ FolderAt(r, {"delete"}, "write") => folderReq[r].id \in Folders
    /\ FolderAt(r, {"delete"}, "documents") => folderReq[r].id \in Folders
    /\ FolderAt(r, {"delete"}, "children") => folderReq[r].id \in Folders
    /\ \A f \in Folders :
         /\ Deletes(r, f, {"documents", "write"}) =>
              \A c \in ChildrenOf(f) : c \in folderReq[r].late
         /\ Deletes(r, f, {"write"}) => \A d \in DocumentsOf(f) : d \in folderReq[r].late

\* Nothing is put into a folder but x into p, which is noted.
LEMMA LateNoted ==
  ASSUME FolderTypeOK, LateTold, NEW reqs, NEW x, NEW p,
         \A s \in Slots : reqs[s] \in {None, folderReq[s]},
         \/ /\ folderReq' = FolderNoted(reqs, x, p)
            /\ \A f \in Folders, c \in Folders \cup FiledDocs :
                 /\ c \in ChildrenOf(f)' => c \in ChildrenOf(f) \/ (f = p /\ c = x)
                 /\ c \in DocumentsOf(f)' => c \in DocumentsOf(f) \/ (f = p /\ c = x)
         \/ /\ folderReq' = reqs
            /\ \A f \in Folders, c \in Folders \cup FiledDocs :
                 /\ c \in ChildrenOf(f)' => c \in ChildrenOf(f)
                 /\ c \in DocumentsOf(f)' => c \in DocumentsOf(f)
  PROVE  LateTold'
<1> SUFFICES ASSUME NEW s \in Slots
             PROVE  /\ FolderAt(s, {"delete"}, "write")' => folderReq'[s].id \in Folders
                    /\ FolderAt(s, {"delete"}, "documents")' => folderReq'[s].id \in Folders
                    /\ FolderAt(s, {"delete"}, "children")' => folderReq'[s].id \in Folders
                    /\ \A f \in Folders :
                         /\ Deletes(s, f, {"documents", "write"})' =>
                              \A c \in ChildrenOf(f)' : c \in folderReq'[s].late
                         /\ Deletes(s, f, {"write"})' =>
                              \A d \in DocumentsOf(f)' : d \in folderReq'[s].late
  BY DEF LateTold
<1>1. CASE reqs[s] = None
  <2>1. folderReq'[s] = None BY <1>1 DEF FolderNoted
  <2>. QED BY <2>1 DEF FolderAt, Deletes
<1>2. CASE reqs[s] = folderReq[s] /\ folderReq[s] # None
  <2> DEFINE noted == folderReq[s].op = "delete" /\ folderReq[s].at # "children"
                      /\ folderReq[s].id = p
  <2>1. folderReq[s] \in FolderRequests BY <1>2, RequestFields
  <2>2. \/ folderReq'[s] = folderReq[s] /\ folderReq' = reqs
        \/ /\ folderReq' = FolderNoted(reqs, x, p)
           /\ folderReq'[s] = IF noted THEN [folderReq[s] EXCEPT !.late = @ \cup {x}]
                              ELSE folderReq[s]
    <3>1. CASE folderReq' = reqs BY <1>2, <3>1
    <3>2. CASE folderReq' = FolderNoted(reqs, x, p)
      <4>1. FolderNoted(reqs, x, p)[s] = IF noted THEN [folderReq[s] EXCEPT !.late = @ \cup {x}]
                                         ELSE folderReq[s]
        BY <1>2 DEF FolderNoted
      <4>. QED BY <3>2, <4>1
    <3>. QED BY <3>1, <3>2
  <2>3. /\ folderReq'[s].op = folderReq[s].op /\ folderReq'[s].id = folderReq[s].id
        /\ folderReq'[s].at = folderReq[s].at
        /\ \A y : y \in folderReq[s].late => y \in folderReq'[s].late
        /\ noted /\ folderReq' = FolderNoted(reqs, x, p) => x \in folderReq'[s].late
    <3>1. CASE noted /\ folderReq' = FolderNoted(reqs, x, p)
      <4>1. folderReq'[s] = [folderReq[s] EXCEPT !.late = @ \cup {x}]
        BY <1>2, <3>1 DEF FolderNoted
      <4>. QED BY <2>1, <3>1, <4>1 DEF FolderRequests
    <3>2. CASE ~(noted /\ folderReq' = FolderNoted(reqs, x, p))
      BY <1>2, <2>2, <3>2
    <3>. QED BY <3>1, <3>2
  <2>4. ASSUME NEW f \in Folders, Deletes(s, f, {"documents", "write"})',
               NEW c \in ChildrenOf(f)'
        PROVE  c \in folderReq'[s].late
    <3>1. Deletes(s, f, {"documents", "write"}) BY <1>2, <2>3, <2>4 DEF Deletes
    <3>2. \A y \in ChildrenOf(f) : y \in folderReq[s].late BY <3>1 DEF LateTold
    <3>3. c \in Folders BY DEF ChildrenOf
    <3>4. c \in ChildrenOf(f) \/ (f = p /\ c = x /\ folderReq' = FolderNoted(reqs, x, p))
      BY <2>4, <3>3
    <3>. QED BY <2>3, <3>1, <3>2, <3>4 DEF Deletes
  <2>5. ASSUME NEW f \in Folders, Deletes(s, f, {"write"})', NEW d \in DocumentsOf(f)'
        PROVE  d \in folderReq'[s].late
    <3>1. Deletes(s, f, {"write"}) BY <1>2, <2>3, <2>5 DEF Deletes
    <3>2. \A y \in DocumentsOf(f) : y \in folderReq[s].late BY <3>1 DEF LateTold
    <3>3. d \in FiledDocs BY DEF DocumentsOf
    <3>4. d \in DocumentsOf(f) \/ (f = p /\ d = x /\ folderReq' = FolderNoted(reqs, x, p))
      BY <2>5, <3>3
    <3>. QED BY <2>3, <3>1, <3>2, <3>4 DEF Deletes
  <2>. QED BY <1>2, <2>3, <2>4, <2>5 DEF LateTold, FolderAt
<1>. QED BY <1>1, <1>2

\* Nothing is put anywhere, and no deletion goes on.
LEMMA LateKept ==
  ASSUME FolderTypeOK, LateTold, UNCHANGED <<folder, filed>>,
         \A s \in Slots :
           folderReq'[s] = folderReq[s] \/ folderReq'[s] = None \/ folderReq'[s].op # "delete"
  PROVE  LateTold'
<1>1. \A f : ChildrenOf(f)' = ChildrenOf(f) /\ DocumentsOf(f)' = DocumentsOf(f)
  BY DEF ChildrenOf, DocumentsOf, FolderExists
<1> SUFFICES ASSUME NEW s \in Slots
             PROVE  /\ FolderAt(s, {"delete"}, "write")' => folderReq'[s].id \in Folders
                    /\ FolderAt(s, {"delete"}, "documents")' => folderReq'[s].id \in Folders
                    /\ FolderAt(s, {"delete"}, "children")' => folderReq'[s].id \in Folders
                    /\ \A f \in Folders :
                         /\ Deletes(s, f, {"documents", "write"})' =>
                              \A c \in ChildrenOf(f)' : c \in folderReq'[s].late
                         /\ Deletes(s, f, {"write"})' =>
                              \A d \in DocumentsOf(f)' : d \in folderReq'[s].late
  BY DEF LateTold
<1>2. CASE folderReq'[s] = folderReq[s] BY <1>1, <1>2 DEF LateTold, FolderAt, Deletes
<1>3. CASE folderReq'[s] = None \/ folderReq'[s].op # "delete"
  BY <1>3 DEF FolderAt, Deletes
<1>. QED BY <1>2, <1>3

\* A deletion begins, or has counted and found nothing.
LEMMA LateGoesOn ==
  ASSUME FolderTypeOK, LateTold, NEW r \in Slots,
         DeleteFolder(r) \/ CountChildren(r) \/ CountDocuments(r)
  PROVE  LateTold'
<1>1. UNCHANGED <<folder, filed>>
  BY DEF DeleteFolder, FolderBegin, CountChildren, CountDocuments, folderTables
<1>2. \A f : ChildrenOf(f)' = ChildrenOf(f) /\ DocumentsOf(f)' = DocumentsOf(f)
  BY <1>1 DEF ChildrenOf, DocumentsOf, FolderExists
<1>3. CASE FolderReturn(r)
  <2>1. \A s \in Slots : folderReq'[s] \in {None, folderReq[s]}
    BY <1>3, DoneRequests DEF FolderReturn
  <2>. QED BY <1>1, <2>1, LateKept
<1>4. ASSUME NEW at \in {"children", "documents", "write"}, NEW f \in Folders,
             \A s \in Slots \ {r} : folderReq'[s] = folderReq[s],
             folderReq'[r].at = at, folderReq'[r].id = f,
             at \in {"documents", "write"} => \A c \in ChildrenOf(f) : c \in folderReq'[r].late,
             at = "write" => \A d \in DocumentsOf(f) : d \in folderReq'[r].late
      PROVE  LateTold'
  <2> SUFFICES ASSUME NEW s \in Slots
               PROVE  /\ FolderAt(s, {"delete"}, "write")' => folderReq'[s].id \in Folders
                      /\ FolderAt(s, {"delete"}, "documents")' => folderReq'[s].id \in Folders
                      /\ FolderAt(s, {"delete"}, "children")' => folderReq'[s].id \in Folders
                      /\ \A g \in Folders :
                           /\ Deletes(s, g, {"documents", "write"})' =>
                                \A c \in ChildrenOf(g)' : c \in folderReq'[s].late
                           /\ Deletes(s, g, {"write"})' =>
                                \A d \in DocumentsOf(g)' : d \in folderReq'[s].late
    BY DEF LateTold
  <2>1. CASE s = r BY <1>2, <1>4, <2>1 DEF Deletes
  <2>2. CASE s # r
    <3>1. folderReq'[s] = folderReq[s] BY <1>4, <2>2
    <3>. QED BY <1>2, <3>1 DEF LateTold, FolderAt, Deletes
  <2>. QED BY <2>1, <2>2
<1>5. CASE DeleteFolder(r)
  <2>1. PICK f \in Folders, u \in Users :
          folderReq' = [folderReq EXCEPT ![r] =
            [op |-> "delete", at |-> "children", id |-> f, owner |-> u, parent |-> None,
             depth |-> 0, late |-> {}]]
    BY <1>5 DEF DeleteFolder, FolderBegin
  <2>2. /\ \A s \in Slots \ {r} : folderReq'[s] = folderReq[s]
        /\ folderReq'[r].at = "children" /\ folderReq'[r].id = f
    BY <2>1 DEF FolderTypeOK
  <2>. QED BY <1>4, <2>2
<1>6. ASSUME folderReq[r] # None, folderReq[r].op = "delete",
             NEW stage \in {"documents", "write"}, FolderGoto(r, stage)
      PROVE  /\ \A s \in Slots \ {r} : folderReq'[s] = folderReq[s]
             /\ folderReq'[r].at = stage /\ folderReq'[r].id = folderReq[r].id
             /\ folderReq'[r].late = folderReq[r].late
  <2>1. folderReq[r] \in FolderRequests BY <1>6, RequestFields
  <2>2. folderReq' = [folderReq EXCEPT ![r] = [folderReq[r] EXCEPT !.at = stage]]
    BY <1>6 DEF FolderGoto
  <2>3. folderReq'[r] = [folderReq[r] EXCEPT !.at = stage] BY <2>2 DEF FolderTypeOK
  <2>. QED BY <2>1, <2>2, <2>3 DEF FolderTypeOK, FolderRequests
<1>7. CASE CountChildren(r) /\ ~FolderReturn(r)
  <2>1. /\ FolderAt(r, {"delete"}, "children") /\ FolderGoto(r, "documents")
        /\ ChildrenOf(folderReq[r].id) = {}
    BY <1>7 DEF CountChildren
  <2>2. /\ folderReq[r].id \in Folders
        /\ folderReq[r] # None /\ folderReq[r].op = "delete"
    BY <2>1 DEF LateTold, FolderAt
  <2>. QED BY <1>4, <1>6, <2>1, <2>2
<1>8. CASE CountDocuments(r) /\ ~FolderReturn(r)
  <2>1. /\ FolderAt(r, {"delete"}, "documents") /\ FolderGoto(r, "write")
        /\ DocumentsOf(folderReq[r].id) = {}
    BY <1>8 DEF CountDocuments
  <2>2. /\ folderReq[r].id \in Folders
        /\ folderReq[r] # None /\ folderReq[r].op = "delete" /\ folderReq[r].at = "documents"
    BY <2>1 DEF LateTold, FolderAt
  <2>3. \A c \in ChildrenOf(folderReq[r].id) : c \in folderReq[r].late
    BY <2>2 DEF LateTold, Deletes
  <2>. QED BY <1>4, <1>6, <2>1, <2>2, <2>3
<1>. QED BY <1>3, <1>5, <1>7, <1>8

\* A folder is inserted under a parent.
LEMMA LateInserted ==
  ASSUME FolderInv, LateTold, NEW r \in Slots, CreateFolderInsert(r)
  PROVE  LateTold'
<1> DEFINE q == folderReq[r]
<1>1. CASE ~ParentThere(q.parent)
  <2>1. FolderReturn(r) /\ UNCHANGED <<folder, filed>>
    BY <1>1 DEF CreateFolderInsert, folderTables
  <2>2. \A s \in Slots : folderReq'[s] \in {None, folderReq[s]}
    BY <2>1, DoneRequests DEF FolderReturn, FolderInv
  <2>. QED BY <2>1, <2>2, LateKept DEF FolderInv
<1>2. CASE ParentThere(q.parent)
  <2>1. PICK f \in Folders \ folderUsed :
          /\ folder' = [folder EXCEPT ![f] =
               [owner |-> q.owner, parent |-> q.parent, depth |-> q.depth]]
          /\ folderReq' = FolderNoted(FolderDone(r), f, q.parent)
          /\ UNCHANGED filed
    BY <1>2 DEF CreateFolderInsert
  <2>2. \A s \in Slots : FolderDone(r)[s] \in {None, folderReq[s]}
    BY DoneRequests DEF FolderInv
  <2>3. /\ folder'[f].parent = q.parent
        /\ \A g \in Folders : g # f => folder'[g] = folder[g]
    BY <2>1 DEF FolderInv, FolderTypeOK
  <2>4. ASSUME NEW g \in Folders, NEW c \in Folders \cup FiledDocs
        PROVE  /\ c \in ChildrenOf(g)' => c \in ChildrenOf(g) \/ (g = q.parent /\ c = f)
               /\ c \in DocumentsOf(g)' => c \in DocumentsOf(g) \/ (g = q.parent /\ c = f)
    BY <2>1, <2>3 DEF ChildrenOf, DocumentsOf, FolderExists
  <2>. QED BY <2>1, <2>2, <2>4, LateNoted DEF FolderInv
<1>. QED BY <1>1, <1>2

\* A folder is put somewhere else, or back where it is.
LEMMA LateMoved ==
  ASSUME FolderInv, LateTold, NEW r \in Slots, WriteFolder(r)
  PROVE  LateTold'
<1> DEFINE q == folderReq[r]
           f == q.id
<1>1. CASE ~(FolderExists(f) /\ ParentThere(q.parent))
  <2>1. FolderReturn(r) /\ UNCHANGED <<folder, filed>>
    BY <1>1 DEF WriteFolder, folderTables
  <2>2. \A s \in Slots : folderReq'[s] \in {None, folderReq[s]}
    BY <2>1, DoneRequests DEF FolderReturn, FolderInv
  <2>. QED BY <2>1, <2>2, LateKept DEF FolderInv
<1>2. CASE FolderExists(f) /\ ParentThere(q.parent)
  <2>1. /\ folder' = [folder EXCEPT ![f].parent = q.parent, ![f].depth = q.depth]
        /\ folderReq' = IF folder[f].parent = q.parent THEN FolderDone(r)
                        ELSE FolderNoted(FolderDone(r), f, q.parent)
        /\ UNCHANGED filed
    BY <1>2 DEF WriteFolder
  <2>2. f \in Folders
    <3>1. f \in Folders \cup {None} BY RequestFields DEF WriteFolder, FolderAt, FolderInv
    <3>. QED BY <1>2, <3>1 DEF FolderExists
  <2>3. folder[f] \in FolderRows BY <1>2, <2>2, RowFields DEF FolderInv
  <2>4. /\ folder'[f] = [folder[f] EXCEPT !.parent = q.parent, !.depth = q.depth]
        /\ \A g \in Folders : g # f => folder'[g] = folder[g]
    BY <2>1, <2>2 DEF FolderInv, FolderTypeOK
  <2>5. folder'[f].parent = q.parent BY <2>3, <2>4 DEF FolderRows
  <2>6. \A s \in Slots : FolderDone(r)[s] \in {None, folderReq[s]}
    BY DoneRequests DEF FolderInv
  <2>7. ASSUME NEW g \in Folders, NEW c \in Folders \cup FiledDocs
        PROVE  /\ c \in ChildrenOf(g)' => c \in ChildrenOf(g) \/ (g = q.parent /\ c = f)
               /\ folder[f].parent = q.parent /\ c \in ChildrenOf(g)' => c \in ChildrenOf(g)
               /\ c \in DocumentsOf(g)' => c \in DocumentsOf(g)
    BY <1>2, <2>1, <2>4, <2>5 DEF ChildrenOf, DocumentsOf, FolderExists
  <2>. HIDE DEF f, q
  <2>8. CASE folder[f].parent = q.parent
    <3>1. folderReq' = FolderDone(r) BY <2>1, <2>8
    <3>. QED BY <2>6, <2>7, <2>8, <3>1, LateNoted DEF FolderInv
  <2>9. CASE folder[f].parent # q.parent
    <3>1. folderReq' = FolderNoted(FolderDone(r), f, q.parent) BY <2>1, <2>9
    <3>. QED BY <2>6, <2>7, <3>1, LateNoted DEF FolderInv
  <2>. QED BY <2>8, <2>9
<1>. QED BY <1>1, <1>2

\* A folder goes, and with it the places of what is in it.
LEMMA LateTaken ==
  ASSUME FolderInv, LateTold, NEW r \in Slots, DeleteFolderRow(r)
  PROVE  LateTold'
<1> DEFINE f == folderReq[r].id
<1>1. /\ folder' = [c \in Folders |->
                      IF c = f THEN None
                      ELSE IF c \in ChildrenOf(f) THEN [folder[c] EXCEPT !.parent = None]
                      ELSE folder[c]]
      /\ filed' = [d \in FiledDocs |-> IF filed[d] = f THEN None ELSE filed[d]]
      /\ folderReq' = FolderDone(r)
  BY DEF DeleteFolderRow, DeleteRow, FolderReturn
<1>2. \A s \in Slots : FolderDone(r)[s] \in {None, folderReq[s]}
  BY DoneRequests DEF FolderInv
<1>3. ASSUME NEW g \in Folders, NEW c \in ChildrenOf(g)' PROVE c \in ChildrenOf(g)
  <2>1. c \in Folders /\ folder'[c] # None /\ folder'[c].parent = g
    BY DEF ChildrenOf, FolderExists
  <2>2. c # f BY <1>1, <2>1
  <2>3. c \notin ChildrenOf(f)
    <3>1. ASSUME c \in ChildrenOf(f) PROVE FALSE
      <4>1. folder'[c] = [folder[c] EXCEPT !.parent = None] BY <1>1, <2>1, <2>2, <3>1
      <4>2. folder[c] \in FolderRows BY <2>1, <3>1, RowFields DEF FolderInv, ChildrenOf
      <4>3. folder'[c].parent = None BY <4>1, <4>2 DEF FolderRows
      <4>. QED BY <2>1, <4>3, FoldersAssumption
    <3>. QED BY <3>1
  <2>4. folder'[c] = folder[c] BY <1>1, <2>1, <2>2, <2>3
  <2>. QED BY <2>1, <2>4, FoldersAssumption DEF ChildrenOf, FolderExists
<1>4. ASSUME NEW g \in Folders, NEW d \in DocumentsOf(g)' PROVE d \in DocumentsOf(g)
  BY <1>1, FoldersAssumption DEF DocumentsOf
<1>. HIDE DEF f
<1>. QED BY <1>1, <1>2, <1>3, <1>4, LateNoted DEF FolderInv

LEMMA LateFiled ==
  ASSUME FolderInv, LateTold, FileDocument \/ UnfileDocument
  PROVE  LateTold'
<1>1. UNCHANGED folder BY DEF FileDocument, UnfileDocument
<1>2. \A g : ChildrenOf(g)' = ChildrenOf(g) BY <1>1 DEF ChildrenOf, FolderExists
<1>3. CASE FileDocument
  <2>1. PICK d \in FiledDocs, f \in Folders :
          /\ filed' = [filed EXCEPT ![d] = f]
          /\ folderReq' = IF filed[d] = f THEN folderReq ELSE FolderNoted(folderReq, d, f)
    BY <1>3 DEF FileDocument
  <2>2. \A g \in Folders, c \in Folders \cup FiledDocs :
          c \in DocumentsOf(g)' => c \in DocumentsOf(g) \/ (g = f /\ c = d)
    BY <2>1 DEF FolderInv, FolderTypeOK, DocumentsOf
  <2>3. CASE filed[d] = f
    <3>1. folderReq' = folderReq BY <2>1, <2>3
    <3>2. filed' = filed BY <2>1, <2>3 DEF FolderInv, FolderTypeOK
    <3>. QED BY <1>1, <3>1, <3>2, LateKept DEF FolderInv
  <2>4. CASE filed[d] # f
    <3>1. folderReq' = FolderNoted(folderReq, d, f) BY <2>1, <2>4
    <3>. QED BY <1>2, <2>2, <3>1, LateNoted DEF FolderInv
  <2>. QED BY <2>3, <2>4
<1>4. CASE UnfileDocument
  <2>1. folderReq' = folderReq BY <1>4 DEF UnfileDocument
  <2>2. \A g \in Folders, c \in Folders \cup FiledDocs :
          c \in DocumentsOf(g)' => c \in DocumentsOf(g)
    <3>1. PICK d \in FiledDocs : filed' = [filed EXCEPT ![d] = None]
      BY <1>4 DEF UnfileDocument
    <3>. QED BY <3>1, FoldersAssumption DEF FolderInv, FolderTypeOK, DocumentsOf
  <2>. QED BY <1>2, <2>1, <2>2, LateNoted DEF FolderInv
<1>. QED BY <1>3, <1>4

LEMMA LateToldStep == FolderInv /\ LateTold /\ [FolderNext]_folderVars => LateTold'
<1> SUFFICES ASSUME FolderInv, LateTold, [FolderNext]_folderVars PROVE LateTold'
  OBVIOUS
<1>1. ASSUME NEW r \in Slots, CreateFolder(r) \/ UpdateFolder(r) \/ MoveFolder(r)
      PROVE  LateTold'
  <2>1. PICK op, at, f, u, p, d :
          op \in {"create", "update", "move"} /\ FolderBegin(r, op, at, f, u, p, d)
    BY <1>1 DEF CreateFolder, UpdateFolder, MoveFolder
  <2>2. folderReq' = [folderReq EXCEPT ![r] =
          [op |-> op, at |-> at, id |-> f, owner |-> u, parent |-> p, depth |-> d, late |-> {}]]
    BY <2>1 DEF FolderBegin
  <2>3. folderReq'[r].op # "delete" /\ \A s \in Slots \ {r} : folderReq'[s] = folderReq[s]
    BY <2>1, <2>2 DEF FolderInv, FolderTypeOK
  <2>4. UNCHANGED <<folder, filed>> BY <2>1 DEF FolderBegin, folderTables
  <2>. QED BY <2>3, <2>4, LateKept DEF FolderInv
<1>2. ASSUME NEW r \in Slots, ValidateDepth(r) PROVE LateTold'
  <2>1. folderReq[r] # None /\ folderReq[r].op \in {"update", "move"}
    BY <1>2 DEF ValidateDepth, FolderAt
  <2>2. folderReq[r] \in FolderRequests BY <2>1, RequestFields DEF FolderInv
  <2>3. /\ \A s \in Slots \ {r} : folderReq'[s] = folderReq[s]
        /\ folderReq'[r] = None \/ folderReq'[r].op = folderReq[r].op
    <3>1. CASE DepthUnder(folderReq[r].parent) > 2
      BY <1>2, <3>1 DEF ValidateDepth, FolderInv, FolderTypeOK
    <3>2. CASE ~(DepthUnder(folderReq[r].parent) > 2)
      <4> DEFINE q == [folderReq[r] EXCEPT !.at = "write",
                                           !.depth = DepthUnder(folderReq[r].parent)]
      <4>1. folderReq' = [folderReq EXCEPT ![r] = q] BY <1>2, <3>2 DEF ValidateDepth
      <4>2. q.op = folderReq[r].op BY <2>2 DEF FolderRequests
      <4>. HIDE DEF q
      <4>. QED BY <4>1, <4>2 DEF FolderInv, FolderTypeOK
    <3>. QED BY <3>1, <3>2
  <2>4. UNCHANGED <<folder, filed>> BY <1>2 DEF ValidateDepth, folderTables
  <2>. QED BY <2>1, <2>3, <2>4, LateKept DEF FolderInv
<1>3. ASSUME NEW r \in Slots, FolderAbort(r) PROVE LateTold'
  <2>1. \A s \in Slots : folderReq'[s] \in {None, folderReq[s]}
    BY <1>3, DoneRequests DEF FolderAbort, FolderReturn, FolderInv
  <2>2. UNCHANGED <<folder, filed>> BY <1>3 DEF FolderAbort, folderTables
  <2>. QED BY <2>1, <2>2, LateKept DEF FolderInv
<1>4. CASE UNCHANGED folderVars
  BY <1>4, LateKept DEF folderVars, folderTables, FolderInv
<1>5. ASSUME NEW r \in Slots, DeleteFolder(r) \/ CountChildren(r) \/ CountDocuments(r)
      PROVE  LateTold'
  BY <1>5, LateGoesOn DEF FolderInv
<1>. QED
  BY <1>1, <1>2, <1>3, <1>4, <1>5, LateInserted, LateMoved, LateTaken, LateFiled DEF FolderNext

\* A deletion takes from a folder or a document its place only if it was put
\* there after the deletion had looked, however many requests overlap.
THEOREM LossesAreLate == FolderSpec => OnlyLateLost
<1>1. FolderInit => LateTold BY DEF FolderInit, LateTold, FolderAt, Deletes
<1>2. FolderInv /\ LateTold =>
        \A r \in Slots :
          FolderAt(r, {"delete"}, "write") /\ folderReq'[r] = None /\ folder' # folder =>
            ChildrenOf(folderReq[r].id) \cup DocumentsOf(folderReq[r].id) \subseteq folderReq[r].late
  <2> SUFFICES ASSUME LateTold, NEW r \in Slots, FolderAt(r, {"delete"}, "write")
               PROVE  ChildrenOf(folderReq[r].id) \cup DocumentsOf(folderReq[r].id)
                        \subseteq folderReq[r].late
    OBVIOUS
  <2>1. folderReq[r].id \in Folders BY DEF LateTold
  <2>2. Deletes(r, folderReq[r].id, {"write"}) /\ Deletes(r, folderReq[r].id, {"documents", "write"})
    BY DEF FolderAt, Deletes
  <2>. QED BY <2>1, <2>2 DEF LateTold
<1>. QED BY <1>1, <1>2, FolderInvInit, FolderInvStep, LateToldStep, PTL DEF FolderSpec, OnlyLateLost
=============================================================================
