--------------------------- MODULE CommentsProofs ---------------------------
(***************************************************************************)
(* Proofs about Comments: the types, ReplyDepth and NestingBound hold for  *)
(* every number of comments and of overlapping requests.                   *)
(* Neither property is inductive: a reply is written from what its request *)
(* found two statements before.  The invariant says what a request in      *)
(* flight may still rely on (RepliesInFlight): its parent is there, since  *)
(* rows are never removed; it is not nested too deep, since a row's parent *)
(* never changes; and only its deletion, which is final, makes the nesting *)
(* query count nothing.  The depth it found is still the parent's plus     *)
(* one, unless the read failed.                                            *)
(***************************************************************************)
EXTENDS Comments, TLAPS

\* A parent is a comment that exists.
ParentsThere ==
  \A c \in CommentIds : CommentExists(c) =>
    ParentOf(c) = None \/ CommentExists(ParentOf(c))

\* A request past the nesting query has a parent that was deleted or has at
\* most one comment above it; a request that will insert has the depth below
\* its parent, or none where the read failed.
RepliesInFlight ==
  \A r \in Slots : commentReq[r] # None =>
    LET p == commentReq[r].parent
    IN  /\ CommentExists(p)
        /\ commentReq[r].at # "nesting" => comment[p].deleted \/ ~NestedThrice(p)
        /\ commentReq[r].at = "insert" => commentReq[r].depth = comment[p].depth + 1
        /\ commentReq[r].at = "blind" => commentReq[r].depth = 0

\* A reply noted as blind has been inserted.
BlindThere == \A c \in commentBlind : CommentExists(c)

CommentInv ==
  CommentTypeOK /\ ParentsThere /\ BlindThere /\ RepliesInFlight /\ ReplyDepth /\ NestingBound

LEMMA CommentFields ==
  ASSUME NEW c \in CommentIds, CommentTypeOK, CommentExists(c)
  PROVE  /\ c # None
         /\ comment[c] \in CommentRows
         /\ comment[c].parent \in CommentIds \cup {None}
         /\ comment[c].depth \in 0..2
         /\ comment[c].deleted \in BOOLEAN
         /\ comment[c].marks \in SUBSET Marks
BY DEF CommentTypeOK, CommentRows, CommentExists

LEMMA ReplyFields ==
  ASSUME NEW r \in Slots, CommentTypeOK, commentReq[r] # None
  PROVE  /\ commentReq[r] \in CommentRequests
         /\ commentReq[r].at \in CommentStages
         /\ commentReq[r].parent \in CommentIds
         /\ commentReq[r].depth \in 0..2
BY DEF CommentTypeOK, CommentRequests

-----------------------------------------------------------------------------
(* Steps that only move a request *)

\* The request table changes in r alone, and to something the invariant admits.
LEMMA RequestStep ==
  ASSUME CommentInv, UNCHANGED commentTables, NEW r \in Slots,
         NEW q \in CommentRequests \cup {None},
         commentReq' = [commentReq EXCEPT ![r] = q],
         q # None =>
           /\ CommentExists(q.parent)
           /\ q.at # "nesting" => comment[q.parent].deleted \/ ~NestedThrice(q.parent)
           /\ q.at = "insert" => q.depth = comment[q.parent].depth + 1
           /\ q.at = "blind" => q.depth = 0
  PROVE  CommentInv'
<1>1. UNCHANGED <<comment, commentLate, commentBlind>> BY DEF commentTables
<1>2. CommentTypeOK' BY <1>1 DEF CommentInv, CommentTypeOK
<1>3. ParentsThere' /\ BlindThere' /\ ReplyDepth' /\ NestingBound'
  BY <1>1 DEF CommentInv, ParentsThere, BlindThere, ReplyDepth, NestingBound, CommentExists,
              ParentOf
<1>4. RepliesInFlight'
  <2> SUFFICES ASSUME NEW s \in Slots, commentReq'[s] # None
               PROVE  /\ CommentExists(commentReq'[s].parent)
                      /\ commentReq'[s].at # "nesting" =>
                           \/ comment[commentReq'[s].parent].deleted
                           \/ ~NestedThrice(commentReq'[s].parent)
                      /\ commentReq'[s].at = "insert" =>
                           commentReq'[s].depth = comment[commentReq'[s].parent].depth + 1
                      /\ commentReq'[s].at = "blind" => commentReq'[s].depth = 0
    BY <1>1 DEF RepliesInFlight, CommentExists, NestedThrice, ParentOf
  <2>1. CASE s = r
    <3>1. commentReq'[s] = q BY <2>1 DEF CommentInv, CommentTypeOK
    <3>. QED BY <3>1
  <2>2. CASE s # r
    <3>1. commentReq'[s] = commentReq[s] BY <2>2 DEF CommentInv, CommentTypeOK
    <3>. QED BY <3>1 DEF CommentInv, RepliesInFlight
  <2>. QED BY <2>1, <2>2
<1>. QED BY <1>2, <1>3, <1>4 DEF CommentInv

LEMMA ReplyStep ==
  ASSUME CommentInv, NEW r \in Slots, ReplyToComment(r) PROVE CommentInv'
<1>1. PICK p \in CommentIds :
        /\ CommentLive(p)
        /\ commentReq' = [commentReq EXCEPT ![r] = [at |-> "nesting", parent |-> p, depth |-> 0]]
        /\ UNCHANGED commentTables
  BY DEF ReplyToComment
<1> DEFINE q == [at |-> "nesting", parent |-> p, depth |-> 0]
<1>2. q \in CommentRequests BY DEF CommentRequests, CommentStages
<1>3. CommentExists(q.parent) /\ q.at = "nesting" BY <1>1 DEF CommentLive
<1>. QED BY <1>1, <1>2, <1>3, RequestStep

LEMMA CommentReturnStep ==
  ASSUME CommentInv, NEW r \in Slots, CommentReturn(r), UNCHANGED commentTables
  PROVE  CommentInv'
BY RequestStep DEF CommentReturn

\* A request goes on with the same parent, another stage and depth.
LEMMA GotoStep ==
  ASSUME CommentInv, UNCHANGED commentTables, NEW r \in Slots, commentReq[r] # None,
         NEW stage \in {"depth", "insert", "blind"}, NEW depth \in 0..2,
         CommentGoto(r, stage, depth),
         \/ comment[commentReq[r].parent].deleted
         \/ ~NestedThrice(commentReq[r].parent),
         stage = "insert" => depth = comment[commentReq[r].parent].depth + 1,
         stage = "blind" => depth = 0
  PROVE  CommentInv'
<1> DEFINE q == [at |-> stage, parent |-> commentReq[r].parent, depth |-> depth]
<1>1. commentReq[r].parent \in CommentIds BY ReplyFields DEF CommentInv
<1>2. q \in CommentRequests BY <1>1 DEF CommentRequests, CommentStages
<1>3. CommentExists(commentReq[r].parent) BY DEF CommentInv, RepliesInFlight
<1>4. commentReq' = [commentReq EXCEPT ![r] = q] BY DEF CommentGoto
<1>5. q.parent = commentReq[r].parent /\ q.at = stage /\ q.depth = depth OBVIOUS
<1> HIDE DEF q
<1>6. /\ CommentExists(q.parent)
      /\ comment[q.parent].deleted \/ ~NestedThrice(q.parent)
      /\ q.at = "insert" => q.depth = comment[q.parent].depth + 1
      /\ q.at = "blind" => q.depth = 0
  BY <1>3, <1>5
<1>. QED BY <1>2, <1>4, <1>6, RequestStep

LEMMA NestingStep ==
  ASSUME CommentInv, NEW r \in Slots, CheckNesting(r) PROVE CommentInv'
<1> DEFINE p == commentReq[r].parent
<1>1. commentReq[r] # None /\ UNCHANGED commentTables BY DEF CheckNesting, CommentAt
<1>2. CommentExists(p) BY <1>1 DEF CommentInv, RepliesInFlight
<1>3. CASE CommentLive(p) /\ NestedThrice(p)
  BY <1>1, <1>3, CommentReturnStep DEF CheckNesting
<1>4. CASE ~(CommentLive(p) /\ NestedThrice(p))
  <2>1. CommentGoto(r, "depth", 0) BY <1>4 DEF CheckNesting
  <2>2. comment[p].deleted \/ ~NestedThrice(p) BY <1>2, <1>4 DEF CommentLive
  <2>. QED BY <1>1, <2>1, <2>2, GotoStep
<1>. QED BY <1>3, <1>4

\* A comment that is not nested too deep for a reply has depth at most one.
LEMMA ReplyFits ==
  ASSUME CommentInv, NEW p \in CommentIds, CommentExists(p), ~NestedThrice(p)
  PROVE  comment[p].depth \in 0..1
<1>1. comment[p].depth \in 0..2 /\ ParentOf(p) \in CommentIds \cup {None}
  BY CommentFields DEF CommentInv, ParentOf
<1>2. CASE ParentOf(p) = None \/ p \in commentBlind BY <1>2 DEF CommentInv, ReplyDepth
<1>3. CASE ParentOf(p) # None /\ p \notin commentBlind
  <2>1. ParentOf(p) \in CommentIds /\ CommentExists(ParentOf(p))
    BY <1>1, <1>3 DEF CommentInv, ParentsThere
  <2>2. ParentOf(ParentOf(p)) = None BY <1>3 DEF NestedThrice
  <2>3. comment[ParentOf(p)].depth = 0 BY <2>1, <2>2 DEF CommentInv, ReplyDepth
  <2>4. comment[p].depth = 0 + 1 BY <1>3, <2>3 DEF CommentInv, ReplyDepth
  <2>. QED BY <2>4
<1>. QED BY <1>2, <1>3

LEMMA DepthStep ==
  ASSUME CommentInv, NEW r \in Slots, ReadDepth(r) PROVE CommentInv'
<1> DEFINE p == commentReq[r].parent
<1>1. commentReq[r] # None /\ commentReq[r].at = "depth" /\ UNCHANGED commentTables
  BY DEF ReadDepth, CommentAt
<1>2. p \in CommentIds BY <1>1, ReplyFields DEF CommentInv
<1>3. CommentExists(p) /\ (comment[p].deleted \/ ~NestedThrice(p))
  BY <1>1 DEF CommentInv, RepliesInFlight
<1>4. CASE CommentLive(p) /\ CommentGoto(r, "insert", comment[p].depth + 1)
  <2>1. comment[p].depth \in 0..1 BY <1>2, <1>3, <1>4, ReplyFits DEF CommentLive
  <2>2. comment[p].depth + 1 \in 0..2 BY <2>1
  <2>. QED BY <1>1, <1>3, <1>4, <2>2, GotoStep
<1>5. CASE CommentGoto(r, "blind", 0)
  BY <1>1, <1>3, <1>5, GotoStep
<1>. QED BY <1>4, <1>5 DEF ReadDepth

-----------------------------------------------------------------------------
(* Steps on the table *)

\* What every step does with the comments there are: they stay, with their
\* parent and depth, and a deleted one stays deleted.
Kept ==
  \A c \in CommentIds : CommentExists(c) =>
    /\ CommentExists(c)'
    /\ comment'[c].parent = comment[c].parent
    /\ comment'[c].depth = comment[c].depth
    /\ comment[c].deleted => comment'[c].deleted

\* Requests, and comments that were there, keep what the invariant says of them.
LEMMA KeptStands ==
  ASSUME CommentInv, Kept, commentLate \subseteq commentLate',
         \A c \in CommentIds :
           CommentExists(c) => (c \in commentBlind' <=> c \in commentBlind),
         \A r \in Slots : commentReq'[r] \in {None, commentReq[r]}
  PROVE  /\ RepliesInFlight'
         /\ \A c \in CommentIds : CommentExists(c) =>
              /\ ParentOf(c)' = None \/ CommentExists(ParentOf(c))'
              /\ comment'[c].depth = IF ParentOf(c)' = None \/ c \in commentBlind' THEN 0
                                     ELSE comment'[ParentOf(c)'].depth + 1
              /\ c \notin commentLate' /\ ParentOf(c)' # None =>
                   \/ ParentOf(ParentOf(c))' = None
                   \/ ParentOf(ParentOf(ParentOf(c)))' = None
<1>1. ASSUME NEW c \in CommentIds, CommentExists(c)
      PROVE  /\ ParentOf(c) \in CommentIds \cup {None}
             /\ ParentOf(c)' = ParentOf(c)
             /\ comment'[c].depth = comment[c].depth
             /\ ParentOf(c) # None =>
                  ParentOf(c) \in CommentIds /\ CommentExists(ParentOf(c))
  BY <1>1, CommentFields DEF Kept, ParentOf, CommentInv, ParentsThere
<1>2. RepliesInFlight'
  <2> SUFFICES ASSUME NEW r \in Slots, commentReq'[r] # None
               PROVE  /\ commentReq'[r].parent # None
                      /\ comment'[commentReq'[r].parent] # None
                      /\ commentReq'[r].at # "nesting" =>
                           \/ comment'[commentReq'[r].parent].deleted
                           \/ comment'[commentReq'[r].parent].parent = None
                           \/ comment'[comment'[commentReq'[r].parent].parent].parent = None
                      /\ commentReq'[r].at = "insert" =>
                           commentReq'[r].depth = comment'[commentReq'[r].parent].depth + 1
                      /\ commentReq'[r].at = "blind" => commentReq'[r].depth = 0
    BY DEF RepliesInFlight, CommentExists, NestedThrice, ParentOf
  <2>1. commentReq'[r] = commentReq[r] /\ commentReq[r] # None OBVIOUS
  <2>2. PICK p \in CommentIds : p = commentReq[r].parent
    BY <2>1, ReplyFields DEF CommentInv
  <2>3. /\ CommentExists(p)
        /\ commentReq[r].at # "nesting" => comment[p].deleted \/ ~NestedThrice(p)
        /\ commentReq[r].at = "insert" => commentReq[r].depth = comment[p].depth + 1
        /\ commentReq[r].at = "blind" => commentReq[r].depth = 0
    BY <2>1, <2>2 DEF CommentInv, RepliesInFlight
  <2>4. CommentExists(p)' /\ (comment[p].deleted => comment'[p].deleted)
    BY <2>2, <2>3 DEF Kept
  <2>5. comment'[p].depth = comment[p].depth BY <1>1, <2>2, <2>3
  <2>6. ~NestedThrice(p) =>
          comment'[p].parent = None \/ comment'[comment'[p].parent].parent = None
    <3>1. comment'[p].parent = ParentOf(p) BY <1>1, <2>2, <2>3 DEF ParentOf
    <3>2. ASSUME ParentOf(p) # None
          PROVE  comment'[ParentOf(p)].parent = comment[ParentOf(p)].parent
      BY <1>1, <2>2, <2>3, <3>2 DEF Kept
    <3>. QED BY <3>1, <3>2 DEF NestedThrice, ParentOf
  <2>. QED BY <2>1, <2>2, <2>3, <2>4, <2>5, <2>6 DEF CommentExists
<1>3. ASSUME NEW c \in CommentIds, CommentExists(c)
      PROVE  /\ ParentOf(c)' = None \/ CommentExists(ParentOf(c))'
             /\ comment'[c].depth = IF ParentOf(c)' = None \/ c \in commentBlind' THEN 0
                                    ELSE comment'[ParentOf(c)'].depth + 1
             /\ c \notin commentLate' /\ ParentOf(c)' # None =>
                  \/ ParentOf(ParentOf(c))' = None
                  \/ ParentOf(ParentOf(ParentOf(c)))' = None
  <2>1. CASE ParentOf(c) = None BY <1>1, <1>3, <2>1 DEF CommentInv, ReplyDepth
  <2>2. CASE ParentOf(c) # None
    <3> DEFINE p == ParentOf(c)
    <3>1. p \in CommentIds /\ CommentExists(p) /\ ParentOf(c)' = p BY <1>1, <1>3, <2>2
    <3>2. CommentExists(p)' BY <3>1 DEF Kept
    <3>3. comment'[p].depth = comment[p].depth BY <1>1, <3>1
    <3>4. comment[c].depth = IF c \in commentBlind THEN 0 ELSE comment[p].depth + 1
      BY <1>3, <2>2 DEF CommentInv, ReplyDepth
    <3>5. ParentOf(ParentOf(c))' = ParentOf(p)
      <4>1. ParentOf(ParentOf(c))' = comment'[p].parent BY <3>1 DEF ParentOf
      <4>. QED BY <3>1, <4>1 DEF Kept, ParentOf
    <3>6. ASSUME c \notin commentLate', ParentOf(p) # None
          PROVE  ParentOf(ParentOf(ParentOf(c)))' = None
      <4>1. ParentOf(ParentOf(p)) = None
        BY <1>3, <2>2, <3>6 DEF CommentInv, NestingBound
      <4>2. ParentOf(p) \in CommentIds /\ CommentExists(ParentOf(p)) BY <1>1, <3>1, <3>6
      <4>3. ParentOf(ParentOf(ParentOf(c)))' = comment'[ParentOf(p)].parent
        BY <3>5 DEF ParentOf
      <4>. QED BY <4>1, <4>2, <4>3 DEF Kept, ParentOf
    <3>7. comment'[c].depth = comment[c].depth BY <1>1, <1>3
    <3>8. comment'[c].depth = IF c \in commentBlind' THEN 0
                              ELSE comment'[ParentOf(c)'].depth + 1
      BY <1>3, <3>1, <3>3, <3>4, <3>7
    <3>. QED BY <2>2, <3>1, <3>2, <3>5, <3>6, <3>8
  <2>. QED BY <2>1, <2>2
<1>. QED BY <1>2, <1>3

\* BulkDelete, BulkMark and BulkUnpin: the deletion or a mark of some rows
\* changes, and nothing else of them.
LEMMA BulkRows ==
  ASSUME CommentInv, BulkDelete \/ BulkMark \/ BulkUnpin
  PROVE  /\ UNCHANGED <<commentLate, commentBlind, commentReq>>
         /\ comment' \in [CommentIds -> CommentRows \cup {None}]
         /\ \A c \in CommentIds :
              \/ comment'[c] = comment[c]
              \/ /\ CommentExists(c)
                 /\ comment'[c] \in CommentRows
                 /\ comment'[c].parent = comment[c].parent
                 /\ comment'[c].depth = comment[c].depth
                 /\ comment[c].deleted => comment'[c].deleted
<1>1. CASE BulkDelete
  <2>1. PICK ids \in SUBSET CommentIds :
          comment' = [c \in CommentIds |->
                        IF c \in ids /\ CommentExists(c) THEN [comment[c] EXCEPT !.deleted = TRUE]
                        ELSE comment[c]]
    BY <1>1 DEF BulkDelete
  <2>2. ASSUME NEW c \in CommentIds, CommentExists(c)
        PROVE  LET row == [comment[c] EXCEPT !.deleted = TRUE]
               IN  /\ row \in CommentRows
                   /\ row.parent = comment[c].parent /\ row.depth = comment[c].depth
                   /\ row.deleted
    BY <2>2, CommentFields DEF CommentInv, CommentRows
  <2>3. comment' \in [CommentIds -> CommentRows \cup {None}]
    BY <2>1, <2>2 DEF CommentInv, CommentTypeOK
  <2>. QED BY <1>1, <2>1, <2>2, <2>3 DEF BulkDelete
<1>2. CASE BulkMark
  <2>1. PICK ids \in SUBSET CommentIds, m \in Marks :
          comment' = [c \in CommentIds |->
                        IF c \in ids /\ CommentExists(c)
                        THEN [comment[c] EXCEPT !.marks = @ \cup {m}] ELSE comment[c]]
    BY <1>2 DEF BulkMark
  <2>2. ASSUME NEW c \in CommentIds, CommentExists(c)
        PROVE  LET row == [comment[c] EXCEPT !.marks = @ \cup {m}]
               IN  /\ row \in CommentRows
                   /\ row.parent = comment[c].parent /\ row.depth = comment[c].depth
                   /\ row.deleted = comment[c].deleted
    BY <2>2, CommentFields DEF CommentInv, CommentRows
  <2>3. comment' \in [CommentIds -> CommentRows \cup {None}]
    BY <2>1, <2>2 DEF CommentInv, CommentTypeOK
  <2>. QED BY <1>2, <2>1, <2>2, <2>3 DEF BulkMark
<1>3. CASE BulkUnpin
  <2>1. PICK ids \in SUBSET CommentIds :
          comment' = [c \in CommentIds |->
                        IF c \in ids /\ CommentExists(c)
                        THEN [comment[c] EXCEPT !.marks = @ \ {"pinned"}] ELSE comment[c]]
    BY <1>3 DEF BulkUnpin
  <2>2. ASSUME NEW c \in CommentIds, CommentExists(c)
        PROVE  LET row == [comment[c] EXCEPT !.marks = @ \ {"pinned"}]
               IN  /\ row \in CommentRows
                   /\ row.parent = comment[c].parent /\ row.depth = comment[c].depth
                   /\ row.deleted = comment[c].deleted
    BY <2>2, CommentFields DEF CommentInv, CommentRows
  <2>3. comment' \in [CommentIds -> CommentRows \cup {None}]
    BY <2>1, <2>2 DEF CommentInv, CommentTypeOK
  <2>. QED BY <1>3, <2>1, <2>2, <2>3 DEF BulkUnpin
<1>. QED BY <1>1, <1>2, <1>3

LEMMA BulkStep ==
  ASSUME CommentInv, BulkDelete \/ BulkMark \/ BulkUnpin PROVE CommentInv'
<1>1. /\ UNCHANGED <<commentLate, commentBlind, commentReq>>
      /\ comment' \in [CommentIds -> CommentRows \cup {None}]
  BY BulkRows
<1>2. CommentTypeOK' BY <1>1 DEF CommentInv, CommentTypeOK
<1>3. Kept BY BulkRows, NoCommentRow DEF Kept, CommentExists
<1>4. \A c \in CommentIds : CommentExists(c)' => CommentExists(c)
  BY BulkRows DEF CommentExists
<1>5. ParentsThere'
  BY <1>1, <1>3, <1>4, KeptStands DEF ParentsThere
<1>6. ReplyDepth' BY <1>1, <1>3, <1>4, KeptStands DEF ReplyDepth
<1>7. NestingBound' BY <1>1, <1>3, <1>4, KeptStands DEF NestingBound
<1>8. RepliesInFlight' BY <1>1, <1>3, KeptStands
<1>9. BlindThere'
  BY <1>1, <1>3 DEF BlindThere, CommentInv, CommentTypeOK, Kept
<1>. QED BY <1>2, <1>5, <1>6, <1>7, <1>8, <1>9 DEF CommentInv

\* A comment is inserted: under a parent that is there and that was deleted or
\* is not nested too deep, with the depth below it, or blindly with none.
LEMMA CommentInsertStep ==
  ASSUME CommentInv, NEW p \in CommentIds \cup {None}, NEW depth \in 0..2,
         NEW blind \in BOOLEAN, InsertComment(p, depth, blind),
         commentReq' \in [Slots -> CommentRequests \cup {None}],
         \A r \in Slots : commentReq'[r] \in {None, commentReq[r]},
         p = None => depth = 0,
         p # None =>
           /\ CommentExists(p)
           /\ comment[p].deleted \/ ~NestedThrice(p)
           /\ depth = IF blind THEN 0 ELSE comment[p].depth + 1
  PROVE  CommentInv'
<1>1. PICK c \in CommentIds :
        /\ ~CommentExists(c)
        /\ comment' = [comment EXCEPT ![c] = CommentRow(p, depth)]
        /\ commentLate' = IF p # None /\ comment[p].deleted THEN commentLate \cup {c}
                          ELSE commentLate
        /\ commentBlind' = IF blind THEN commentBlind \cup {c} ELSE commentBlind
  BY DEF InsertComment
<1> DEFINE row == CommentRow(p, depth)
<1>2. /\ row \in CommentRows /\ row.parent = p /\ row.depth = depth
  BY DEF CommentRow, CommentRows
<1> HIDE DEF row
<1>3. comment'[c] = row /\ \A d \in CommentIds \ {c} : comment'[d] = comment[d]
  BY <1>1 DEF CommentInv, CommentTypeOK, row
<1>4. CommentTypeOK'
  BY <1>1, <1>2 DEF CommentInv, CommentTypeOK, row
<1>5. Kept
  <2> SUFFICES ASSUME NEW d \in CommentIds, CommentExists(d)
               PROVE  CommentExists(d)' /\ comment'[d] = comment[d]
    BY DEF Kept
  <2>. QED BY <1>1, <1>3 DEF CommentExists
<1>6. /\ commentLate \subseteq commentLate'
      /\ \A d \in CommentIds : CommentExists(d) => (d \in commentBlind' <=> d \in commentBlind)
  BY <1>1
<1>7. \A d \in CommentIds : CommentExists(d)' => d = c \/ CommentExists(d)
  BY <1>3 DEF CommentExists
<1>8. CommentExists(c)' /\ ParentOf(c)' = p /\ comment'[c].depth = depth
  BY <1>2, <1>3, NoCommentRow, CommentsAssumption DEF CommentExists, ParentOf
<1>9. ASSUME p # None
      PROVE  /\ p \in CommentIds /\ p # c /\ CommentExists(p)'
             /\ comment'[p] = comment[p]
  BY <1>1, <1>3, <1>5, <1>9 DEF Kept, CommentExists
<1>10. ParentsThere'
  <2>1. ParentOf(c)' = None \/ CommentExists(ParentOf(c))'
    <3>1. CASE p = None BY <1>8, <3>1
    <3>2. CASE p # None
      <4>1. CommentExists(p)' BY <1>9, <3>2
      <4>. QED BY <1>8, <4>1 DEF CommentExists
    <3>. QED BY <3>1, <3>2
  <2>. QED BY <1>5, <1>6, <1>7, <2>1, KeptStands DEF ParentsThere
<1>11. ReplyDepth'
  <2>1. comment'[c].depth = IF ParentOf(c)' = None \/ c \in commentBlind' THEN 0
                            ELSE comment'[ParentOf(c)'].depth + 1
    <3>1. CASE p = None BY <1>8, <3>1
    <3>2. CASE p # None
      <4>1. c \in commentBlind' <=> blind BY <1>1 DEF CommentInv, BlindThere
      <4>2. comment'[ParentOf(c)'].depth = comment[p].depth BY <1>8, <1>9, <3>2
      <4>. QED BY <1>8, <3>2, <4>1, <4>2
    <3>. QED BY <3>1, <3>2
  <2>. QED BY <1>5, <1>6, <1>7, <2>1, KeptStands DEF ReplyDepth
<1>12. NestingBound'
  <2>1. ASSUME c \notin commentLate', p # None
        PROVE  ParentOf(ParentOf(c))' = None \/ ParentOf(ParentOf(ParentOf(c)))' = None
    <3>1. ~NestedThrice(p) BY <1>1, <2>1
    <3>2. ParentOf(ParentOf(c))' = ParentOf(p)
      <4>1. ParentOf(ParentOf(c))' = comment'[p].parent BY <1>8 DEF ParentOf
      <4>. QED BY <1>9, <2>1, <4>1 DEF ParentOf
    <3>3. ASSUME ParentOf(p) # None PROVE ParentOf(ParentOf(ParentOf(c)))' = None
      <4>1. ParentOf(ParentOf(p)) = None BY <3>1, <3>3 DEF NestedThrice
      <4>2. ParentOf(p) \in CommentIds /\ CommentExists(ParentOf(p))
        BY <1>9, <2>1, <3>3, CommentFields DEF CommentInv, ParentsThere, ParentOf
      <4>3. ParentOf(ParentOf(ParentOf(c)))' = comment'[ParentOf(p)].parent
        BY <3>2 DEF ParentOf
      <4>. QED BY <4>1, <4>2, <4>3, <1>5 DEF Kept, ParentOf
    <3>. QED BY <3>2, <3>3
  <2>. QED BY <1>5, <1>6, <1>7, <1>8, <2>1, KeptStands DEF NestingBound
<1>13. RepliesInFlight' BY <1>5, <1>6, KeptStands
<1>14. BlindThere'
  <2> SUFFICES ASSUME NEW d \in commentBlind' PROVE CommentExists(d)' BY DEF BlindThere
  <2>1. CASE d = c BY <1>8, <2>1
  <2>2. CASE d # c
    <3>1. d \in commentBlind BY <1>1, <2>2
    <3>2. d \in CommentIds /\ CommentExists(d)
      BY <3>1 DEF CommentInv, CommentTypeOK, BlindThere
    <3>. QED BY <1>5, <3>2 DEF Kept
  <2>. QED BY <2>1, <2>2
<1>. QED BY <1>4, <1>10, <1>11, <1>12, <1>13, <1>14 DEF CommentInv

-----------------------------------------------------------------------------
(* The invariant and the theorems *)

LEMMA CommentInvInit == CommentInit => CommentInv
BY DEF CommentInit, CommentInv, CommentTypeOK, ParentsThere, BlindThere, RepliesInFlight,
       ReplyDepth, NestingBound, CommentExists

LEMMA CommentInvStep == CommentInv /\ [CommentNext]_commentVars => CommentInv'
<1> SUFFICES ASSUME CommentInv, [CommentNext]_commentVars PROVE CommentInv'
  OBVIOUS
<1>1. CASE CreateComment
  <2>1. InsertComment(None, 0, FALSE) /\ commentReq' = commentReq BY <1>1 DEF CreateComment
  <2>2. /\ commentReq' \in [Slots -> CommentRequests \cup {None}]
        /\ \A r \in Slots : commentReq'[r] \in {None, commentReq[r]}
    BY <2>1 DEF CommentInv, CommentTypeOK
  <2>3. FALSE \in BOOLEAN /\ 0 \in 0..2 /\ None \in CommentIds \cup {None} OBVIOUS
  <2>. QED BY <2>1, <2>2, <2>3, CommentInsertStep
<1>2. ASSUME NEW r \in Slots, InsertReply(r) PROVE CommentInv'
  <2> DEFINE blind == commentReq[r].at = "blind"
  <2>1. /\ commentReq[r] # None /\ commentReq[r].at \in {"insert", "blind"}
        /\ InsertComment(commentReq[r].parent, commentReq[r].depth, blind)
        /\ commentReq' = [commentReq EXCEPT ![r] = None]
    BY <1>2 DEF InsertReply, CommentAt, CommentReturn
  <2>2. commentReq[r].parent \in CommentIds /\ commentReq[r].depth \in 0..2
    BY <2>1, ReplyFields DEF CommentInv
  <2>3. /\ CommentExists(commentReq[r].parent)
        /\ \/ comment[commentReq[r].parent].deleted
           \/ ~NestedThrice(commentReq[r].parent)
        /\ commentReq[r].depth = IF blind THEN 0 ELSE comment[commentReq[r].parent].depth + 1
    BY <2>1 DEF CommentInv, RepliesInFlight
  <2>4. /\ commentReq' \in [Slots -> CommentRequests \cup {None}]
        /\ \A s \in Slots : commentReq'[s] \in {None, commentReq[s]}
    BY <2>1 DEF CommentInv, CommentTypeOK
  <2>5. commentReq[r].parent # None BY <2>3 DEF CommentExists
  <2>6. blind \in BOOLEAN OBVIOUS
  <2> HIDE DEF blind
  <2>. QED BY <2>1, <2>2, <2>3, <2>4, <2>5, <2>6, CommentInsertStep
<1>3. ASSUME NEW r \in Slots, CommentAbort(r) PROVE CommentInv'
  BY <1>3, CommentReturnStep DEF CommentAbort
<1>4. CASE UNCHANGED commentVars
  BY <1>4 DEF commentVars, commentTables, CommentInv, CommentTypeOK, ParentsThere,
              BlindThere, RepliesInFlight, ReplyDepth, NestingBound, CommentExists,
              NestedThrice, ParentOf
<1>. QED
  BY <1>1, <1>2, <1>3, <1>4, ReplyStep, NestingStep, DepthStep, BulkStep DEF CommentNext

LEMMA CommentInvHolds == CommentSpec => []CommentInv
BY CommentInvInit, CommentInvStep, PTL DEF CommentSpec

\* A reply is stored one level below its parent, unless its request did not get
\* the parent's depth: then it is stored like a root.
THEOREM ReplyDepthHolds == CommentSpec => []ReplyDepth
<1>1. CommentInv => ReplyDepth BY DEF CommentInv
<1>. QED BY <1>1, CommentInvHolds, PTL

\* No comment is nested more than three deep, with the same exception, however
\* many replies to one thread are written at the same time.
THEOREM NestingStaysBounded == CommentSpec => []NestingBound
<1>1. CommentInv => NestingBound BY DEF CommentInv
<1>. QED BY <1>1, CommentInvHolds, PTL

\* The types of Comments' state; in particular no reply ever has a depth above 2.
THEOREM CommentTypes == CommentSpec => []CommentTypeOK
<1>1. CommentInv => CommentTypeOK BY DEF CommentInv
<1>. QED BY <1>1, CommentInvHolds, PTL
=============================================================================
