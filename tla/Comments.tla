------------------------------ MODULE Comments ------------------------------
(***************************************************************************)
(* Comments under one story, chapter or submission (internal/feature/      *)
(* comment): a tree whose nesting is limited to three, with a stored depth.*)
(*                                                                         *)
(* Each action is one SQL statement of a request, with the code around it. *)
(* The bulk operations are one statement each.  Editing, deleting or       *)
(* moderating a single comment is left out: it looks the comment up with   *)
(* an empty entity type, which the enum refuses, and so changes nothing.   *)
(* A cached comment is never the answer of a read, since Get reports an    *)
(* error also for an entry it found.  A parent under another entity is one *)
(* of the refusals of CommentAbort, and so are contents that are not JSON. *)
(***************************************************************************)
EXTENDS Requests, Integers

CONSTANTS
  CommentIds,  \* identities of comments
  Marks        \* moderation marks: is_archived, is_resolved, is_pinned

ASSUME CommentsAssumption == None \notin CommentIds

VARIABLES
  comment,      \* table comment: id |-> row, or None
  commentReq,   \* requests in flight: replies
  commentLate,  \* history: replies inserted after their parent was deleted
  commentBlind  \* history: replies whose parent's depth was not read

commentTables == <<comment, commentLate, commentBlind>>
commentVars == <<commentTables, commentReq>>

CommentRows == [parent: CommentIds \cup {None}, depth: 0..2, deleted: BOOLEAN,
                marks: SUBSET Marks]
CommentStages == {"nesting", "depth", "insert", "blind"}
CommentRequests == [at: CommentStages, parent: CommentIds, depth: 0..2]

ASSUME NoCommentRow == None \notin CommentRows \cup CommentRequests

CommentTypeOK ==
  /\ comment \in [CommentIds -> CommentRows \cup {None}]
  /\ commentReq \in [Slots -> CommentRequests \cup {None}]
  /\ commentLate \subseteq CommentIds
  /\ commentBlind \subseteq CommentIds

CommentInit ==
  /\ comment = [c \in CommentIds |-> None]
  /\ commentReq = [r \in Slots |-> None]
  /\ commentLate = {}
  /\ commentBlind = {}

-----------------------------------------------------------------------------
(* Statements *)

CommentExists(c) == c # None /\ comment[c] # None
\* GetCommentByID of a comment that is not deleted.
CommentLive(c) == CommentExists(c) /\ ~comment[c].deleted

\* The parent of c; rows are never removed, so it is there.
ParentOf(c) == comment[c].parent

\* A mutant of NestedThrice: one level more.
NestedFourTimes(c) ==
  ParentOf(c) # None /\ ParentOf(ParentOf(c)) # None
  /\ ParentOf(ParentOf(ParentOf(c))) # None

\* GetCommentNestingDepth(c) >= 3: the query counts c and what it is below of,
\* deleted comments included.
NestedThrice(c) == ParentOf(c) # None /\ ParentOf(ParentOf(c)) # None

CommentRow(p, depth) == [parent |-> p, depth |-> depth, deleted |-> FALSE, marks |-> {}]

\* blind: the depth of the parent was not read.
InsertComment(p, depth, blind) ==
  \E c \in CommentIds :
    /\ ~CommentExists(c)
    /\ comment' = [comment EXCEPT ![c] = CommentRow(p, depth)]
    /\ commentLate' = IF p # None /\ comment[p].deleted THEN commentLate \cup {c}
                      ELSE commentLate
    /\ commentBlind' = IF blind THEN commentBlind \cup {c} ELSE commentBlind

CommentAt(r, stage) == commentReq[r] # None /\ commentReq[r].at = stage
CommentReturn(r) == commentReq' = [commentReq EXCEPT ![r] = None]
CommentGoto(r, stage, depth) ==
  commentReq' = [commentReq EXCEPT ![r] =
    [at |-> stage, parent |-> commentReq[r].parent, depth |-> depth]]

-----------------------------------------------------------------------------
(* Operations *)

\* Create without a parent: nothing is read first.
CreateComment == InsertComment(None, 0, FALSE) /\ UNCHANGED commentReq

\* Create with a parent reads it a first time.
ReplyToComment(r) ==
  \E p \in CommentIds :
    /\ commentReq[r] = None
    /\ CommentLive(p)
    /\ commentReq' = [commentReq EXCEPT ![r] = [at |-> "nesting", parent |-> p, depth |-> 0]]
    /\ UNCHANGED commentTables

\* The nesting query begins with a row that is not deleted: it counts nothing
\* below a parent deleted by now.
CheckNesting(r) ==
  /\ CommentAt(r, "nesting")
  /\ LET p == commentReq[r].parent
     IN  IF CommentLive(p) /\ NestedThrice(p) THEN CommentReturn(r)
         ELSE CommentGoto(r, "depth", 0)
  /\ UNCHANGED commentTables

\* A mutant of ReadDepth: the parent's depth is taken over.
ReadDepthOfParent(r) ==
  /\ CommentAt(r, "depth")
  /\ LET p == commentReq[r].parent
     IN  \/ CommentLive(p) /\ CommentGoto(r, "insert", comment[p].depth)
         \/ CommentGoto(r, "blind", 0)
  /\ UNCHANGED commentTables

\* The parent is read again for its depth.  Every error of that read is ignored,
\* of a parent deleted by now and of a live one: the depth stays 0.
ReadDepth(r) ==
  /\ CommentAt(r, "depth")
  /\ LET p == commentReq[r].parent
     IN  \/ CommentLive(p) /\ CommentGoto(r, "insert", comment[p].depth + 1)
         \/ CommentGoto(r, "blind", 0)
  /\ UNCHANGED commentTables

InsertReply(r) ==
  /\ CommentAt(r, "insert") \/ CommentAt(r, "blind")
  /\ InsertComment(commentReq[r].parent, commentReq[r].depth, commentReq[r].at = "blind")
  /\ CommentReturn(r)

\* BulkDelete: whoever asks; a deleted comment never returns.
BulkDelete ==
  \E ids \in SUBSET CommentIds :
    /\ comment' = [c \in CommentIds |->
                     IF c \in ids /\ CommentExists(c) THEN [comment[c] EXCEPT !.deleted = TRUE]
                     ELSE comment[c]]
    /\ UNCHANGED <<commentLate, commentBlind, commentReq>>

\* BulkArchive, BulkResolve and BulkPin set a mark, BulkUnpin removes one.
BulkMark ==
  \E ids \in SUBSET CommentIds, m \in Marks :
    /\ comment' = [c \in CommentIds |->
                     IF c \in ids /\ CommentExists(c)
                     THEN [comment[c] EXCEPT !.marks = @ \cup {m}] ELSE comment[c]]
    /\ UNCHANGED <<commentLate, commentBlind, commentReq>>

BulkUnpin ==
  \E ids \in SUBSET CommentIds :
    /\ comment' = [c \in CommentIds |->
                     IF c \in ids /\ CommentExists(c)
                     THEN [comment[c] EXCEPT !.marks = @ \ {"pinned"}] ELSE comment[c]]
    /\ UNCHANGED <<commentLate, commentBlind, commentReq>>

\* A statement fails, the client goes away, or the process stops.
CommentAbort(r) == commentReq[r] # None /\ CommentReturn(r) /\ UNCHANGED commentTables

CommentNext ==
  \/ \E r \in Slots :
       \/ ReplyToComment(r) \/ CheckNesting(r) \/ ReadDepth(r) \/ InsertReply(r)
       \/ CommentAbort(r)
  \/ CreateComment
  \/ BulkDelete
  \/ BulkMark
  \/ BulkUnpin

CommentSpec == CommentInit /\ [][CommentNext]_commentVars

-----------------------------------------------------------------------------
(* Properties *)

\* The stored depth of a reply is its parent's plus one, however requests and
\* deletions overlap between the reads and the insert.  Only a reply whose
\* request did not get its parent's depth, because the parent was deleted by
\* then or because the read failed, is stored like a root.
ReplyDepth ==
  \A c \in CommentIds : CommentExists(c) =>
    comment[c].depth = IF ParentOf(c) = None \/ c \in commentBlind THEN 0
                       ELSE comment[ParentOf(c)].depth + 1

\* Nothing is nested more than three deep, except a reply whose parent was
\* deleted while it was being written: the query then counts nothing.
NestingBound ==
  \A c \in CommentIds \ commentLate :
    CommentExists(c) /\ ParentOf(c) # None =>
      LET p == ParentOf(c)
      IN  ParentOf(p) = None \/ ParentOf(ParentOf(p)) = None
=============================================================================
