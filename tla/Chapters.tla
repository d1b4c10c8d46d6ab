------------------------------ MODULE Chapters ------------------------------
(***************************************************************************)
(* Chapters of one story (internal/feature/chapter): their order and their *)
(* publication.                                                            *)
(*                                                                         *)
(* Each action is one SQL statement of a request, with the code around it. *)
(* Titles, words and the chapter number are left out: a refused number is  *)
(* one of the failures of ChapterAbort, and words are not counted by the   *)
(* code.  No operation checks who asks.                                    *)
(***************************************************************************)
EXTENDS Requests, Integers, FiniteSetsExt

CONSTANTS
  ChapterIds,  \* identities of chapters
  MaxOrder,    \* bound: highest sort order
  MaxViews     \* bound: highest count of views

ASSUME ChaptersAssumption ==
  MaxOrder \in Nat /\ MaxViews \in Nat /\ None \notin ChapterIds \cup Int

VARIABLES
  chapter,     \* table chapter: id |-> row, or None
  chapterReq,  \* requests in flight
  chapterFixed \* history: a chapter's publication and views when publishing,
               \* unpublishing or a view last set one of them while no edit
               \* was in flight; None after an edit that
               \* sets the publication, or a change during an edit

chapterVars == <<chapter, chapterReq, chapterFixed>>

Orders == 0..MaxOrder
\* published is the column is_published, dated: published_at is set.
ChapterRows == [order: Orders, published: BOOLEAN, dated: BOOLEAN, deleted: BOOLEAN,
                views: 0..MaxViews]
\* What the client may ask: an order of its own, a publication mark, or not.
ChapterForms == [order: Orders \cup {None}, published: BOOLEAN \cup {None}]
\* A request: insert has its order, and as history the orders it was computed
\* from; write holds the row it will write and whether the client asked for its
\* publication; reorder and delete have found their chapter.
ChapterRequests ==
  [op: {"insert"}, order: Orders, published: BOOLEAN,
   seen: [ChapterIds -> Orders \cup {None}] \cup {None}]
  \cup [op: {"write"}, id: ChapterIds, row: ChapterRows, publishes: BOOLEAN]
  \cup [op: {"reorder"}, id: ChapterIds, order: Orders]
  \cup [op: {"delete"}, id: ChapterIds]

ASSUME NoChapterRow == None \notin ChapterRows \cup ChapterRequests \cup BOOLEAN

ChapterTypeOK ==
  /\ chapter \in [ChapterIds -> ChapterRows \cup {None}]
  /\ chapterReq \in [Slots -> ChapterRequests \cup {None}]
  /\ chapterFixed \in [ChapterIds -> [published: BOOLEAN, views: 0..MaxViews] \cup {None}]

ChapterInit ==
  /\ chapter = [c \in ChapterIds |-> None]
  /\ chapterReq = [r \in Slots |-> None]
  /\ chapterFixed = [c \in ChapterIds |-> None]

-----------------------------------------------------------------------------
(* Statements *)

ChapterExists(c) == chapter[c] # None
\* GetChapterByID.
ChapterLive(c) == ChapterExists(c) /\ ~chapter[c].deleted

\* UNIQUE (story_id, sort_order): deleted rows keep their order.
OrderFree(c, order) ==
  \A other \in ChapterIds \ {c} : ChapterExists(other) => chapter[other].order # order

\* A mutant of NextSortOrder: without the one.
LastSortOrder ==
  LET live == {c \in ChapterIds : ChapterLive(c)}
  IN  IF live = {} THEN 0 ELSE Max({chapter[c].order : c \in live})

\* GetNextChapterSortOrder: the maximum of the chapters not deleted, plus one.
NextSortOrder ==
  LET live == {c \in ChapterIds : ChapterLive(c)}
  IN  IF live = {} THEN 0 ELSE Max({chapter[c].order : c \in live}) + 1

ChapterBegin(r, request) ==
  /\ chapterReq[r] = None
  /\ chapterReq' = [chapterReq EXCEPT ![r] = request]
  /\ UNCHANGED <<chapter, chapterFixed>>
ChapterAt(r, op) == chapterReq[r] # None /\ chapterReq[r].op = op
ChapterReturn(r) == chapterReq' = [chapterReq EXCEPT ![r] = None]

\* A mutant of ChapterDeletedRow: a deletion unpublishes.
ChapterHiddenRow(c) == [chapter[c] EXCEPT !.deleted = TRUE, !.published = FALSE, !.dated = FALSE]

\* What the UPDATE statements make of row c, WHERE id = $1 only.
PublishedRow(c) == [chapter[c] EXCEPT !.published = TRUE, !.dated = TRUE]
UnpublishedRow(c) == [chapter[c] EXCEPT !.published = FALSE, !.dated = FALSE]
ViewedRow(c) == [chapter[c] EXCEPT !.views = @ + 1]
ReorderedRow(c, order) == [chapter[c] EXCEPT !.order = order]
ChapterDeletedRow(c) == [chapter[c] EXCEPT !.deleted = TRUE]
ChapterUpdatedRow(c, row) == [row EXCEPT !.deleted = chapter[c].deleted]
ChapterInsertedRow(order, published) ==
  [order |-> order, published |-> published, dated |-> published, deleted |-> FALSE,
   views |-> 0]

\* A statement of PublishChapter, UnpublishChapter or IncrementView.
ChapterFix(c, new) ==
  /\ chapter' = [chapter EXCEPT ![c] = new]
  /\ chapterFixed' = [chapterFixed EXCEPT ![c] =
       IF \E r \in Slots : ChapterAt(r, "write") /\ chapterReq[r].id = c THEN None
       ELSE [published |-> new.published, views |-> new.views]]
  /\ UNCHANGED chapterReq

-----------------------------------------------------------------------------
(* Operations *)

\* CreateChapter: the order given, or the next one, which a statement reads.
CreateChapter(r) ==
  \E form \in ChapterForms :
    LET order == IF form.order = None THEN NextSortOrder ELSE form.order
    IN  /\ order \in Orders
        /\ ChapterBegin(r, [op |-> "insert", order |-> order,
             published |-> form.published = TRUE,
             seen |-> IF form.order # None THEN None
                      ELSE [c \in ChapterIds |-> IF ChapterLive(c) THEN chapter[c].order
                                                 ELSE None]])

\* The insert: the unique key refuses an order that is taken.
InsertChapter(r) ==
  /\ ChapterAt(r, "insert")
  /\ ChapterReturn(r)
  /\ LET q == chapterReq[r]
     IN  \E c \in ChapterIds :
           /\ ~ChapterExists(c)
           /\ chapter' = IF OrderFree(c, q.order)
                         THEN [chapter EXCEPT ![c] =
                                ChapterInsertedRow(q.order, q.published)]
                         ELSE chapter
  /\ UNCHANGED chapterFixed

\* A mutant of ChapterEdited: unpublishing keeps the date.
ChapterEditedDated(read, form) ==
  [read EXCEPT
     !.order = IF form.order = None THEN @ ELSE form.order,
     !.published = IF form.published = None THEN @ ELSE form.published,
     !.dated = @ \/ form.published = TRUE]

\* The row UpdateChapter writes: what it read with what the form gives.
\* Publishing keeps a publication date that was read.
ChapterEdited(read, form) ==
  [read EXCEPT
     !.order = IF form.order = None THEN @ ELSE form.order,
     !.published = IF form.published = None THEN @ ELSE form.published,
     !.dated = CASE form.published = None -> @
                 [] form.published = TRUE -> TRUE
                 [] form.published = FALSE -> FALSE]

UpdateChapter(r) ==
  \E c \in ChapterIds, form \in ChapterForms :
    /\ ChapterLive(c)
    /\ ChapterBegin(r, [op |-> "write", id |-> c, publishes |-> form.published # None,
                        row |-> ChapterEdited(chapter[c], form)])

WriteChapter(r) ==
  /\ ChapterAt(r, "write")
  /\ ChapterReturn(r)
  /\ LET q == chapterReq[r]
         new == ChapterUpdatedRow(q.id, q.row)
     IN  IF OrderFree(q.id, new.order)
         THEN /\ chapter' = [chapter EXCEPT ![q.id] = new]
              /\ chapterFixed' = [chapterFixed EXCEPT ![q.id] =
                   IF q.publishes THEN None ELSE @]
         ELSE UNCHANGED <<chapter, chapterFixed>>

\* DeleteChapter sets deleted_at only.
DeleteChapter(r) ==
  \E c \in ChapterIds : ChapterLive(c) /\ ChapterBegin(r, [op |-> "delete", id |-> c])

WriteChapterDeletion(r) ==
  /\ ChapterAt(r, "delete")
  /\ ChapterReturn(r)
  /\ LET c == chapterReq[r].id IN chapter' = [chapter EXCEPT ![c] = ChapterDeletedRow(c)]
  /\ UNCHANGED chapterFixed

\* PublishChapter and UnpublishChapter: one statement each, also on a deleted row.
PublishChapter == \E c \in ChapterIds : ChapterExists(c) /\ ChapterFix(c, PublishedRow(c))

UnpublishChapter == \E c \in ChapterIds : ChapterExists(c) /\ ChapterFix(c, UnpublishedRow(c))

ReorderChapter(r) ==
  \E c \in ChapterIds, order \in Orders :
    ChapterLive(c) /\ ChapterBegin(r, [op |-> "reorder", id |-> c, order |-> order])

WriteOrder(r) ==
  /\ ChapterAt(r, "reorder")
  /\ ChapterReturn(r)
  /\ LET q == chapterReq[r]
     IN  chapter' = IF OrderFree(q.id, q.order)
                    THEN [chapter EXCEPT ![q.id] = ReorderedRow(q.id, q.order)] ELSE chapter
  /\ UNCHANGED chapterFixed

\* IncrementView.
ViewChapter ==
  \E c \in ChapterIds :
    /\ ChapterExists(c)
    /\ chapter[c].views < MaxViews
    /\ ChapterFix(c, ViewedRow(c))

\* A statement fails, the client goes away, or the process stops.
ChapterAbort(r) ==
  chapterReq[r] # None /\ ChapterReturn(r) /\ UNCHANGED <<chapter, chapterFixed>>

ChapterNext ==
  \/ \E r \in Slots :
       \/ CreateChapter(r) \/ InsertChapter(r) \/ UpdateChapter(r) \/ WriteChapter(r)
       \/ DeleteChapter(r) \/ WriteChapterDeletion(r)
       \/ ReorderChapter(r) \/ WriteOrder(r) \/ ChapterAbort(r)
  \/ PublishChapter
  \/ UnpublishChapter
  \/ ViewChapter

ChapterSpec == ChapterInit /\ [][ChapterNext]_chapterVars

-----------------------------------------------------------------------------
(* Properties *)

\* However publishing, unpublishing and edits overlap, a chapter has a
\* publication date exactly when it is published: every statement that writes
\* one column writes the other, and an edit writes the pair it read.
PublishedIsDated ==
  \A c \in ChapterIds : ChapterExists(c) => (chapter[c].published <=> chapter[c].dated)

\* A publication or a view that was recorded while no edit was in flight stays
\* until an edit is asked to change the publication or the next one is
\* recorded: an edit undoes only what happens between its read and its write.
ChapterFixedStands ==
  \A c \in ChapterIds : chapterFixed[c] # None =>
    chapter[c].published = chapterFixed[c].published /\ chapter[c].views = chapterFixed[c].views

\* A chapter created without an order of its own is refused only because of a
\* deleted chapter, which keeps its order, or of one that took the order after
\* the maximum was read.
RefusedOnlyByRace ==
  [][\A r \in Slots :
       /\ ChapterAt(r, "insert")
       /\ chapterReq'[r] = None
       /\ chapterReq[r].seen # None
       /\ ~OrderFree(None, chapterReq[r].order)
       => \E c \in ChapterIds :
            /\ ChapterExists(c)
            /\ chapter[c].order = chapterReq[r].order
            /\ chapter[c].deleted \/ chapterReq[r].seen[c] # chapterReq[r].order]_chapterVars
=============================================================================
