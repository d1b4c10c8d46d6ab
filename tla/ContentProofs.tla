---------------------------- MODULE ContentProofs ---------------------------
(***************************************************************************)
(* Proofs about Stories, Chapters, Reports and Cache, for every number of  *)
(* stories, chapters, reports, cached rows and overlapping requests.  Each *)
(* part has an invariant that adds to the properties what the requests in  *)
(* flight will still write: a request writes a row it read earlier, so it  *)
(* must be known how that row relates to the one in the table by then.     *)
(* At the end, the composition that is model-checked is shown to be every  *)
(* part's specification, also of the parts proved in their own modules.    *)
(***************************************************************************)
EXTENDS MCContent, FoldersProofs, DocumentsProofs, CommentsProofs, FilesProofs,
        FiniteSetTheorems, WellFoundedInduction, TLAPS

(* Stories *)

\* Nothing belongs to a story that was not created, not even a request.
StoriesFresh ==
  \A s \in StoryIds : ~StoryExists(s) =>
    storyGenre[s] = {} /\ \A r \in Slots : ~OnStory(r, s)

\* A story deleted for good is deleted, and no update will bring it back.
GoneForGood ==
  \A s \in storyGone :
    /\ StoryExists(s)
    /\ story[s].deleted
    /\ \A r \in Slots : OnStory(r, s) => storyReq[r].at # "write"

\* A request that is alone has the story to itself: what it added so far and
\* what is left are together what it was given.
AloneKnows ==
  \A r \in Slots : storyReq[r] # None /\ storyReq[r].alone =>
    /\ \A q \in Slots \ {r} : ~OnStory(q, storyReq[r].id)
    /\ storyReq[r].at \in {"write", "clear"} => storyReq[r].todo = storyReq[r].genres
    /\ storyReq[r].at = "add" =>
         storyGenre[storyReq[r].id] \cup storyReq[r].todo = storyReq[r].genres

StoryInv == StoryTypeOK /\ StoriesFresh /\ GoneForGood /\ AloneKnows

LEMMA StoryRequestFields ==
  ASSUME NEW r \in Slots, StoryTypeOK, storyReq[r] # None
  PROVE  /\ storyReq[r] \in StoryRequests
         /\ storyReq[r].at \in {"write", "delete", "clear", "add"}
         /\ storyReq[r].id \in StoryIds
         /\ storyReq[r].row \in StoryRows
         /\ storyReq[r].genres \in SUBSET Genres
         /\ storyReq[r].todo \in SUBSET Genres
BY DEF StoryTypeOK, StoryRequests

LEMMA StoryRowNotNone == ASSUME NEW row \in StoryRows PROVE row # None
BY NoStoryRow

\* What the request table is after a request began.
LEMMA StoryBeginStep ==
  ASSUME StoryTypeOK, NEW r \in Slots, NEW s \in StoryIds, NEW row \in StoryRows,
         NEW stage \in {"write", "delete", "clear", "add"}, NEW regenre \in BOOLEAN,
         NEW genres \in SUBSET Genres, StoryBegin(r, stage, s, row, regenre, genres)
  PROVE  /\ storyReq[r] = None
         /\ storyReq' \in [Slots -> StoryRequests \cup {None}]
         /\ storyReq'[r].at = stage /\ storyReq'[r].id = s
         /\ storyReq'[r].genres = genres /\ storyReq'[r].todo = genres
         /\ storyReq'[r].alone => \A q \in Slots : ~OnStory(q, s)
         /\ \A q \in Slots \ {r} :
              /\ storyReq'[q] = None <=> storyReq[q] = None
              /\ storyReq[q] # None =>
                   /\ storyReq'[q].at = storyReq[q].at /\ storyReq'[q].id = storyReq[q].id
                   /\ storyReq'[q].genres = storyReq[q].genres
                   /\ storyReq'[q].todo = storyReq[q].todo
                   /\ storyReq'[q].alone => storyReq[q].alone /\ storyReq[q].id # s
<1> DEFINE single == \A other \in Slots : ~OnStory(other, s)
           request == [at |-> stage, id |-> s, row |-> row, regenre |-> regenre,
                       genres |-> genres, todo |-> genres, alone |-> single]
<1>1. /\ storyReq[r] = None
      /\ storyReq' = [q \in Slots |->
           IF q = r THEN request
           ELSE IF OnStory(q, s) THEN [storyReq[q] EXCEPT !.alone = FALSE] ELSE storyReq[q]]
  BY DEF StoryBegin
<1>2. single \in BOOLEAN OBVIOUS
<1>3. (single <=> TRUE) => \A q \in Slots : ~OnStory(q, s) OBVIOUS
<1> HIDE DEF single
<1>4. /\ request \in StoryRequests
      /\ request.at = stage /\ request.id = s /\ request.genres = genres
      /\ request.todo = genres /\ request.alone = single
  BY <1>2 DEF StoryRequests
<1> HIDE DEF request
<1>5. ASSUME NEW q \in Slots, storyReq[q] # None
      PROVE  LET lone == [storyReq[q] EXCEPT !.alone = FALSE]
             IN  /\ lone \in StoryRequests
                 /\ lone.at = storyReq[q].at /\ lone.id = storyReq[q].id
                 /\ lone.genres = storyReq[q].genres /\ lone.todo = storyReq[q].todo
                 /\ lone.alone = FALSE
  BY <1>5, StoryRequestFields DEF StoryRequests
<1>6. storyReq' \in [Slots -> StoryRequests \cup {None}]
  BY <1>1, <1>4, <1>5 DEF StoryTypeOK, OnStory
<1>7. storyReq'[r] = request BY <1>1
<1>8. ASSUME NEW q \in Slots \ {r}
      PROVE  /\ storyReq'[q] = None <=> storyReq[q] = None
             /\ storyReq[q] # None =>
                  /\ storyReq'[q].at = storyReq[q].at /\ storyReq'[q].id = storyReq[q].id
                  /\ storyReq'[q].genres = storyReq[q].genres
                  /\ storyReq'[q].todo = storyReq[q].todo
                  /\ storyReq'[q].alone => storyReq[q].alone /\ storyReq[q].id # s
  <2>1. CASE storyReq[q] # None /\ storyReq[q].id = s
    BY <1>1, <1>5, <2>1, NoStoryRow DEF OnStory
  <2>2. CASE ~(storyReq[q] # None /\ storyReq[q].id = s)
    <3>1. storyReq'[q] = storyReq[q] BY <1>1, <2>2 DEF OnStory
    <3>. QED BY <2>2, <3>1
  <2>. QED BY <2>1, <2>2
<1>. QED BY <1>1, <1>3, <1>4, <1>6, <1>7, <1>8

\* CreateStory: the first request for a story that was never there.
LEMMA StoryCreateStep ==
  ASSUME StoryInv, NEW r \in Slots, CreateStory(r) PROVE StoryInv'
<1>1. PICK s \in StoryIds, u \in Users, genres \in SUBSET Genres :
        /\ ~StoryExists(s)
        /\ StoryBegin(r, "add", s, [owner |-> u, status |-> "draft", deleted |-> FALSE],
                      TRUE, genres)
        /\ story' = [story EXCEPT ![s] = [owner |-> u, status |-> "draft", deleted |-> FALSE]]
        /\ UNCHANGED <<storyGenre, storyGone>>
  BY DEF CreateStory
<1> DEFINE row == [owner |-> u, status |-> "draft", deleted |-> FALSE]
<1>2. row \in StoryRows /\ row # None
  <2>1. row \in StoryRows BY DEF StoryRows, StoryStatuses
  <2>. QED BY <2>1, NoStoryRow
<1> HIDE DEF row
<1>3. PICK regenre \in BOOLEAN :
        /\ StoryBegin(r, "add", s, row, regenre, genres)
        /\ story' = [story EXCEPT ![s] = row]
  BY <1>1 DEF row
<1>4. /\ storyReq[r] = None
      /\ storyReq' \in [Slots -> StoryRequests \cup {None}]
      /\ storyReq'[r].at = "add" /\ storyReq'[r].id = s
      /\ storyReq'[r].genres = genres /\ storyReq'[r].todo = genres
      /\ \A q \in Slots \ {r} :
           /\ storyReq'[q] = None <=> storyReq[q] = None
           /\ storyReq[q] # None =>
                /\ storyReq'[q].at = storyReq[q].at /\ storyReq'[q].id = storyReq[q].id
                /\ storyReq'[q].genres = storyReq[q].genres
                /\ storyReq'[q].todo = storyReq[q].todo
                /\ storyReq'[q].alone => storyReq[q].alone /\ storyReq[q].id # s
  BY <1>2, <1>3, StoryBeginStep DEF StoryInv
<1>5. /\ story'[s] = row /\ \A x \in StoryIds \ {s} : story'[x] = story[x]
      /\ story' \in [StoryIds -> StoryRows \cup {None}]
  BY <1>2, <1>3 DEF StoryInv, StoryTypeOK
<1>6. \A x \in StoryIds : StoryExists(x)' <=> x = s \/ StoryExists(x)
  BY <1>2, <1>5 DEF StoryExists
<1>7. storyGenre[s] = {} /\ \A q \in Slots : ~OnStory(q, s)
  BY <1>1 DEF StoryInv, StoriesFresh
<1>8. StoryTypeOK' BY <1>1, <1>4, <1>5 DEF StoryInv, StoryTypeOK
<1>9. \A q \in Slots \ {r}, x \in StoryIds : OnStory(q, x)' <=> OnStory(q, x)
  BY <1>4 DEF OnStory
<1>10. \A x \in StoryIds \ {s} : ~OnStory(r, x)' BY <1>4 DEF OnStory
<1>11. StoriesFresh' BY <1>1, <1>6, <1>9, <1>10 DEF StoryInv, StoriesFresh
<1>12. GoneForGood'
  <2>1. s \notin storyGone BY <1>1 DEF StoryInv, GoneForGood
  <2>2. storyGone \subseteq StoryIds BY DEF StoryInv, StoryTypeOK
  <2> SUFFICES ASSUME NEW x \in storyGone
               PROVE  /\ StoryExists(x)' /\ story'[x].deleted
                      /\ \A q \in Slots : OnStory(q, x)' => storyReq'[q].at # "write"
    BY <1>1 DEF GoneForGood
  <2>3. x # s /\ x \in StoryIds /\ StoryExists(x) /\ story[x].deleted
    BY <2>1, <2>2 DEF StoryInv, GoneForGood
  <2>4. ASSUME NEW q \in Slots, OnStory(q, x)' PROVE storyReq'[q].at # "write"
    <3>1. q # r /\ OnStory(q, x) BY <1>9, <1>10, <2>3, <2>4
    <3>. QED BY <1>4, <3>1 DEF StoryInv, GoneForGood, OnStory
  <2>. QED BY <1>5, <1>6, <2>3, <2>4
<1>13. AloneKnows'
  <2> SUFFICES ASSUME NEW q \in Slots, storyReq'[q] # None, storyReq'[q].alone
               PROVE  /\ \A o \in Slots \ {q} :
                           ~(storyReq'[o] # None /\ storyReq'[o].id = storyReq'[q].id)
                      /\ storyReq'[q].at \in {"write", "clear"} =>
                           storyReq'[q].todo = storyReq'[q].genres
                      /\ storyReq'[q].at = "add" =>
                           storyGenre[storyReq'[q].id] \cup storyReq'[q].todo
                             = storyReq'[q].genres
    BY <1>1 DEF AloneKnows, OnStory
  <2>1. CASE q = r
    <3>1. \A o \in Slots \ {r} : ~(storyReq'[o] # None /\ storyReq'[o].id = s)
      BY <1>7, <1>9 DEF OnStory
    <3>. QED BY <1>4, <1>7, <2>1, <3>1 DEF OnStory
  <2>2. CASE q # r
    <3>1. /\ storyReq[q] # None /\ storyReq[q].alone /\ storyReq[q].id # s
          /\ storyReq[q].id \in StoryIds
      BY <1>4, <2>2, StoryRequestFields DEF StoryInv
    <3>2. \A o \in Slots \ {q} : ~(storyReq'[o] # None /\ storyReq'[o].id = storyReq[q].id)
      BY <1>4, <2>2, <3>1 DEF StoryInv, AloneKnows, OnStory
    <3>. QED BY <1>4, <2>2, <3>1, <3>2 DEF StoryInv, AloneKnows, OnStory
  <2>. QED BY <2>1, <2>2
<1>. QED BY <1>8, <1>11, <1>12, <1>13 DEF StoryInv

\* UpdateStory and DeleteStory: a request for a story that is not deleted.
LEMMA StoryStartStep ==
  ASSUME StoryInv, NEW r \in Slots, NEW s \in StoryIds, StoryExists(s), ~story[s].deleted,
         NEW stage \in {"write", "delete"}, NEW row \in StoryRows, NEW regenre \in BOOLEAN,
         NEW genres \in SUBSET Genres, StoryBegin(r, stage, s, row, regenre, genres),
         UNCHANGED <<story, storyGenre, storyGone>>
  PROVE  StoryInv'
<1>1. /\ storyReq[r] = None
      /\ storyReq' \in [Slots -> StoryRequests \cup {None}]
      /\ storyReq'[r].at = stage /\ storyReq'[r].id = s
      /\ storyReq'[r].genres = genres /\ storyReq'[r].todo = genres
      /\ storyReq'[r].alone => \A q \in Slots : ~OnStory(q, s)
      /\ \A q \in Slots \ {r} :
           /\ storyReq'[q] = None <=> storyReq[q] = None
           /\ storyReq[q] # None =>
                /\ storyReq'[q].at = storyReq[q].at /\ storyReq'[q].id = storyReq[q].id
                /\ storyReq'[q].genres = storyReq[q].genres
                /\ storyReq'[q].todo = storyReq[q].todo
                /\ storyReq'[q].alone => storyReq[q].alone /\ storyReq[q].id # s
  BY StoryBeginStep DEF StoryInv
<1>2. StoryTypeOK' BY <1>1 DEF StoryInv, StoryTypeOK
<1>3. \A x \in StoryIds : StoryExists(x)' <=> StoryExists(x) BY DEF StoryExists
<1>4. \A q \in Slots \ {r}, x \in StoryIds : OnStory(q, x)' <=> OnStory(q, x)
  BY <1>1 DEF OnStory
<1>5. \A x \in StoryIds \ {s} : ~OnStory(r, x)' BY <1>1 DEF OnStory
<1>6. StoriesFresh' BY <1>3, <1>4, <1>5 DEF StoryInv, StoriesFresh
<1>7. GoneForGood'
  <2> SUFFICES ASSUME NEW x \in storyGone
               PROVE  /\ StoryExists(x)' /\ story'[x].deleted
                      /\ \A q \in Slots : OnStory(q, x)' => storyReq'[q].at # "write"
    BY DEF GoneForGood
  <2>1. x # s /\ x \in StoryIds /\ StoryExists(x) /\ story[x].deleted
    BY DEF StoryInv, GoneForGood, StoryTypeOK
  <2>2. ASSUME NEW q \in Slots, OnStory(q, x)' PROVE storyReq'[q].at # "write"
    <3>1. q # r /\ OnStory(q, x) BY <1>4, <1>5, <2>1, <2>2
    <3>. QED BY <1>1, <3>1 DEF StoryInv, GoneForGood, OnStory
  <2>. QED BY <1>3, <2>1, <2>2
<1>8. AloneKnows'
  <2> SUFFICES ASSUME NEW q \in Slots, storyReq'[q] # None, storyReq'[q].alone
               PROVE  /\ \A o \in Slots \ {q} :
                           ~(storyReq'[o] # None /\ storyReq'[o].id = storyReq'[q].id)
                      /\ storyReq'[q].at \in {"write", "clear"} =>
                           storyReq'[q].todo = storyReq'[q].genres
                      /\ storyReq'[q].at = "add" =>
                           storyGenre[storyReq'[q].id] \cup storyReq'[q].todo
                             = storyReq'[q].genres
    BY DEF AloneKnows, OnStory
  <2>1. CASE q = r
    <3>1. \A o \in Slots \ {r} : ~(storyReq'[o] # None /\ storyReq'[o].id = s)
      BY <1>1, <1>4, <2>1 DEF OnStory
    <3>. QED BY <1>1, <2>1, <3>1 DEF OnStory
  <2>2. CASE q # r
    <3>1. /\ storyReq[q] # None /\ storyReq[q].alone /\ storyReq[q].id # s
      BY <1>1, <2>2
    <3>2. \A o \in Slots \ {q} : ~(storyReq'[o] # None /\ storyReq'[o].id = storyReq[q].id)
      BY <1>1, <2>2, <3>1 DEF StoryInv, AloneKnows, OnStory
    <3>. QED BY <1>1, <2>2, <3>1, <3>2 DEF StoryInv, AloneKnows, OnStory
  <2>. QED BY <2>1, <2>2
<1>. QED BY <1>2, <1>6, <1>7, <1>8 DEF StoryInv

\* The request of r ends, or goes on with the same story and genres; r may have
\* set its story's row, unless it was deleted for good, and its genres.
LEMMA StoryGoesOn ==
  ASSUME StoryInv, NEW r \in Slots, storyReq[r] # None,
         NEW s \in StoryIds, s = storyReq[r].id,
         storyReq' \in [Slots -> StoryRequests \cup {None}],
         \A q \in Slots \ {r} : storyReq'[q] = storyReq[q],
         storyReq'[r] # None =>
           /\ storyReq'[r].id = s /\ storyReq'[r].genres = storyReq[r].genres
           /\ storyReq'[r].alone = storyReq[r].alone
           /\ storyReq'[r].at \in {"clear", "add"},
         storyReq'[r] # None /\ storyReq'[r].alone =>
           /\ storyReq'[r].at = "clear" => storyReq'[r].todo = storyReq'[r].genres
           /\ storyReq'[r].at = "add" =>
                storyGenre'[s] \cup storyReq'[r].todo = storyReq'[r].genres,
         story' \in [StoryIds -> StoryRows \cup {None}],
         \A x \in StoryIds \ {s} : story'[x] = story[x], story'[s] # None,
         storyGenre' \in [StoryIds -> SUBSET Genres],
         \A x \in StoryIds \ {s} : storyGenre'[x] = storyGenre[x],
         storyGone' = storyGone \/ (storyGone' = storyGone \cup {s}
                                    /\ \A q \in Slots \ {r} : ~(OnStory(q, s) /\ storyReq[q].at = "write")),
         s \in storyGone' => story'[s].deleted
  PROVE  StoryInv'
<1>1. StoryTypeOK' BY DEF StoryInv, StoryTypeOK
<1>2. StoryExists(s) BY DEF StoryInv, StoriesFresh, OnStory
<1>3. \A x \in StoryIds : StoryExists(x)' <=> StoryExists(x) BY <1>2 DEF StoryExists
<1>4. \A q \in Slots, x \in StoryIds :
        /\ OnStory(q, x)' => OnStory(q, x)
        /\ q # r => storyReq'[q] = storyReq[q]
  BY DEF OnStory
<1>5. StoriesFresh' BY <1>2, <1>3, <1>4 DEF StoryInv, StoriesFresh
<1>6. GoneForGood'
  <2> SUFFICES ASSUME NEW x \in storyGone'
               PROVE  /\ StoryExists(x)' /\ story'[x].deleted
                      /\ \A q \in Slots : OnStory(q, x)' => storyReq'[q].at # "write"
    BY DEF GoneForGood
  <2>1. CASE x = s
    <3>1. ASSUME NEW q \in Slots, OnStory(q, s)' PROVE storyReq'[q].at # "write"
      <4>1. CASE q = r BY <3>1, <4>1 DEF OnStory
      <4>2. CASE q # r BY <1>4, <2>1, <3>1, <4>2 DEF StoryInv, GoneForGood
      <4>. QED BY <4>1, <4>2
    <3>. QED BY <1>2, <1>3, <2>1, <3>1
  <2>2. CASE x # s
    <3>1. x \in storyGone /\ x \in StoryIds BY <2>2 DEF StoryInv, StoryTypeOK
    <3>2. ASSUME NEW q \in Slots, OnStory(q, x)' PROVE storyReq'[q].at # "write"
      <4>1. q # r BY <2>2, <3>2 DEF OnStory
      <4>. QED BY <1>4, <3>1, <3>2, <4>1 DEF StoryInv, GoneForGood
    <3>. QED BY <1>3, <2>2, <3>1, <3>2 DEF StoryInv, GoneForGood
  <2>. QED BY <2>1, <2>2
<1>7. AloneKnows'
  <2> SUFFICES ASSUME NEW q \in Slots, storyReq'[q] # None, storyReq'[q].alone
               PROVE  /\ \A o \in Slots \ {q} :
                           ~(storyReq'[o] # None /\ storyReq'[o].id = storyReq'[q].id)
                      /\ storyReq'[q].at \in {"write", "clear"} =>
                           storyReq'[q].todo = storyReq'[q].genres
                      /\ storyReq'[q].at = "add" =>
                           storyGenre'[storyReq'[q].id] \cup storyReq'[q].todo
                             = storyReq'[q].genres
    BY DEF AloneKnows, OnStory
  <2>1. CASE q = r
    <3>1. \A o \in Slots \ {r} : ~OnStory(o, s) BY <2>1 DEF StoryInv, AloneKnows
    <3>. QED BY <2>1, <3>1 DEF OnStory
  <2>2. CASE q # r
    <3>1. storyReq'[q] = storyReq[q] BY <2>2
    <3>2. /\ storyReq[q].id # s /\ storyReq[q].id \in StoryIds
      BY <2>2, <3>1, StoryRequestFields DEF StoryInv, AloneKnows, OnStory
    <3>3. \A o \in Slots \ {q} : ~(storyReq'[o] # None /\ storyReq'[o].id = storyReq[q].id)
      BY <2>2, <3>1 DEF StoryInv, AloneKnows, OnStory
    <3>. QED BY <3>1, <3>2, <3>3 DEF StoryInv, AloneKnows
  <2>. QED BY <2>1, <2>2
<1>. QED BY <1>1, <1>5, <1>6, <1>7 DEF StoryInv

\* The request table after a request ended, or went on to another stage.
LEMMA StoryReturns ==
  ASSUME StoryTypeOK, NEW r \in Slots, StoryReturn(r)
  PROVE  /\ storyReq' \in [Slots -> StoryRequests \cup {None}]
         /\ \A q \in Slots \ {r} : storyReq'[q] = storyReq[q]
         /\ storyReq'[r] = None
BY DEF StoryReturn, StoryTypeOK

LEMMA StoryGoes ==
  ASSUME StoryTypeOK, NEW r \in Slots, storyReq[r] # None, NEW stage \in {"clear", "add"},
         StoryGoto(r, stage)
  PROVE  /\ storyReq' \in [Slots -> StoryRequests \cup {None}]
         /\ \A q \in Slots \ {r} : storyReq'[q] = storyReq[q]
         /\ storyReq'[r].at = stage /\ storyReq'[r].id = storyReq[r].id
         /\ storyReq'[r].genres = storyReq[r].genres
         /\ storyReq'[r].todo = storyReq[r].todo
         /\ storyReq'[r].alone = storyReq[r].alone
<1>1. storyReq[r] \in StoryRequests BY StoryRequestFields
<1>2. /\ storyReq'[r] = [storyReq[r] EXCEPT !.at = stage]
      /\ \A q \in Slots \ {r} : storyReq'[q] = storyReq[q]
      /\ storyReq'[r] \in StoryRequests
  BY <1>1 DEF StoryGoto, StoryTypeOK, StoryRequests
<1>3. storyReq' \in [Slots -> StoryRequests \cup {None}]
  BY <1>2 DEF StoryGoto, StoryTypeOK
<1>. QED BY <1>1, <1>2, <1>3 DEF StoryRequests

LEMMA StoryWriteStep ==
  ASSUME StoryInv, NEW r \in Slots, WriteStory(r) PROVE StoryInv'
<1>1. storyReq[r] # None /\ storyReq[r].at = "write" BY DEF WriteStory, StoryAt
<1>2. PICK s \in StoryIds : s = storyReq[r].id BY <1>1, StoryRequestFields DEF StoryInv
<1>3. storyReq[r].row \in StoryRows BY <1>1, StoryRequestFields DEF StoryInv
<1>4. /\ story' \in [StoryIds -> StoryRows \cup {None}]
      /\ \A x \in StoryIds \ {s} : story'[x] = story[x]
      /\ story'[s] # None
  BY <1>2, <1>3, StoryRowNotNone DEF WriteStory, StoryInv, StoryTypeOK
<1>5. s \notin storyGone BY <1>1, <1>2 DEF StoryInv, GoneForGood, OnStory
<1>6. storyGenre' = storyGenre /\ storyGone' = storyGone BY DEF WriteStory
<1>7. storyReq[r].alone => storyReq[r].todo = storyReq[r].genres
  BY <1>1 DEF StoryInv, AloneKnows
<1>8. storyGenre \in [StoryIds -> SUBSET Genres] BY DEF StoryInv, StoryTypeOK
<1>9. CASE StoryGoto(r, "clear")
  <2>1. /\ storyReq' \in [Slots -> StoryRequests \cup {None}]
        /\ \A q \in Slots \ {r} : storyReq'[q] = storyReq[q]
        /\ storyReq'[r].at = "clear" /\ storyReq'[r].id = s
        /\ storyReq'[r].genres = storyReq[r].genres
        /\ storyReq'[r].todo = storyReq[r].todo
        /\ storyReq'[r].alone = storyReq[r].alone
    BY <1>1, <1>2, <1>9, StoryGoes DEF StoryInv
  <2>. QED BY <1>1, <1>2, <1>4, <1>5, <1>6, <1>7, <1>8, <2>1, StoryGoesOn
<1>10. CASE StoryReturn(r)
  <2>1. /\ storyReq' \in [Slots -> StoryRequests \cup {None}]
        /\ \A q \in Slots \ {r} : storyReq'[q] = storyReq[q]
        /\ storyReq'[r] = None
    BY <1>10, StoryReturns DEF StoryInv
  <2>. QED BY <1>1, <1>2, <1>4, <1>5, <1>6, <1>8, <2>1, StoryGoesOn
<1>. QED BY <1>9, <1>10 DEF WriteStory

\* While the row of r's story stays, it is as the invariant says.
LEMMA StoryRowStays ==
  ASSUME StoryInv, NEW r \in Slots, storyReq[r] # None, UNCHANGED <<story, storyGone>>,
         NEW s \in StoryIds, s = storyReq[r].id
  PROVE  /\ story' \in [StoryIds -> StoryRows \cup {None}]
         /\ \A x \in StoryIds \ {s} : story'[x] = story[x]
         /\ story'[s] # None
         /\ storyGone' = storyGone
         /\ s \in storyGone' => story'[s].deleted
BY DEF StoryInv, StoryTypeOK, StoriesFresh, GoneForGood, OnStory, StoryExists

LEMMA StoryClearStep ==
  ASSUME StoryInv, NEW r \in Slots, ClearGenres(r) PROVE StoryInv'
<1>1. storyReq[r] # None /\ storyReq[r].at = "clear" /\ StoryGoto(r, "add")
  BY DEF ClearGenres, StoryAt
<1>2. PICK s \in StoryIds : s = storyReq[r].id BY <1>1, StoryRequestFields DEF StoryInv
<1>3. /\ storyReq' \in [Slots -> StoryRequests \cup {None}]
      /\ \A q \in Slots \ {r} : storyReq'[q] = storyReq[q]
      /\ storyReq'[r].at = "add" /\ storyReq'[r].id = s
      /\ storyReq'[r].genres = storyReq[r].genres
      /\ storyReq'[r].todo = storyReq[r].todo
      /\ storyReq'[r].alone = storyReq[r].alone
  BY <1>1, <1>2, StoryGoes DEF StoryInv
<1>4. /\ storyGenre' \in [StoryIds -> SUBSET Genres]
      /\ \A x \in StoryIds \ {s} : storyGenre'[x] = storyGenre[x]
      /\ storyGenre'[s] = {}
  BY <1>2 DEF ClearGenres, ClearGenresFromStory, StoryInv, StoryTypeOK
<1>5. storyReq[r].alone => storyReq[r].todo = storyReq[r].genres
  BY <1>1 DEF StoryInv, AloneKnows
<1>6. /\ story' \in [StoryIds -> StoryRows \cup {None}]
      /\ \A x \in StoryIds \ {s} : story'[x] = story[x]
      /\ story'[s] # None
      /\ storyGone' = storyGone
      /\ s \in storyGone' => story'[s].deleted
  BY <1>1, <1>2, StoryRowStays DEF ClearGenres
<1>7. storyReq'[r].alone => storyGenre'[s] \cup storyReq'[r].todo = storyReq'[r].genres
  BY <1>3, <1>4, <1>5
<1>. QED BY <1>1, <1>2, <1>3, <1>4, <1>6, <1>7, StoryGoesOn

LEMMA StoryAddStep ==
  ASSUME StoryInv, NEW r \in Slots, AddGenre(r) PROVE StoryInv'
<1>1. storyReq[r] # None /\ storyReq[r].at = "add" BY DEF AddGenre, StoryAt
<1>2. PICK s \in StoryIds : s = storyReq[r].id BY <1>1, StoryRequestFields DEF StoryInv
<1>3. PICK g \in storyReq[r].todo :
        /\ AddGenreToStory(s, g)
        /\ storyReq' = [storyReq EXCEPT ![r].todo = @ \ {g}]
  BY <1>2 DEF AddGenre
<1>4. /\ storyReq[r] \in StoryRequests
      /\ storyReq[r].todo \in SUBSET Genres /\ storyReq[r].genres \in SUBSET Genres
  BY <1>1, StoryRequestFields DEF StoryInv
<1>5. /\ storyReq'[r] = [storyReq[r] EXCEPT !.todo = @ \ {g}]
      /\ \A q \in Slots \ {r} : storyReq'[q] = storyReq[q]
      /\ storyReq'[r] \in StoryRequests
  BY <1>3, <1>4 DEF StoryInv, StoryTypeOK, StoryRequests
<1>6. storyReq' \in [Slots -> StoryRequests \cup {None}]
  BY <1>3, <1>5 DEF StoryInv, StoryTypeOK
<1>7. /\ storyReq'[r].at = "add" /\ storyReq'[r].id = s
      /\ storyReq'[r].genres = storyReq[r].genres
      /\ storyReq'[r].todo = storyReq[r].todo \ {g}
      /\ storyReq'[r].alone = storyReq[r].alone
  BY <1>1, <1>2, <1>4, <1>5 DEF StoryRequests
<1>8. /\ storyGenre' \in [StoryIds -> SUBSET Genres]
      /\ \A x \in StoryIds \ {s} : storyGenre'[x] = storyGenre[x]
      /\ storyGenre'[s] = storyGenre[s] \cup {g}
  BY <1>3, <1>4 DEF AddGenreToStory, StoryInv, StoryTypeOK
<1>9. storyReq[r].alone => storyGenre[s] \cup storyReq[r].todo = storyReq[r].genres
  BY <1>1, <1>2 DEF StoryInv, AloneKnows
<1>10. storyReq'[r].alone => storyGenre'[s] \cup storyReq'[r].todo = storyReq'[r].genres
  BY <1>3, <1>7, <1>8, <1>9
<1>11. /\ story' \in [StoryIds -> StoryRows \cup {None}]
       /\ \A x \in StoryIds \ {s} : story'[x] = story[x]
       /\ story'[s] # None
       /\ storyGone' = storyGone
       /\ s \in storyGone' => story'[s].deleted
  BY <1>1, <1>2, StoryRowStays DEF AddGenre
<1>. QED BY <1>1, <1>2, <1>6, <1>5, <1>7, <1>8, <1>10, <1>11, StoryGoesOn

LEMMA StoryEndStep ==
  ASSUME StoryInv, NEW r \in Slots, storyReq[r] # None, StoryReturn(r),
         UNCHANGED <<story, storyGenre, storyGone>>
  PROVE  StoryInv'
<1>1. PICK s \in StoryIds : s = storyReq[r].id BY StoryRequestFields DEF StoryInv
<1>2. /\ storyReq' \in [Slots -> StoryRequests \cup {None}]
      /\ \A q \in Slots \ {r} : storyReq'[q] = storyReq[q]
      /\ storyReq'[r] = None
  BY StoryReturns DEF StoryInv
<1>3. /\ story' \in [StoryIds -> StoryRows \cup {None}]
      /\ \A x \in StoryIds \ {s} : story'[x] = story[x]
      /\ story'[s] # None
      /\ storyGone' = storyGone
      /\ s \in storyGone' => story'[s].deleted
  BY <1>1, StoryRowStays
<1>4. storyGenre \in [StoryIds -> SUBSET Genres] BY DEF StoryInv, StoryTypeOK
<1>. QED BY <1>1, <1>2, <1>3, <1>4, StoryGoesOn

LEMMA StoryDeletionStep ==
  ASSUME StoryInv, NEW r \in Slots, WriteStoryDeletion(r) PROVE StoryInv'
<1>1. storyReq[r] # None /\ storyReq[r].at = "delete" /\ StoryReturn(r)
  BY DEF WriteStoryDeletion, StoryAt
<1>2. PICK s \in StoryIds : s = storyReq[r].id BY <1>1, StoryRequestFields DEF StoryInv
<1>3. /\ storyReq' \in [Slots -> StoryRequests \cup {None}]
      /\ \A q \in Slots \ {r} : storyReq'[q] = storyReq[q]
      /\ storyReq'[r] = None
  BY <1>1, StoryReturns DEF StoryInv
<1>4. story[s] \in StoryRows
  BY <1>1, <1>2 DEF StoryInv, StoriesFresh, OnStory, StoryExists, StoryTypeOK
<1>5. /\ story'[s] = [story[s] EXCEPT !.deleted = TRUE]
      /\ story'[s] \in StoryRows
      /\ \A x \in StoryIds \ {s} : story'[x] = story[x]
  BY <1>2, <1>4 DEF WriteStoryDeletion, StoryInv, StoryTypeOK, StoryRows
<1>6. story' \in [StoryIds -> StoryRows \cup {None}] /\ story'[s] # None /\ story'[s].deleted
  BY <1>2, <1>4, <1>5, StoryRowNotNone DEF WriteStoryDeletion, StoryInv, StoryTypeOK, StoryRows
<1>7. \/ storyGone' = storyGone
      \/ /\ storyGone' = storyGone \cup {s}
         /\ \A q \in Slots \ {r} : ~(OnStory(q, s) /\ storyReq[q].at = "write")
  BY <1>2 DEF WriteStoryDeletion, StoryAt, OnStory
<1>8. storyGenre' = storyGenre /\ storyGenre \in [StoryIds -> SUBSET Genres]
  BY DEF WriteStoryDeletion, StoryInv, StoryTypeOK
<1>. QED BY <1>1, <1>2, <1>3, <1>5, <1>6, <1>7, <1>8, StoryGoesOn

LEMMA StoryInvInit == StoryInit => StoryInv
BY DEF StoryInit, StoryInv, StoryTypeOK, StoriesFresh, GoneForGood, AloneKnows, OnStory,
       StoryExists

LEMMA StoryInvStep == StoryInv /\ [StoryNext]_storyVars => StoryInv'
<1> SUFFICES ASSUME StoryInv, [StoryNext]_storyVars PROVE StoryInv'
  OBVIOUS
<1>1. ASSUME NEW r \in Slots, UpdateStory(r) PROVE StoryInv'
  <2>1. PICK s \in StoryIds, status \in StoryStatuses, regenre \in BOOLEAN,
             genres \in SUBSET Genres :
          /\ StoryExists(s) /\ ~story[s].deleted
          /\ StoryBegin(r, "write", s, [story[s] EXCEPT !.status = status], regenre, genres)
          /\ UNCHANGED <<story, storyGenre, storyGone>>
    BY <1>1 DEF UpdateStory, OwnStory
  <2> DEFINE row == [story[s] EXCEPT !.status = status]
  <2>2. row \in StoryRows BY <2>1 DEF StoryExists, StoryInv, StoryTypeOK, StoryRows
  <2> HIDE DEF row
  <2>3. StoryBegin(r, "write", s, row, regenre, genres) BY <2>1 DEF row
  <2>. QED BY <2>1, <2>2, <2>3, StoryStartStep
<1>2. ASSUME NEW r \in Slots, DeleteStory(r) PROVE StoryInv'
  <2>1. PICK s \in StoryIds :
          /\ StoryExists(s) /\ ~story[s].deleted
          /\ StoryBegin(r, "delete", s, story[s], FALSE, {})
          /\ UNCHANGED <<story, storyGenre, storyGone>>
    BY <1>2 DEF DeleteStory, OwnStory
  <2>2. PICK regenre \in BOOLEAN, genres \in SUBSET Genres :
          StoryBegin(r, "delete", s, story[s], regenre, genres)
    BY <2>1
  <2>3. story[s] \in StoryRows BY <2>1 DEF StoryExists, StoryInv, StoryTypeOK
  <2>. QED BY <2>1, <2>2, <2>3, StoryStartStep
<1>3. ASSUME NEW r \in Slots, StoryDone(r) \/ StoryAbort(r) PROVE StoryInv'
  BY <1>3, StoryEndStep DEF StoryDone, StoryAbort, StoryAt
<1>4. CASE UNCHANGED storyVars
  BY <1>4 DEF storyVars, StoryInv, StoryTypeOK, StoriesFresh, GoneForGood, AloneKnows,
              OnStory, StoryExists
<1>. QED
  BY <1>1, <1>2, <1>3, <1>4, StoryCreateStep, StoryWriteStep, StoryClearStep, StoryAddStep,
     StoryDeletionStep DEF StoryNext

LEMMA StoryInvHolds == StorySpec => []StoryInv
BY StoryInvInit, StoryInvStep, PTL DEF StorySpec

\* The types of Stories' state.
THEOREM StoryTypes == StorySpec => []StoryTypeOK
<1>1. StoryInv => StoryTypeOK BY DEF StoryInv
<1>. QED BY <1>1, StoryInvHolds, PTL

\* A story deleted while no update of it was between its read and its write is
\* never undeleted.
THEOREM DeletedStaysDeleted == StorySpec => []DeletedStays
<1>1. StoryInv => DeletedStays BY DEF StoryInv, GoneForGood, DeletedStays
<1>. QED BY <1>1, StoryInvHolds, PTL

\* A create or update that had the story to itself ends with the genres given.
THEOREM GenresDoTakeHold == StorySpec => GenresTakeHold
<1>1. StoryInv /\ [StoryNext]_storyVars =>
        [\A r \in Slots :
           StoryAt(r, "add") /\ StoryDone(r) /\ storyReq[r].alone =>
             storyGenre[storyReq[r].id] = storyReq[r].genres]_storyVars
  <2> SUFFICES ASSUME StoryInv, NEW r \in Slots, StoryAt(r, "add"), StoryDone(r),
                      storyReq[r].alone
               PROVE  storyGenre[storyReq[r].id] = storyReq[r].genres
    OBVIOUS
  <2>1. storyReq[r] # None /\ storyReq[r].at = "add" /\ storyReq[r].todo = {}
    BY DEF StoryAt, StoryDone
  <2>2. storyReq[r].id \in StoryIds BY <2>1, StoryRequestFields DEF StoryInv
  <2>3. storyGenre[storyReq[r].id] \cup storyReq[r].todo = storyReq[r].genres
    BY <2>1 DEF StoryInv, AloneKnows
  <2>. QED BY <2>1, <2>3
<1>. QED BY <1>1, StoryInvHolds, PTL DEF StorySpec, GenresTakeHold

-----------------------------------------------------------------------------
(* Reports *)

\* Ids are used once.
ReportsUsed ==
  \A x \in ReportIds :
    ReportExists(x) \/ x \in reportFirm \/ (\E r \in Slots : OnReport(r, x)) =>
      x \in reportUsed

\* What a request will write: whole, by the same reporter, resolved if the
\* report is firmly; a decision is not about a firm one.
WritesSound ==
  \A r \in Slots, x \in ReportIds : OnReport(r, x) =>
    /\ reportReq[r].op = "update" =>
         /\ reportReq[r].row.resolved <=> reportReq[r].row.stamped
         /\ reportReq[r].row.resolved => reportReq[r].row.reporter \in reportEarned
         /\ x \in reportFirm => reportReq[r].row.resolved
         /\ ReportExists(x) => reportReq[r].row.reporter = report[x].reporter
    /\ reportReq[r].op = "decide" => x \notin reportFirm

Reports(r, u) == reportReq[r] # None /\ reportReq[r].op = "create" /\ reportReq[r].reporter = u

\* A reporter who earned no second report has at most one, not resolved, and
\* none while one is about to be inserted.
OneEach ==
  /\ \A x \in ReportIds : ReportExists(x) /\ report[x].resolved =>
       report[x].reporter \in reportEarned
  /\ \A u \in Users \ reportEarned :
       /\ \A x, y \in ReportIds :
            /\ ReportExists(x) /\ report[x].reporter = u
            /\ ReportExists(y) /\ report[y].reporter = u
            => x = y
       /\ \A r \in Slots : Reports(r, u) =>
            /\ \A x \in ReportIds : ~(ReportExists(x) /\ report[x].reporter = u)
            /\ \A q \in Slots \ {r} : ~Reports(q, u)

ReportInv == ReportTypeOK /\ ReportsUsed /\ WritesSound /\ ResolvedStands /\ OneEach

LEMMA ReportFields ==
  ASSUME NEW r \in Slots, ReportTypeOK, reportReq[r] # None
  PROVE  /\ reportReq[r] \in ReportRequests
         /\ reportReq[r].op \in {"create", "update", "decide", "delete"}
         /\ reportReq[r].op = "create" => reportReq[r].reporter \in Users
         /\ reportReq[r].op # "create" => reportReq[r].id \in ReportIds
         /\ reportReq[r].op = "update" => reportReq[r].row \in ReportRows
         /\ reportReq[r].op = "decide" => reportReq[r].status \in ReportStatuses
<1>1. reportReq[r] \in ReportRequests BY DEF ReportTypeOK
<1>. QED BY <1>1 DEF ReportRequests

LEMMA ReportRowFields ==
  ASSUME NEW row \in ReportRows
  PROVE  /\ row # None
         /\ row.reporter \in Users
         /\ row.status \in ReportStatuses
         /\ row.resolved \in BOOLEAN
         /\ row.stamped \in BOOLEAN
BY NoReportRow DEF ReportRows

\* A request about a report begins.
LEMMA ReportBeginStep ==
  ASSUME ReportInv, NEW r \in Slots, NEW request \in ReportRequests, ReportBegin(r, request),
         UNCHANGED reportTables, request.op \in {"update", "decide", "delete"},
         ReportExists(request.id),
         request.op = "update" =>
           /\ request.row.resolved = report[request.id].resolved
           /\ request.row.stamped = report[request.id].stamped
           /\ request.row.reporter = report[request.id].reporter,
         request.op = "decide" => ~report[request.id].resolved
  PROVE  ReportInv'
<1>1. UNCHANGED <<report, reportUsed, reportFirm, reportEarned>> BY DEF reportTables
<1>2. /\ reportReq[r] = None
      /\ reportReq' \in [Slots -> ReportRequests \cup {None}]
      /\ reportReq'[r] = request
      /\ \A q \in Slots \ {r} : reportReq'[q] = reportReq[q]
  BY DEF ReportBegin, ReportInv, ReportTypeOK
<1>3. ReportTypeOK' BY <1>1, <1>2 DEF ReportInv, ReportTypeOK
<1>4. request # None /\ request.id \in ReportIds
  BY <1>2, <1>3, ReportFields, NoReportRow DEF ReportRequests
<1>5. \A x \in ReportIds : ReportExists(x)' <=> ReportExists(x) BY <1>1 DEF ReportExists
<1>6. \A q \in Slots, x \in ReportIds :
        OnReport(q, x)' <=> IF q = r THEN x = request.id ELSE OnReport(q, x)
  BY <1>2, <1>4 DEF OnReport
<1>7. \A q \in Slots, u \in Users : Reports(q, u)' <=> Reports(q, u)
  BY <1>2 DEF Reports
<1>8. ReportsUsed' BY <1>1, <1>5, <1>6 DEF ReportInv, ReportsUsed
<1>9. ResolvedStands' BY <1>1, <1>5 DEF ReportInv, ResolvedStands
<1>10. OneEach' BY <1>1, <1>5, <1>7 DEF ReportInv, OneEach
<1>11. WritesSound'
  <2> SUFFICES ASSUME NEW q \in Slots, NEW x \in ReportIds, OnReport(q, x)'
               PROVE  /\ reportReq'[q].op = "update" =>
                           /\ reportReq'[q].row.resolved <=> reportReq'[q].row.stamped
                           /\ reportReq'[q].row.resolved =>
                                reportReq'[q].row.reporter \in reportEarned
                           /\ x \in reportFirm => reportReq'[q].row.resolved
                           /\ ReportExists(x) => reportReq'[q].row.reporter = report[x].reporter
                      /\ reportReq'[q].op = "decide" => x \notin reportFirm
    BY <1>1, <1>5 DEF WritesSound
  <2>1. CASE q = r
    <3>1. x = request.id /\ reportReq'[q] = request BY <1>2, <1>6, <2>1
    <3>2. /\ report[x].resolved <=> report[x].stamped
          /\ x \in reportFirm => report[x].resolved
          /\ report[x].resolved => report[x].reporter \in reportEarned
      BY <3>1 DEF ReportInv, ResolvedStands, OneEach
    <3>. QED BY <3>1, <3>2
  <2>2. CASE q # r
    <3>1. OnReport(q, x) /\ reportReq'[q] = reportReq[q] BY <1>2, <1>6, <2>2
    <3>. QED BY <3>1 DEF ReportInv, WritesSound
  <2>. QED BY <2>1, <2>2
<1>. QED BY <1>3, <1>8, <1>9, <1>10, <1>11 DEF ReportInv

\* Requests end or stay as they are.
ReportsEnding ==
  /\ reportReq' \in [Slots -> ReportRequests \cup {None}]
  /\ \A s \in Slots : reportReq'[s] \in {None, reportReq[s]}

\* A report is set by a request that ends: whole, by the same reporter, and
\* resolved if it is firmly.
LEMMA ReportPutStep ==
  ASSUME ReportInv, NEW r \in Slots, NEW x \in ReportIds, NEW row \in ReportRows,
         ReportExists(x), ReportReturn(r), PutReport(r, x, row), reportUsed' = reportUsed,
         row.resolved <=> row.stamped, x \in reportFirm => row.resolved,
         row.reporter = report[x].reporter
  PROVE  ReportInv'
<1>1. /\ report' \in [ReportIds -> ReportRows \cup {None}]
      /\ report'[x] = row /\ \A y \in ReportIds \ {x} : report'[y] = report[y]
  BY DEF PutReport, ReportInv, ReportTypeOK
<1>2. row # None /\ row.reporter \in Users BY ReportRowFields
<1>3. /\ reportReq' \in [Slots -> ReportRequests \cup {None}]
      /\ reportReq'[r] = None
      /\ \A q \in Slots \ {r} : reportReq'[q] = reportReq[q]
  BY DEF ReportReturn, ReportInv, ReportTypeOK
<1>4. /\ reportFirm \subseteq reportFirm' /\ reportFirm' \subseteq reportFirm \cup {x}
      /\ reportFirm' # reportFirm =>
           row.resolved /\ \A q \in Slots \ {r} : ~OnReport(q, x)
  BY DEF PutReport
<1>5. /\ reportEarned \subseteq reportEarned' /\ reportEarned' \subseteq Users
      /\ row.resolved => row.reporter \in reportEarned'
  BY <1>2 DEF PutReport, ReportInv, ReportTypeOK
<1>6. ReportTypeOK' BY <1>1, <1>3, <1>4, <1>5 DEF ReportInv, ReportTypeOK
<1>7. /\ \A y \in ReportIds : ReportExists(y)' <=> ReportExists(y)
      /\ \A y \in ReportIds : ReportExists(y) => report'[y].reporter = report[y].reporter
  BY <1>1, <1>2 DEF ReportExists
<1>8. \A q \in Slots, y \in ReportIds :
        OnReport(q, y)' => q # r /\ OnReport(q, y) /\ reportReq'[q] = reportReq[q]
  BY <1>3 DEF OnReport
<1>9. \A q \in Slots, u \in Users : Reports(q, u)' => Reports(q, u)
  BY <1>3 DEF Reports
<1>10. ReportsUsed' BY <1>4, <1>7, <1>8 DEF ReportInv, ReportsUsed
<1>11. ResolvedStands'
  <2>1. x \in reportFirm' => row.resolved BY <1>4
  <2>. QED BY <1>1, <1>4, <1>7, <2>1 DEF ReportInv, ResolvedStands
<1>12. WritesSound'
  <2> SUFFICES ASSUME NEW q \in Slots, NEW y \in ReportIds, OnReport(q, y)'
               PROVE  /\ reportReq'[q].op = "update" =>
                           /\ reportReq'[q].row.resolved <=> reportReq'[q].row.stamped
                           /\ reportReq'[q].row.resolved =>
                                reportReq'[q].row.reporter \in reportEarned'
                           /\ y \in reportFirm' => reportReq'[q].row.resolved
                           /\ ReportExists(y) =>
                                reportReq'[q].row.reporter = report'[y].reporter
                      /\ reportReq'[q].op = "decide" => y \notin reportFirm'
    BY <1>7 DEF WritesSound
  <2>1. q # r /\ OnReport(q, y) /\ reportReq'[q] = reportReq[q] BY <1>8
  <2>2. y \in reportFirm' => y \in reportFirm BY <1>4, <2>1
  <2>. QED BY <1>5, <1>7, <2>1, <2>2 DEF ReportInv, WritesSound
<1>13. OneEach'
  <2>1. \A y \in ReportIds : ReportExists(y)' /\ report'[y].resolved =>
          report'[y].reporter \in reportEarned'
    BY <1>1, <1>5, <1>7 DEF ReportInv, OneEach
  <2>2. ASSUME NEW u \in Users \ reportEarned'
        PROVE  /\ \A y, z \in ReportIds :
                    /\ ReportExists(y)' /\ report'[y].reporter = u
                    /\ ReportExists(z)' /\ report'[z].reporter = u
                    => y = z
               /\ \A q \in Slots : Reports(q, u)' =>
                    /\ \A y \in ReportIds : ~(ReportExists(y)' /\ report'[y].reporter = u)
                    /\ \A o \in Slots \ {q} : ~Reports(o, u)'
    BY <1>5, <1>7, <1>9 DEF ReportInv, OneEach
  <2>. QED BY <2>1, <2>2 DEF OneEach
<1>. QED BY <1>6, <1>10, <1>11, <1>12, <1>13 DEF ReportInv

\* A request ends without a write.
LEMMA ReportEndStep ==
  ASSUME ReportInv, ReportsEnding, UNCHANGED reportTables PROVE ReportInv'
<1>1. UNCHANGED <<report, reportUsed, reportFirm, reportEarned>> BY DEF reportTables
<1>2. ReportTypeOK' BY <1>1 DEF ReportInv, ReportTypeOK, ReportsEnding
<1>3. \A x \in ReportIds : ReportExists(x)' <=> ReportExists(x) BY <1>1 DEF ReportExists
<1>4. \A q \in Slots, x \in ReportIds :
        OnReport(q, x)' => OnReport(q, x) /\ reportReq'[q] = reportReq[q]
  BY DEF OnReport, ReportsEnding
<1>5. \A q \in Slots, u \in Users : Reports(q, u)' => Reports(q, u)
  BY DEF Reports, ReportsEnding
<1>6. ReportsUsed' BY <1>1, <1>3, <1>4 DEF ReportInv, ReportsUsed
<1>7. WritesSound' BY <1>1, <1>3, <1>4 DEF ReportInv, WritesSound
<1>8. ResolvedStands' BY <1>1, <1>3 DEF ReportInv, ResolvedStands
<1>9. OneEach' BY <1>1, <1>3, <1>5 DEF ReportInv, OneEach
<1>. QED BY <1>2, <1>6, <1>7, <1>8, <1>9 DEF ReportInv

\* A creation begins: its reporter has no report, or earned a second one.
LEMMA ReportCreateStep ==
  ASSUME ReportInv, NEW r \in Slots, CreateReport(r) PROVE ReportInv'
<1>1. PICK u \in Users :
        /\ ReportsOf(u) = {} \/ \E x \in ReportsOf(u) : report[x].resolved
        /\ ReportBegin(r, [op |-> "create", reporter |-> u])
        /\ reportEarned' = IF \E q \in Slots : ReportAt(q, "create") /\ reportReq[q].reporter = u
                           THEN reportEarned \cup {u} ELSE reportEarned
        /\ UNCHANGED <<report, reportUsed, reportFirm>>
  BY DEF CreateReport
<1>2. PICK request : request = [op |-> "create", reporter |-> u] OBVIOUS
<1>3. request \in ReportRequests /\ request # None /\ request.op = "create" /\ request.reporter = u
  BY <1>2, NoReportRow DEF ReportRequests
<1>4. /\ reportReq[r] = None
      /\ reportReq' \in [Slots -> ReportRequests \cup {None}]
      /\ reportReq'[r] = request
      /\ \A q \in Slots \ {r} : reportReq'[q] = reportReq[q]
  BY <1>1, <1>2, <1>3 DEF ReportBegin, ReportInv, ReportTypeOK
<1>5. /\ reportEarned \subseteq reportEarned' /\ reportEarned' \subseteq Users
      /\ u \notin reportEarned' => \A q \in Slots : ~Reports(q, u)
  BY <1>1 DEF ReportAt, Reports, ReportInv, ReportTypeOK
<1>6. ReportTypeOK' BY <1>1, <1>4, <1>5 DEF ReportInv, ReportTypeOK
<1>7. \A x \in ReportIds : ReportExists(x)' <=> ReportExists(x) BY <1>1 DEF ReportExists
<1>8. \A q \in Slots, x \in ReportIds :
        OnReport(q, x)' => OnReport(q, x) /\ reportReq'[q] = reportReq[q]
  BY <1>3, <1>4 DEF OnReport
<1>9. \A q \in Slots, v \in Users : Reports(q, v)' => Reports(q, v) \/ (q = r /\ v = u)
  BY <1>3, <1>4 DEF Reports
<1>10. ReportsUsed' BY <1>1, <1>7, <1>8 DEF ReportInv, ReportsUsed
<1>11. WritesSound' BY <1>1, <1>5, <1>7, <1>8 DEF ReportInv, WritesSound
<1>12. ResolvedStands' BY <1>1, <1>7 DEF ReportInv, ResolvedStands
<1>13. OneEach'
  <2>1. \A x \in ReportIds : ReportExists(x)' /\ report'[x].resolved =>
          report'[x].reporter \in reportEarned'
    BY <1>1, <1>5, <1>7 DEF ReportInv, OneEach
  <2>2. ASSUME NEW v \in Users \ reportEarned', NEW x \in ReportIds, NEW y \in ReportIds,
               ReportExists(x)', report'[x].reporter = v,
               ReportExists(y)', report'[y].reporter = v
        PROVE  x = y
    BY <1>1, <1>5, <1>7, <2>2 DEF ReportInv, OneEach
  <2>3. u \notin reportEarned' => \A x \in ReportIds : ~(ReportExists(x) /\ report[x].reporter = u)
    BY <1>1, <1>5 DEF ReportInv, OneEach, ReportsOf
  <2>4. ASSUME NEW v \in Users \ reportEarned', NEW q \in Slots, Reports(q, v)'
        PROVE  /\ \A x \in ReportIds : ~(ReportExists(x)' /\ report'[x].reporter = v)
               /\ \A o \in Slots \ {q} : ~Reports(o, v)'
    <3>1. CASE q = r /\ v = u BY <1>1, <1>5, <1>7, <1>9, <2>3, <3>1
    <3>2. CASE Reports(q, v)
      <4>1. v # u BY <1>5, <3>2
      <4>. QED BY <1>1, <1>5, <1>7, <1>9, <3>2, <4>1 DEF ReportInv, OneEach
    <3>. QED BY <1>9, <2>4, <3>1, <3>2
  <2>. QED BY <2>1, <2>2, <2>4 DEF OneEach
<1>. QED BY <1>6, <1>10, <1>11, <1>12, <1>13 DEF ReportInv

\* The row of a creation goes in under an id of its own.
LEMMA ReportInsertStep ==
  ASSUME ReportInv, NEW r \in Slots, InsertReport(r) PROVE ReportInv'
<1>1. PICK x \in ReportIds \ reportUsed :
        /\ report' = [report EXCEPT ![x] = PendingRow(reportReq[r].reporter)]
        /\ reportUsed' = reportUsed \cup {x}
  BY DEF InsertReport
<1>2. PICK u : u = reportReq[r].reporter OBVIOUS
<1>3. Reports(r, u) /\ u \in Users BY <1>2, ReportFields DEF InsertReport, ReportAt, Reports, ReportInv
<1>4. PICK row : row = PendingRow(u) OBVIOUS
<1>5. /\ row \in ReportRows /\ row # None
      /\ row.reporter = u /\ ~row.resolved /\ ~row.stamped
  <2>1. PICK no \in BOOLEAN : no = FALSE OBVIOUS
  <2>2. row = [reporter |-> u, status |-> "pending", resolved |-> no, stamped |-> no]
    BY <1>4, <2>1 DEF PendingRow
  <2>3. row \in ReportRows BY <1>3, <2>1, <2>2 DEF ReportRows, ReportStatuses
  <2>4. row # None BY <2>3, ReportRowFields
  <2>5. row.reporter = u /\ row.resolved = no /\ row.stamped = no BY <2>2
  <2>. QED BY <2>1, <2>3, <2>4, <2>5
<1>6. /\ report' \in [ReportIds -> ReportRows \cup {None}]
      /\ report'[x] = row /\ \A y \in ReportIds \ {x} : report'[y] = report[y]
      /\ UNCHANGED <<reportFirm, reportEarned>>
  BY <1>1, <1>2, <1>4, <1>5 DEF InsertReport, ReportInv, ReportTypeOK
<1>7. /\ reportReq' \in [Slots -> ReportRequests \cup {None}]
      /\ reportReq'[r] = None
      /\ \A q \in Slots \ {r} : reportReq'[q] = reportReq[q]
  BY DEF InsertReport, ReportReturn, ReportInv, ReportTypeOK
<1>8. ReportTypeOK' BY <1>1, <1>6, <1>7 DEF ReportInv, ReportTypeOK
<1>9. /\ ~ReportExists(x) /\ x \notin reportFirm /\ \A q \in Slots : ~OnReport(q, x)
  BY <1>1 DEF ReportInv, ReportsUsed
<1>10. \A y \in ReportIds : ReportExists(y)' <=> ReportExists(y) \/ y = x
  BY <1>5, <1>6 DEF ReportExists
<1>11. \A q \in Slots, y \in ReportIds :
         OnReport(q, y)' => OnReport(q, y) /\ y # x /\ reportReq'[q] = reportReq[q]
  BY <1>7, <1>9 DEF OnReport
<1>12. \A q \in Slots, v \in Users : Reports(q, v)' => Reports(q, v) /\ q # r
  BY <1>7 DEF Reports
<1>13. ReportsUsed' BY <1>1, <1>6, <1>10, <1>11 DEF ReportInv, ReportsUsed
<1>14. WritesSound'
  BY <1>6, <1>10, <1>11 DEF ReportInv, WritesSound
<1>15. ResolvedStands' BY <1>5, <1>6, <1>9, <1>10 DEF ReportInv, ResolvedStands
<1>16. OneEach'
  <2>1. \A y \in ReportIds : ReportExists(y)' /\ report'[y].resolved =>
          report'[y].reporter \in reportEarned'
    BY <1>5, <1>6, <1>10 DEF ReportInv, OneEach
  <2>2. u \notin reportEarned =>
          /\ \A y \in ReportIds : ~(ReportExists(y) /\ report[y].reporter = u)
          /\ \A q \in Slots \ {r} : ~Reports(q, u)
    BY <1>3 DEF ReportInv, OneEach
  <2>3. ASSUME NEW v \in Users \ reportEarned', NEW y \in ReportIds, NEW z \in ReportIds,
               ReportExists(y)', report'[y].reporter = v,
               ReportExists(z)', report'[z].reporter = v
        PROVE  y = z
    BY <1>5, <1>6, <1>10, <2>2, <2>3 DEF ReportInv, OneEach
  <2>4. ASSUME NEW v \in Users \ reportEarned', NEW q \in Slots, Reports(q, v)'
        PROVE  /\ \A y \in ReportIds : ~(ReportExists(y)' /\ report'[y].reporter = v)
               /\ \A o \in Slots \ {q} : ~Reports(o, v)'
    <3>1. v # u BY <1>6, <1>12, <2>2, <2>4
    <3>. QED BY <1>5, <1>6, <1>10, <1>12, <2>4, <3>1 DEF ReportInv, OneEach
  <2>. QED BY <2>1, <2>3, <2>4 DEF OneEach
<1>. QED BY <1>8, <1>13, <1>14, <1>15, <1>16 DEF ReportInv

\* A row is deleted.
LEMMA ReportDeleteStep ==
  ASSUME ReportInv, NEW r \in Slots, DeleteReportRow(r) PROVE ReportInv'
<1>1. PICK x : x = reportReq[r].id OBVIOUS
<1>2. x \in ReportIds BY <1>1, ReportFields DEF DeleteReportRow, ReportAt, ReportInv
<1>3. /\ report' \in [ReportIds -> ReportRows \cup {None}]
      /\ report'[x] = None /\ \A y \in ReportIds \ {x} : report'[y] = report[y]
      /\ UNCHANGED <<reportUsed, reportFirm, reportEarned>>
  BY <1>1, <1>2 DEF DeleteReportRow, ReportInv, ReportTypeOK
<1>4. /\ reportReq' \in [Slots -> ReportRequests \cup {None}]
      /\ reportReq'[r] = None
      /\ \A q \in Slots \ {r} : reportReq'[q] = reportReq[q]
  BY DEF DeleteReportRow, ReportReturn, ReportInv, ReportTypeOK
<1>5. ReportTypeOK' BY <1>3, <1>4 DEF ReportInv, ReportTypeOK
<1>6. \A y \in ReportIds : ReportExists(y)' => ReportExists(y) /\ report'[y] = report[y]
  BY <1>3 DEF ReportExists
<1>7. \A q \in Slots, y \in ReportIds :
        OnReport(q, y)' => OnReport(q, y) /\ reportReq'[q] = reportReq[q]
  BY <1>4 DEF OnReport
<1>8. \A q \in Slots, u \in Users : Reports(q, u)' => Reports(q, u)
  BY <1>4 DEF Reports
<1>9. ReportsUsed' BY <1>3, <1>6, <1>7 DEF ReportInv, ReportsUsed
<1>10. WritesSound' BY <1>3, <1>6, <1>7 DEF ReportInv, WritesSound
<1>11. ResolvedStands' BY <1>3, <1>6 DEF ReportInv, ResolvedStands
<1>12. OneEach' BY <1>3, <1>6, <1>8 DEF ReportInv, OneEach
<1>. QED BY <1>5, <1>9, <1>10, <1>11, <1>12 DEF ReportInv

LEMMA ReportReturns ==
  ASSUME ReportTypeOK, NEW r \in Slots, ReportReturn(r) PROVE ReportsEnding
BY DEF ReportReturn, ReportsEnding, ReportTypeOK

\* An update writes the row it read.
LEMMA ReportWriteStep ==
  ASSUME ReportInv, NEW r \in Slots, WriteReport(r) PROVE ReportInv'
<1>1. PICK x : x = reportReq[r].id OBVIOUS
<1>2. PICK row : row = reportReq[r].row OBVIOUS
<1>3. x \in ReportIds /\ row \in ReportRows /\ OnReport(r, x)
  BY <1>1, <1>2, ReportFields DEF WriteReport, ReportAt, OnReport, ReportInv
<1>4. CASE ReportExists(x)
  <2>1. PutReport(r, x, row) /\ ReportReturn(r) /\ reportUsed' = reportUsed
    BY <1>1, <1>2, <1>4 DEF WriteReport
  <2>2. /\ row.resolved <=> row.stamped
        /\ x \in reportFirm => row.resolved
        /\ row.reporter = report[x].reporter
    BY <1>2, <1>3, <1>4 DEF WriteReport, ReportAt, ReportInv, WritesSound
  <2>. QED BY <1>3, <1>4, <2>1, <2>2, ReportPutStep
<1>5. CASE ~ReportExists(x)
  <2>1. ReportReturn(r) /\ UNCHANGED reportTables
    BY <1>1, <1>5 DEF WriteReport, reportTables
  <2>. QED BY <2>1, ReportReturns, ReportEndStep DEF ReportInv
<1>. QED BY <1>4, <1>5

\* A decision sets the status and the mark of a resolution, of the row it finds.
LEMMA ReportDecisionStep ==
  ASSUME ReportInv, NEW r \in Slots, WriteDecision(r) PROVE ReportInv'
<1>1. PICK x : x = reportReq[r].id OBVIOUS
<1>2. PICK status : status = reportReq[r].status OBVIOUS
<1>3. x \in ReportIds /\ status \in ReportStatuses /\ OnReport(r, x)
  BY <1>1, <1>2, ReportFields DEF WriteDecision, ReportAt, OnReport, ReportInv
<1>4. x \notin reportFirm
  BY <1>3 DEF WriteDecision, ReportAt, ReportInv, WritesSound
<1>5. CASE ReportExists(x)
  <2>1. PICK row : row = DecidedRow(x, status) OBVIOUS
  <2>2. PutReport(r, x, row) /\ ReportReturn(r) /\ reportUsed' = reportUsed
    BY <1>1, <1>2, <1>5, <2>1 DEF WriteDecision
  <2>3. report[x] \in ReportRows BY <1>3, <1>5 DEF ReportInv, ReportTypeOK, ReportExists
  <2>4. PICK resolving \in BOOLEAN : resolving = (status = "resolved") OBVIOUS
  <2>5. row = [reporter |-> report[x].reporter, status |-> status,
               resolved |-> resolving, stamped |-> resolving]
    BY <2>1, <2>3, <2>4 DEF DecidedRow, ReportRows
  <2>6. report[x].reporter \in Users BY <2>3 DEF ReportRows
  <2>7. row \in ReportRows BY <1>3, <2>4, <2>5, <2>6 DEF ReportRows
  <2>8. row.reporter = report[x].reporter /\ (row.resolved <=> row.stamped)
    BY <2>5
  <2>. QED BY <1>3, <1>4, <1>5, <2>2, <2>7, <2>8, ReportPutStep
<1>6. CASE ~ReportExists(x)
  <2>1. ReportReturn(r) /\ UNCHANGED reportTables
    BY <1>1, <1>6 DEF WriteDecision, reportTables
  <2>. QED BY <2>1, ReportReturns, ReportEndStep DEF ReportInv
<1>. QED BY <1>5, <1>6

\* An update begins with the row it read, under another status.
LEMMA ReportUpdateStep ==
  ASSUME ReportInv, NEW r \in Slots, UpdateReport(r) PROVE ReportInv'
<1>1. PICK x \in ReportIds, status \in ReportStatuses :
        /\ ReportExists(x) /\ UNCHANGED reportTables
        /\ ReportBegin(r, [op |-> "update", id |-> x,
                           row |-> [report[x] EXCEPT !.status = status]])
  BY DEF UpdateReport
<1>2. PICK row : row = [report[x] EXCEPT !.status = status] OBVIOUS
<1>3. report[x] \in ReportRows BY <1>1 DEF ReportInv, ReportTypeOK, ReportExists
<1>4. /\ row \in ReportRows
      /\ row.resolved = report[x].resolved
      /\ row.stamped = report[x].stamped
      /\ row.reporter = report[x].reporter
  BY <1>2, <1>3 DEF ReportRows
<1>5. PICK request : request = [op |-> "update", id |-> x, row |-> row] OBVIOUS
<1>6. /\ request.op = "update" /\ request.id = x /\ request.row = row
      /\ request \in ReportRequests
  BY <1>4, <1>5 DEF ReportRequests
<1>7. ReportBegin(r, request) BY <1>1, <1>2, <1>5
<1>. QED BY <1>1, <1>4, <1>6, <1>7, ReportBeginStep

LEMMA ReportDecideStep ==
  ASSUME ReportInv, NEW r \in Slots, DecideReport(r) PROVE ReportInv'
<1>1. PICK x \in ReportIds, status \in ReportStatuses \ {"pending"} :
        /\ ReportExists(x) /\ ~report[x].resolved
        /\ ReportBegin(r, [op |-> "decide", id |-> x, status |-> status])
        /\ UNCHANGED reportTables
  BY DEF DecideReport
<1>2. PICK request : request = [op |-> "decide", id |-> x, status |-> status] OBVIOUS
<1>3. request.op = "decide" /\ request.id = x /\ request \in ReportRequests
  BY <1>2 DEF ReportRequests
<1>4. ReportBegin(r, request) BY <1>1, <1>2
<1>. QED BY <1>1, <1>3, <1>4, ReportBeginStep

LEMMA ReportDeletionStep ==
  ASSUME ReportInv, NEW r \in Slots, DeleteReport(r) PROVE ReportInv'
<1>1. PICK x \in ReportIds :
        ReportExists(x) /\ ReportBegin(r, [op |-> "delete", id |-> x]) /\ UNCHANGED reportTables
  BY DEF DeleteReport
<1>2. PICK request : request = [op |-> "delete", id |-> x] OBVIOUS
<1>3. request.op = "delete" /\ request.id = x /\ request \in ReportRequests
  BY <1>2 DEF ReportRequests
<1>4. ReportBegin(r, request) BY <1>1, <1>2
<1>. QED BY <1>1, <1>3, <1>4, ReportBeginStep

LEMMA ReportInvInit == ReportInit => ReportInv
BY DEF ReportInit, ReportInv, ReportTypeOK, ReportsUsed, WritesSound, ResolvedStands, OneEach,
       ReportExists, OnReport, Reports

LEMMA ReportInvStep == ReportInv /\ [ReportNext]_reportVars => ReportInv'
<1> SUFFICES ASSUME ReportInv, [ReportNext]_reportVars PROVE ReportInv'
  OBVIOUS
<1>1. ASSUME NEW r \in Slots, CreateReport(r) PROVE ReportInv'
  BY <1>1, ReportCreateStep
<1>2. ASSUME NEW r \in Slots, InsertReport(r) PROVE ReportInv'
  BY <1>2, ReportInsertStep
<1>3. ASSUME NEW r \in Slots, UpdateReport(r) PROVE ReportInv'
  BY <1>3, ReportUpdateStep
<1>4. ASSUME NEW r \in Slots, WriteReport(r) PROVE ReportInv'
  BY <1>4, ReportWriteStep
<1>5. ASSUME NEW r \in Slots, DecideReport(r) PROVE ReportInv'
  BY <1>5, ReportDecideStep
<1>6. ASSUME NEW r \in Slots, WriteDecision(r) PROVE ReportInv'
  BY <1>6, ReportDecisionStep
<1>7. ASSUME NEW r \in Slots, DeleteReport(r) PROVE ReportInv'
  BY <1>7, ReportDeletionStep
<1>8. ASSUME NEW r \in Slots, DeleteReportRow(r) PROVE ReportInv'
  BY <1>8, ReportDeleteStep
<1>9. ASSUME NEW r \in Slots, ReportAbort(r) PROVE ReportInv'
  <2>1. ReportReturn(r) /\ UNCHANGED reportTables BY <1>9 DEF ReportAbort
  <2>. QED BY <2>1, ReportReturns, ReportEndStep DEF ReportInv
<1>10. CASE UNCHANGED reportVars
  <2>1. UNCHANGED reportTables /\ reportReq' = reportReq BY <1>10 DEF reportVars
  <2>2. ReportsEnding BY <2>1 DEF ReportsEnding, ReportInv, ReportTypeOK
  <2>. QED BY <2>1, <2>2, ReportEndStep
<1>. QED BY <1>1, <1>2, <1>3, <1>4, <1>5, <1>6, <1>7, <1>8, <1>9, <1>10 DEF ReportNext

LEMMA ReportInvHolds == ReportSpec => []ReportInv
BY ReportInvInit, ReportInvStep, PTL DEF ReportSpec

\* Rows and requests of reports are of the types their module declares.
THEOREM ReportTypes == ReportSpec => []ReportTypeOK
BY ReportInvHolds, PTL DEF ReportInv

\* A resolution is whole, and a report resolved while no other request was at it
\* stays resolved (UpdateReport, ResolveReport, RejectReport, ArchiveReport).
THEOREM ResolutionStands == ReportSpec => []ResolvedStands
BY ReportInvHolds, PTL DEF ReportInv

\* Who has two unresolved reports of the story had one resolved before, or two
\* creations under way at once (CreateReport).
THEOREM SecondReportIsEarned == ReportSpec => []SecondReportEarned
<1>1. ReportInv => SecondReportEarned
  BY DEF ReportInv, OneEach, SecondReportEarned, ReportsOf
<1>. QED BY <1>1, ReportInvHolds, PTL

-----------------------------------------------------------------------------
(* Chapters *)

OnChapter(r, c) == chapterReq[r] # None /\ chapterReq[r].op # "insert" /\ chapterReq[r].id = c

\* Chapters stay, so what is about one finds it.
ChaptersThere ==
  \A c \in ChapterIds : ~ChapterExists(c) =>
    chapterFixed[c] = None /\ \A r \in Slots : ~OnChapter(r, c)

\* What an edit will write: a date exactly with a publication, and what is
\* recorded, unless it was asked to change the publication.
EditsSound ==
  \A r \in Slots, c \in ChapterIds : OnChapter(r, c) /\ chapterReq[r].op = "write" =>
    /\ chapterReq[r].row.published <=> chapterReq[r].row.dated
    /\ chapterFixed[c] # None /\ ~chapterReq[r].publishes =>
         /\ chapterReq[r].row.published = chapterFixed[c].published
         /\ chapterReq[r].row.views = chapterFixed[c].views

ChapterInv ==
  ChapterTypeOK /\ ChaptersThere /\ EditsSound /\ PublishedIsDated /\ ChapterFixedStands

LEMMA ChapterFields ==
  ASSUME NEW r \in Slots, ChapterTypeOK, chapterReq[r] # None
  PROVE  /\ chapterReq[r] \in ChapterRequests
         /\ chapterReq[r].op \in {"insert", "write", "reorder", "delete"}
         /\ chapterReq[r].op = "insert" =>
              chapterReq[r].order \in Orders /\ chapterReq[r].published \in BOOLEAN
         /\ chapterReq[r].op # "insert" => chapterReq[r].id \in ChapterIds
         /\ chapterReq[r].op = "write" =>
              chapterReq[r].row \in ChapterRows /\ chapterReq[r].publishes \in BOOLEAN
         /\ chapterReq[r].op = "reorder" => chapterReq[r].order \in Orders
<1>1. chapterReq[r] \in ChapterRequests BY DEF ChapterTypeOK
<1>. QED BY <1>1 DEF ChapterRequests

LEMMA ChapterRowFields ==
  ASSUME NEW row \in ChapterRows
  PROVE  /\ row # None
         /\ row.order \in Orders
         /\ row.published \in BOOLEAN
         /\ row.dated \in BOOLEAN
         /\ row.deleted \in BOOLEAN
         /\ row.views \in 0..MaxViews
BY NoChapterRow DEF ChapterRows

\* A request begins; an edit with the row it read, changed as it was asked.
LEMMA ChapterBeginStep ==
  ASSUME ChapterInv, NEW r \in Slots, NEW request \in ChapterRequests,
         ChapterBegin(r, request),
         request.op # "insert" => ChapterExists(request.id),
         request.op = "write" =>
           /\ request.row.published <=> request.row.dated
           /\ ~request.publishes =>
                /\ request.row.published = chapter[request.id].published
                /\ request.row.views = chapter[request.id].views
  PROVE  ChapterInv'
<1>1. /\ chapterReq[r] = None
      /\ chapterReq' \in [Slots -> ChapterRequests \cup {None}]
      /\ chapterReq'[r] = request
      /\ \A q \in Slots \ {r} : chapterReq'[q] = chapterReq[q]
      /\ UNCHANGED <<chapter, chapterFixed>>
  BY DEF ChapterBegin, ChapterInv, ChapterTypeOK
<1>2. ChapterTypeOK' BY <1>1 DEF ChapterInv, ChapterTypeOK
<1>3. \A c \in ChapterIds : ChapterExists(c)' <=> ChapterExists(c) BY <1>1 DEF ChapterExists
<1>4. \A q \in Slots, c \in ChapterIds :
        OnChapter(q, c)' =>
          \/ q = r /\ request.op # "insert" /\ c = request.id
          \/ q # r /\ OnChapter(q, c) /\ chapterReq'[q] = chapterReq[q]
  BY <1>1 DEF OnChapter
<1>5. ChaptersThere' BY <1>1, <1>3, <1>4 DEF ChapterInv, ChaptersThere
<1>6. EditsSound'
  <2> SUFFICES ASSUME NEW q \in Slots, NEW c \in ChapterIds, OnChapter(q, c)',
                      chapterReq'[q].op = "write"
               PROVE  /\ chapterReq'[q].row.published <=> chapterReq'[q].row.dated
                      /\ chapterFixed[c] # None /\ ~chapterReq'[q].publishes =>
                           /\ chapterReq'[q].row.published = chapterFixed[c].published
                           /\ chapterReq'[q].row.views = chapterFixed[c].views
    BY <1>1 DEF EditsSound
  <2>1. CASE q = r
    <3>1. c = request.id /\ chapterReq'[q] = request BY <1>1, <1>4, <2>1
    <3>2. chapterFixed[c] # None =>
            /\ chapter[c].published = chapterFixed[c].published
            /\ chapter[c].views = chapterFixed[c].views
      BY DEF ChapterInv, ChapterFixedStands
    <3>. QED BY <3>1, <3>2
  <2>2. CASE q # r
    <3>1. OnChapter(q, c) /\ chapterReq'[q] = chapterReq[q] BY <1>4, <2>2
    <3>. QED BY <3>1 DEF ChapterInv, EditsSound
  <2>. QED BY <2>1, <2>2
<1>7. PublishedIsDated' BY <1>1, <1>3 DEF ChapterInv, PublishedIsDated
<1>8. ChapterFixedStands' BY <1>1 DEF ChapterInv, ChapterFixedStands
<1>. QED BY <1>2, <1>5, <1>6, <1>7, <1>8 DEF ChapterInv

\* Requests end or stay as they are.
ChaptersEnding ==
  /\ chapterReq' \in [Slots -> ChapterRequests \cup {None}]
  /\ \A s \in Slots : chapterReq'[s] \in {None, chapterReq[s]}

\* A row changes with a date exactly where it is published; what is recorded of
\* it is dropped, or stays true and is what the row already had.
LEMMA ChapterPutStep ==
  ASSUME ChapterInv, ChaptersEnding, NEW c \in ChapterIds, NEW row \in ChapterRows,
         chapter' = [chapter EXCEPT ![c] = row],
         row.published <=> row.dated,
         chapterFixed' = [chapterFixed EXCEPT ![c] = chapterFixed'[c]],
         chapterFixed'[c] \in {None, chapterFixed[c]},
         chapterFixed'[c] # None =>
           row.published = chapterFixed[c].published /\ row.views = chapterFixed[c].views
  PROVE  ChapterInv'
<1>1. /\ chapter' \in [ChapterIds -> ChapterRows \cup {None}]
      /\ chapter'[c] = row /\ \A d \in ChapterIds \ {c} : chapter'[d] = chapter[d]
  BY DEF ChapterInv, ChapterTypeOK
<1>2. row # None BY ChapterRowFields
<1>3. \A d \in ChapterIds : chapterFixed'[d] \in {None, chapterFixed[d]}
  BY DEF ChapterInv, ChapterTypeOK
<1>4. chapterFixed' \in [ChapterIds -> [published: BOOLEAN, views: 0..MaxViews] \cup {None}]
  BY <1>3 DEF ChapterInv, ChapterTypeOK
<1>5. ChapterTypeOK' BY <1>1, <1>4 DEF ChaptersEnding, ChapterTypeOK
<1>6. \A d \in ChapterIds : ChapterExists(d) => ChapterExists(d)'
  BY <1>1, <1>2 DEF ChapterExists
<1>7. \A q \in Slots, d \in ChapterIds :
        OnChapter(q, d)' => OnChapter(q, d) /\ chapterReq'[q] = chapterReq[q]
  BY DEF OnChapter, ChaptersEnding
<1>8. ChaptersThere' BY <1>3, <1>6, <1>7 DEF ChapterInv, ChaptersThere
<1>9. EditsSound' BY <1>3, <1>7 DEF ChapterInv, EditsSound
<1>10. PublishedIsDated'
  BY <1>1 DEF ChapterInv, PublishedIsDated, ChapterExists
<1>11. ChapterFixedStands' BY <1>1, <1>3 DEF ChapterInv, ChapterFixedStands
<1>. QED BY <1>5, <1>8, <1>9, <1>10, <1>11 DEF ChapterInv

\* A publication or a view is recorded, unless an edit is in flight.
LEMMA ChapterFixStep ==
  ASSUME ChapterInv, NEW c \in ChapterIds, ChapterExists(c), NEW row \in ChapterRows,
         ChapterFix(c, row), row.published <=> row.dated
  PROVE  ChapterInv'
<1>1. /\ chapter' \in [ChapterIds -> ChapterRows \cup {None}]
      /\ chapter'[c] = row /\ \A d \in ChapterIds \ {c} : chapter'[d] = chapter[d]
      /\ chapterReq' = chapterReq
  BY DEF ChapterFix, ChapterInv, ChapterTypeOK
<1>2. /\ row # None /\ row.published \in BOOLEAN /\ row.views \in 0..MaxViews
  BY ChapterRowFields
<1>3. PICK fixed : fixed = [published |-> row.published, views |-> row.views] OBVIOUS
<1>4. /\ fixed \in [published: BOOLEAN, views: 0..MaxViews]
      /\ fixed.published = row.published /\ fixed.views = row.views
  BY <1>2, <1>3
<1>5. /\ chapterFixed' \in [ChapterIds -> [published: BOOLEAN, views: 0..MaxViews] \cup {None}]
      /\ chapterFixed'[c] \in {None, fixed}
      /\ chapterFixed'[c] # None =>
           \A q \in Slots : ~(OnChapter(q, c) /\ chapterReq[q].op = "write")
      /\ \A d \in ChapterIds \ {c} : chapterFixed'[d] = chapterFixed[d]
  BY <1>3, <1>4 DEF ChapterFix, ChapterInv, ChapterTypeOK, OnChapter, ChapterAt
<1>6. ChapterTypeOK' BY <1>1, <1>5 DEF ChapterInv, ChapterTypeOK
<1>7. \A d \in ChapterIds : ChapterExists(d)' <=> ChapterExists(d)
  BY <1>1, <1>2 DEF ChapterExists
<1>8. \A q \in Slots, d \in ChapterIds : OnChapter(q, d)' <=> OnChapter(q, d)
  BY <1>1 DEF OnChapter
<1>9. ChaptersThere' BY <1>5, <1>7, <1>8 DEF ChapterInv, ChaptersThere
<1>10. EditsSound' BY <1>1, <1>5, <1>8 DEF ChapterInv, EditsSound
<1>11. PublishedIsDated' BY <1>1, <1>7 DEF ChapterInv, PublishedIsDated
<1>12. ChapterFixedStands' BY <1>1, <1>4, <1>5 DEF ChapterInv, ChapterFixedStands
<1>. QED BY <1>6, <1>9, <1>10, <1>11, <1>12 DEF ChapterInv

\* A request ends without a write.
LEMMA ChapterEndStep ==
  ASSUME ChapterInv, ChaptersEnding, UNCHANGED <<chapter, chapterFixed>> PROVE ChapterInv'
<1>1. ChapterTypeOK' BY DEF ChapterInv, ChapterTypeOK, ChaptersEnding
<1>2. \A c \in ChapterIds : ChapterExists(c)' <=> ChapterExists(c) BY DEF ChapterExists
<1>3. \A q \in Slots, c \in ChapterIds :
        OnChapter(q, c)' => OnChapter(q, c) /\ chapterReq'[q] = chapterReq[q]
  BY DEF OnChapter, ChaptersEnding
<1>4. ChaptersThere' BY <1>2, <1>3 DEF ChapterInv, ChaptersThere
<1>5. EditsSound' BY <1>3 DEF ChapterInv, EditsSound
<1>6. PublishedIsDated' BY <1>2 DEF ChapterInv, PublishedIsDated
<1>7. ChapterFixedStands' BY DEF ChapterInv, ChapterFixedStands
<1>. QED BY <1>1, <1>4, <1>5, <1>6, <1>7 DEF ChapterInv

LEMMA ChapterReturns ==
  ASSUME ChapterTypeOK, NEW r \in Slots, ChapterReturn(r) PROVE ChaptersEnding
BY DEF ChapterReturn, ChaptersEnding, ChapterTypeOK

LEMMA ChapterRow ==
  ASSUME ChapterInv, NEW c \in ChapterIds, ChapterExists(c)
  PROVE  /\ chapter[c] \in ChapterRows
         /\ chapter[c].published <=> chapter[c].dated
         /\ chapterFixed[c] # None =>
              /\ chapter[c].published = chapterFixed[c].published
              /\ chapter[c].views = chapterFixed[c].views
BY DEF ChapterInv, ChapterTypeOK, ChapterExists, PublishedIsDated, ChapterFixedStands

\* A row changes and keeps its publication and its views.
LEMMA ChapterKeepStep ==
  ASSUME ChapterInv, ChaptersEnding, NEW c \in ChapterIds, ChapterExists(c),
         NEW row \in ChapterRows, chapter' = [chapter EXCEPT ![c] = row],
         UNCHANGED chapterFixed,
         row.published = chapter[c].published, row.dated = chapter[c].dated,
         row.views = chapter[c].views
  PROVE  ChapterInv'
<1>1. /\ chapterFixed' = [chapterFixed EXCEPT ![c] = chapterFixed'[c]]
      /\ chapterFixed'[c] \in {None, chapterFixed[c]}
  BY DEF ChapterInv, ChapterTypeOK
<1>2. /\ row.published <=> row.dated
      /\ chapterFixed'[c] # None =>
           row.published = chapterFixed[c].published /\ row.views = chapterFixed[c].views
  BY ChapterRow
<1>. QED BY <1>1, <1>2, ChapterPutStep

LEMMA ChapterCreateStep ==
  ASSUME ChapterInv, NEW r \in Slots, CreateChapter(r) PROVE ChapterInv'
<1>1. PICK form \in ChapterForms, order \in Orders, published \in BOOLEAN,
           seen \in [ChapterIds -> Orders \cup {None}] \cup {None} :
        ChapterBegin(r, [op |-> "insert", order |-> order, published |-> published,
                         seen |-> seen])
  <2>1. PICK form \in ChapterForms, order \in Orders :
          ChapterBegin(r, [op |-> "insert", order |-> order,
            published |-> form.published = TRUE,
            seen |-> IF form.order # None THEN None
                     ELSE [c \in ChapterIds |-> IF ChapterLive(c) THEN chapter[c].order
                                                ELSE None]])
    BY DEF CreateChapter
  <2>2. PICK published \in BOOLEAN : published = (form.published = TRUE) OBVIOUS
  <2>3. PICK seen : seen = IF form.order # None THEN None
                           ELSE [c \in ChapterIds |-> IF ChapterLive(c) THEN chapter[c].order
                                                      ELSE None]
    OBVIOUS
  <2>4. \A c \in ChapterIds : ChapterLive(c) => chapter[c].order \in Orders
    BY ChapterRow DEF ChapterLive, ChapterRows
  <2>5. seen \in [ChapterIds -> Orders \cup {None}] \cup {None} BY <2>3, <2>4
  <2>. QED BY <2>1, <2>2, <2>3, <2>5
<1>2. PICK request : request = [op |-> "insert", order |-> order, published |-> published,
                                seen |-> seen]
  OBVIOUS
<1>3. request.op = "insert" /\ request \in ChapterRequests BY <1>2 DEF ChapterRequests
<1>4. ChapterBegin(r, request) BY <1>1, <1>2
<1>. QED BY <1>3, <1>4, ChapterBeginStep

\* A new row goes where no chapter is, or is refused.
LEMMA ChapterInsertStep ==
  ASSUME ChapterInv, NEW r \in Slots, InsertChapter(r) PROVE ChapterInv'
<1>1. PICK c \in ChapterIds :
        /\ ~ChapterExists(c)
        /\ chapter' = IF OrderFree(c, chapterReq[r].order)
                      THEN [chapter EXCEPT ![c] =
                             ChapterInsertedRow(chapterReq[r].order, chapterReq[r].published)]
                      ELSE chapter
  BY DEF InsertChapter
<1>2. ChaptersEnding /\ UNCHANGED chapterFixed
  BY ChapterReturns DEF InsertChapter, ChapterInv
<1>3. CASE OrderFree(c, chapterReq[r].order)
  <2>1. PICK order \in Orders, published \in BOOLEAN :
          order = chapterReq[r].order /\ published = chapterReq[r].published
    BY ChapterFields DEF InsertChapter, ChapterAt, ChapterInv
  <2>2. PICK no \in BOOLEAN : no = FALSE OBVIOUS
  <2>3. PICK row : row = [order |-> order, published |-> published, dated |-> published,
                          deleted |-> no, views |-> 0]
    OBVIOUS
  <2>4. chapter' = [chapter EXCEPT ![c] = row]
    BY <1>1, <1>3, <2>1, <2>2, <2>3 DEF ChapterInsertedRow
  <2>5. 0 \in 0..MaxViews BY ChaptersAssumption
  <2>6. row \in ChapterRows BY <2>1, <2>2, <2>3, <2>5 DEF ChapterRows
  <2>7. row.published <=> row.dated BY <2>3
  <2>8. chapterFixed[c] = None BY <1>1 DEF ChapterInv, ChaptersThere
  <2>9. chapterFixed' = [chapterFixed EXCEPT ![c] = chapterFixed'[c]]
    BY <1>2 DEF ChapterInv, ChapterTypeOK
  <2>. QED BY <1>2, <2>4, <2>6, <2>7, <2>8, <2>9, ChapterPutStep
<1>4. CASE ~OrderFree(c, chapterReq[r].order)
  BY <1>1, <1>2, <1>4, ChapterEndStep
<1>. QED BY <1>3, <1>4

LEMMA ChapterUpdateStep ==
  ASSUME ChapterInv, NEW r \in Slots, UpdateChapter(r) PROVE ChapterInv'
<1>1. PICK c \in ChapterIds, form \in ChapterForms :
        /\ ChapterLive(c)
        /\ ChapterBegin(r, [op |-> "write", id |-> c, publishes |-> form.published # None,
                            row |-> ChapterEdited(chapter[c], form)])
  BY DEF UpdateChapter
<1>2. ChapterExists(c) BY <1>1 DEF ChapterLive
<1>3. PICK read \in ChapterRows : read = chapter[c] BY <1>2, ChapterRow
<1>4. read.published <=> read.dated BY <1>2, <1>3, ChapterRow
<1>5. /\ read.order \in Orders /\ read.published \in BOOLEAN /\ read.dated \in BOOLEAN
      /\ read.deleted \in BOOLEAN /\ read.views \in 0..MaxViews
  BY ChapterRowFields
<1>6. PICK order \in Orders :
        order = IF form.order = None THEN read.order ELSE form.order
  BY <1>5 DEF ChapterForms
<1>7. PICK published \in BOOLEAN :
        published = IF form.published = None THEN read.published ELSE form.published
  BY <1>5 DEF ChapterForms
<1>8. PICK dated : dated = CASE form.published = None -> read.dated
                             [] form.published = TRUE -> TRUE
                             [] form.published = FALSE -> FALSE
  OBVIOUS
<1>9. dated \in BOOLEAN /\ (published <=> dated)
  <2>1. None # TRUE /\ None # FALSE BY NoChapterRow
  <2>2. CASE form.published = None
    BY <1>4, <1>5, <1>7, <1>8, <2>1, <2>2
  <2>3. CASE form.published = TRUE
    BY <1>7, <1>8, <2>1, <2>3
  <2>4. CASE form.published = FALSE
    BY <1>7, <1>8, <2>1, <2>4
  <2>5. form.published \in {TRUE, FALSE, None} BY DEF ChapterForms
  <2>. QED BY <2>2, <2>3, <2>4, <2>5
<1>10. PICK row : row = ChapterEdited(read, form) OBVIOUS
<1>11. row = [order |-> order, published |-> published, dated |-> dated,
              deleted |-> read.deleted, views |-> read.views]
  BY <1>6, <1>7, <1>8, <1>10 DEF ChapterEdited, ChapterRows
<1>12. /\ row \in ChapterRows /\ (row.published <=> row.dated)
       /\ form.published = None => row.published = read.published
       /\ row.views = read.views
  BY <1>5, <1>7, <1>9, <1>11 DEF ChapterRows
<1>13. PICK publishes \in BOOLEAN : publishes = (form.published # None) OBVIOUS
<1>14. PICK request : request = [op |-> "write", id |-> c, publishes |-> publishes,
                                 row |-> row]
  OBVIOUS
<1>15. /\ request.op = "write" /\ request.id = c /\ request.publishes = publishes
       /\ request.row = row
       /\ request \in ChapterRequests
  BY <1>12, <1>14 DEF ChapterRequests
<1>16. ChapterBegin(r, request) BY <1>1, <1>3, <1>10, <1>13, <1>14
<1>. QED BY <1>2, <1>3, <1>12, <1>13, <1>15, <1>16, ChapterBeginStep

\* An edit writes the row it holds, and leaves the mark of a deletion.
LEMMA ChapterWriteStep ==
  ASSUME ChapterInv, NEW r \in Slots, WriteChapter(r) PROVE ChapterInv'
<1>1. ChaptersEnding BY ChapterReturns DEF WriteChapter, ChapterInv
<1>2. PICK c \in ChapterIds, held \in ChapterRows :
        c = chapterReq[r].id /\ held = chapterReq[r].row
  BY ChapterFields DEF WriteChapter, ChapterAt, ChapterInv
<1>3. OnChapter(r, c) /\ chapterReq[r].op = "write"
  BY <1>2 DEF WriteChapter, ChapterAt, OnChapter
<1>4. ChapterExists(c) BY <1>3 DEF ChapterInv, ChaptersThere
<1>5. PICK row : row = ChapterUpdatedRow(c, held) OBVIOUS
<1>6. /\ row \in ChapterRows
      /\ row.published = held.published /\ row.dated = held.dated /\ row.views = held.views
      /\ row.order = held.order
  <2>1. chapter[c].deleted \in BOOLEAN BY <1>4, ChapterRow DEF ChapterRows
  <2>. QED BY <1>5, <2>1 DEF ChapterUpdatedRow, ChapterRows
<1>7. CASE OrderFree(c, row.order)
  <2>1. /\ chapter' = [chapter EXCEPT ![c] = row]
        /\ chapterFixed' = [chapterFixed EXCEPT ![c] =
             IF chapterReq[r].publishes THEN None ELSE @]
    BY <1>2, <1>5, <1>7 DEF WriteChapter
  <2>2. /\ chapterFixed' = [chapterFixed EXCEPT ![c] = chapterFixed'[c]]
        /\ chapterFixed'[c] \in {None, chapterFixed[c]}
        /\ chapterReq[r].publishes => chapterFixed'[c] = None
    BY <2>1 DEF ChapterInv, ChapterTypeOK
  <2>3. /\ held.published <=> held.dated
        /\ chapterFixed[c] # None /\ ~chapterReq[r].publishes =>
             held.published = chapterFixed[c].published /\ held.views = chapterFixed[c].views
    BY <1>2, <1>3 DEF ChapterInv, EditsSound
  <2>. QED BY <1>1, <1>6, <2>1, <2>2, <2>3, ChapterPutStep
<1>8. CASE ~OrderFree(c, row.order)
  <2>1. UNCHANGED <<chapter, chapterFixed>> BY <1>2, <1>5, <1>8 DEF WriteChapter
  <2>. QED BY <1>1, <2>1, ChapterEndStep
<1>. QED BY <1>7, <1>8

LEMMA ChapterDeleteStep ==
  ASSUME ChapterInv, NEW r \in Slots, DeleteChapter(r) PROVE ChapterInv'
<1>1. PICK c \in ChapterIds : ChapterLive(c) /\ ChapterBegin(r, [op |-> "delete", id |-> c])
  BY DEF DeleteChapter
<1>2. PICK request : request = [op |-> "delete", id |-> c] OBVIOUS
<1>3. request.op = "delete" /\ request.id = c /\ request \in ChapterRequests
  BY <1>2 DEF ChapterRequests
<1>4. ChapterBegin(r, request) BY <1>1, <1>2
<1>. QED BY <1>1, <1>3, <1>4, ChapterBeginStep DEF ChapterLive

LEMMA ChapterDeletionStep ==
  ASSUME ChapterInv, NEW r \in Slots, WriteChapterDeletion(r) PROVE ChapterInv'
<1>1. ChaptersEnding /\ UNCHANGED chapterFixed
  BY ChapterReturns DEF WriteChapterDeletion, ChapterInv
<1>2. PICK c \in ChapterIds : c = chapterReq[r].id
  BY ChapterFields DEF WriteChapterDeletion, ChapterAt, ChapterInv
<1>3. ChapterExists(c)
  BY <1>2 DEF WriteChapterDeletion, ChapterAt, OnChapter, ChapterInv, ChaptersThere
<1>4. PICK yes \in BOOLEAN : yes = TRUE OBVIOUS
<1>5. PICK row : row = [chapter[c] EXCEPT !.deleted = yes] OBVIOUS
<1>6. /\ row \in ChapterRows /\ row.published = chapter[c].published
      /\ row.dated = chapter[c].dated /\ row.views = chapter[c].views
  BY <1>3, <1>4, <1>5, ChapterRow DEF ChapterRows
<1>7. chapter' = [chapter EXCEPT ![c] = row]
  BY <1>2, <1>4, <1>5 DEF WriteChapterDeletion, ChapterDeletedRow
<1>. QED BY <1>1, <1>3, <1>6, <1>7, ChapterKeepStep

LEMMA ChapterReorderStep ==
  ASSUME ChapterInv, NEW r \in Slots, ReorderChapter(r) PROVE ChapterInv'
<1>1. PICK c \in ChapterIds, order \in Orders :
        ChapterLive(c) /\ ChapterBegin(r, [op |-> "reorder", id |-> c, order |-> order])
  BY DEF ReorderChapter
<1>2. PICK request : request = [op |-> "reorder", id |-> c, order |-> order] OBVIOUS
<1>3. request.op = "reorder" /\ request.id = c /\ request \in ChapterRequests
  BY <1>2 DEF ChapterRequests
<1>4. ChapterBegin(r, request) BY <1>1, <1>2
<1>. QED BY <1>1, <1>3, <1>4, ChapterBeginStep DEF ChapterLive

LEMMA ChapterOrderStep ==
  ASSUME ChapterInv, NEW r \in Slots, WriteOrder(r) PROVE ChapterInv'
<1>1. ChaptersEnding /\ UNCHANGED chapterFixed
  BY ChapterReturns DEF WriteOrder, ChapterInv
<1>2. PICK c \in ChapterIds, order \in Orders : c = chapterReq[r].id /\ order = chapterReq[r].order
  BY ChapterFields DEF WriteOrder, ChapterAt, ChapterInv
<1>3. ChapterExists(c)
  BY <1>2 DEF WriteOrder, ChapterAt, OnChapter, ChapterInv, ChaptersThere
<1>4. PICK row : row = [chapter[c] EXCEPT !.order = order] OBVIOUS
<1>5. /\ row \in ChapterRows /\ row.published = chapter[c].published
      /\ row.dated = chapter[c].dated /\ row.views = chapter[c].views
  BY <1>3, <1>4, ChapterRow DEF ChapterRows
<1>6. CASE OrderFree(c, order)
  <2>1. chapter' = [chapter EXCEPT ![c] = row]
    BY <1>2, <1>4, <1>6 DEF WriteOrder, ReorderedRow
  <2>. QED BY <1>1, <1>3, <1>5, <2>1, ChapterKeepStep
<1>7. CASE ~OrderFree(c, order)
  <2>1. UNCHANGED <<chapter, chapterFixed>> BY <1>1, <1>2, <1>7 DEF WriteOrder
  <2>. QED BY <1>1, <2>1, ChapterEndStep
<1>. QED BY <1>6, <1>7

\* PublishChapter and UnpublishChapter write the mark and the date together.
LEMMA ChapterPublishStep ==
  ASSUME ChapterInv, NEW c \in ChapterIds, ChapterExists(c), NEW mark \in BOOLEAN,
         ChapterFix(c, [chapter[c] EXCEPT !.published = mark, !.dated = mark])
  PROVE  ChapterInv'
<1>1. PICK row : row = [chapter[c] EXCEPT !.published = mark, !.dated = mark] OBVIOUS
<1>2. row \in ChapterRows /\ (row.published <=> row.dated)
  <2>1. chapter[c] \in ChapterRows BY ChapterRow
  <2>2. row = [order |-> chapter[c].order, published |-> mark, dated |-> mark,
               deleted |-> chapter[c].deleted, views |-> chapter[c].views]
    BY <1>1, <2>1 DEF ChapterRows
  <2>. QED BY <2>1, <2>2 DEF ChapterRows
<1>3. ChapterFix(c, row) BY <1>1
<1>. QED BY <1>2, <1>3, ChapterFixStep

LEMMA ChapterViewStep ==
  ASSUME ChapterInv, ViewChapter PROVE ChapterInv'
<1>1. PICK c \in ChapterIds :
        ChapterExists(c) /\ chapter[c].views < MaxViews /\ ChapterFix(c, ViewedRow(c))
  BY DEF ViewChapter
<1>2. PICK row : row = ViewedRow(c) OBVIOUS
<1>3. row \in ChapterRows /\ (row.published <=> row.dated)
  <2>1. chapter[c] \in ChapterRows /\ (chapter[c].published <=> chapter[c].dated)
    BY <1>1, ChapterRow
  <2>2. chapter[c].views + 1 \in 0..MaxViews
    BY <1>1, <2>1, ChaptersAssumption DEF ChapterRows
  <2>3. PICK views \in 0..MaxViews : views = chapter[c].views + 1 BY <2>2
  <2>4. row = [chapter[c] EXCEPT !.views = views] BY <1>2, <2>3 DEF ViewedRow
  <2>. QED BY <2>1, <2>3, <2>4 DEF ChapterRows
<1>. QED BY <1>1, <1>2, <1>3, ChapterFixStep

LEMMA ChapterInvInit == ChapterInit => ChapterInv
BY DEF ChapterInit, ChapterInv, ChapterTypeOK, ChaptersThere, EditsSound, PublishedIsDated,
       ChapterFixedStands, ChapterExists, OnChapter

LEMMA ChapterInvStep == ChapterInv /\ [ChapterNext]_chapterVars => ChapterInv'
<1> SUFFICES ASSUME ChapterInv, [ChapterNext]_chapterVars PROVE ChapterInv'
  OBVIOUS
<1>1. ASSUME NEW r \in Slots, CreateChapter(r) PROVE ChapterInv'
  BY <1>1, ChapterCreateStep
<1>2. ASSUME NEW r \in Slots, InsertChapter(r) PROVE ChapterInv'
  BY <1>2, ChapterInsertStep
<1>3. ASSUME NEW r \in Slots, UpdateChapter(r) PROVE ChapterInv'
  BY <1>3, ChapterUpdateStep
<1>4. ASSUME NEW r \in Slots, WriteChapter(r) PROVE ChapterInv'
  BY <1>4, ChapterWriteStep
<1>5. ASSUME NEW r \in Slots, DeleteChapter(r) PROVE ChapterInv'
  BY <1>5, ChapterDeleteStep
<1>6. ASSUME NEW r \in Slots, WriteChapterDeletion(r) PROVE ChapterInv'
  BY <1>6, ChapterDeletionStep
<1>7. ASSUME NEW r \in Slots, ReorderChapter(r) PROVE ChapterInv'
  BY <1>7, ChapterReorderStep
<1>8. ASSUME NEW r \in Slots, WriteOrder(r) PROVE ChapterInv'
  BY <1>8, ChapterOrderStep
<1>9. ASSUME NEW r \in Slots, ChapterAbort(r) PROVE ChapterInv'
  <2>1. ChapterReturn(r) /\ UNCHANGED <<chapter, chapterFixed>> BY <1>9 DEF ChapterAbort
  <2>. QED BY <2>1, ChapterReturns, ChapterEndStep DEF ChapterInv
<1>10. CASE PublishChapter
  <2>1. PICK c \in ChapterIds : ChapterExists(c) /\ ChapterFix(c, PublishedRow(c))
    BY <1>10 DEF PublishChapter
  <2>2. PICK mark \in BOOLEAN : mark = TRUE OBVIOUS
  <2>3. ChapterFix(c, [chapter[c] EXCEPT !.published = mark, !.dated = mark])
    BY <2>1, <2>2 DEF PublishedRow
  <2>. QED BY <2>1, <2>3, ChapterPublishStep
<1>11. CASE UnpublishChapter
  <2>1. PICK c \in ChapterIds : ChapterExists(c) /\ ChapterFix(c, UnpublishedRow(c))
    BY <1>11 DEF UnpublishChapter
  <2>2. PICK mark \in BOOLEAN : mark = FALSE OBVIOUS
  <2>3. ChapterFix(c, [chapter[c] EXCEPT !.published = mark, !.dated = mark])
    BY <2>1, <2>2 DEF UnpublishedRow
  <2>. QED BY <2>1, <2>3, ChapterPublishStep
<1>12. CASE ViewChapter
  BY <1>12, ChapterViewStep
<1>13. CASE UNCHANGED chapterVars
  <2>1. UNCHANGED <<chapter, chapterReq, chapterFixed>> BY <1>13 DEF chapterVars
  <2>2. ChaptersEnding BY <2>1 DEF ChaptersEnding, ChapterInv, ChapterTypeOK
  <2>. QED BY <2>1, <2>2, ChapterEndStep
<1>. QED BY <1>1, <1>2, <1>3, <1>4, <1>5, <1>6, <1>7, <1>8, <1>9, <1>10, <1>11, <1>12,
            <1>13 DEF ChapterNext

LEMMA ChapterInvHolds == ChapterSpec => []ChapterInv
BY ChapterInvInit, ChapterInvStep, PTL DEF ChapterSpec

\* Rows and requests of chapters are of the types their module declares.
THEOREM ChapterTypes == ChapterSpec => []ChapterTypeOK
BY ChapterInvHolds, PTL DEF ChapterInv

\* However publishing, unpublishing and edits overlap, a chapter has a date of
\* publication exactly when it is published (PublishChapter, UnpublishChapter,
\* UpdateChapter, CreateChapter).
THEOREM PublicationsAreDated == ChapterSpec => []PublishedIsDated
BY ChapterInvHolds, PTL DEF ChapterInv

\* What PublishChapter, UnpublishChapter or IncrementView recorded while no edit
\* was in flight stays until an edit is asked to change the publication.
THEOREM RecordedStays == ChapterSpec => []ChapterFixedStands
BY ChapterInvHolds, PTL DEF ChapterInv

\* What a creation computed its order from: every chapter it saw is before it.
OrderPastSeen ==
  \A r \in Slots : ChapterAt(r, "insert") /\ chapterReq[r].seen # None =>
    \A c \in ChapterIds : chapterReq[r].seen[c] # chapterReq[r].order

\* A nonempty set of orders has a last one.
LEMMA LastOrder ==
  ASSUME NEW T \in SUBSET Orders, T # {}
  PROVE  \E last \in T : \A x \in T : last >= x
<1>1. IsFiniteSet(Orders) BY ChaptersAssumption, FS_Interval DEF Orders
<1>. DEFINE After(x) == {y \in T : y > x}
            All == {After(x) : x \in T}
<1>2. All \subseteq FiniteSubsetsOf(Orders)
  <2>1. \A x \in T : After(x) \in SUBSET Orders OBVIOUS
  <2>2. \A x \in T : IsFiniteSet(After(x)) BY <1>1, <2>1, FS_Subset
  <2>. QED BY <2>1, <2>2 DEF FiniteSubsetsOf
<1>3. All # {} OBVIOUS
<1>4. IsWellFoundedOn(StrictSubsetOrdering(Orders), FiniteSubsetsOf(Orders))
  BY FS_StrictSubsetOrderingWellFounded
<1>5. PICK least \in All : \A other \in All : <<other, least>> \notin StrictSubsetOrdering(Orders)
  <2>. HIDE DEF All
  <2>. QED BY <1>2, <1>3, <1>4, WFMin
<1>6. PICK last \in T : least = After(last) OBVIOUS
<1>7. ASSUME NEW x \in T, ~(last >= x) PROVE FALSE
  <2>1. last \in Int /\ x \in Int /\ T \subseteq Int BY ChaptersAssumption DEF Orders
  <2>2. x \in After(last) /\ x \notin After(x) BY <1>7, <2>1
  <2>3. After(x) \subseteq After(last)
    <3>1. \A y \in Int : y > x => y > last BY <1>7, <2>1
    <3>. QED BY <2>1, <3>1
  <2>4. <<After(x), After(last)>> \in StrictSubsetOrdering(Orders)
    BY <2>2, <2>3 DEF StrictSubsetOrdering
  <2>. QED BY <1>5, <1>6, <2>4
<1>. QED BY <1>6, <1>7

\* NextSortOrder is past the order of every chapter that is not deleted.
LEMMA NextOrderIsPast ==
  ASSUME ChapterTypeOK, NEW c \in ChapterIds, ChapterLive(c)
  PROVE  chapter[c].order # NextSortOrder
<1>. DEFINE live == {d \in ChapterIds : ChapterLive(d)}
            orders == {chapter[d].order : d \in live}
<1>1. c \in live OBVIOUS
<1>2. orders \in SUBSET Orders
  <2>1. ASSUME NEW d \in live PROVE chapter[d].order \in Orders
    <3>1. chapter[d] \in ChapterRows BY DEF ChapterTypeOK, ChapterLive, ChapterExists
    <3>. QED BY <3>1, ChapterRowFields
  <2>. QED BY <2>1
<1>3. chapter[c].order \in orders BY <1>1
<1>4. PICK last \in orders : \A x \in orders : last >= x
  <2>. HIDE DEF orders
  <2>. QED BY <1>2, <1>3, LastOrder
<1>5. Max(orders) \in orders /\ \A x \in orders : Max(orders) >= x
  <2>. HIDE DEF orders
  <2>. QED BY <1>4 DEF Max
<1>6. NextSortOrder = Max(orders) + 1 BY <1>1 DEF NextSortOrder
<1>7. Max(orders) \in Int /\ chapter[c].order \in Int
  BY <1>2, <1>3, <1>5, ChaptersAssumption DEF Orders
<1>8. Max(orders) >= chapter[c].order BY <1>3, <1>5
<1>. HIDE DEF orders
<1>. QED BY <1>6, <1>7, <1>8

\* A creation is the only step that begins an insertion.
LEMMA InsertionsBegin ==
  ASSUME ChapterTypeOK, [ChapterNext]_chapterVars,
         NEW r \in Slots, ChapterAt(r, "insert")', ~CreateChapter(r)
  PROVE  chapterReq'[r] = chapterReq[r]
<1>1. ASSUME NEW q \in Slots, ChapterReturn(q) PROVE chapterReq'[r] = chapterReq[r]
  BY <1>1 DEF ChapterReturn, ChapterAt, ChapterTypeOK
<1>2. ASSUME NEW q \in Slots, NEW request, request.op # "insert" \/ q # r,
             ChapterBegin(q, request)
      PROVE  chapterReq'[r] = chapterReq[r]
  BY <1>2 DEF ChapterBegin, ChapterAt, ChapterTypeOK
<1>3. ASSUME NEW q \in Slots, CreateChapter(q) PROVE chapterReq'[r] = chapterReq[r]
  BY <1>2, <1>3 DEF CreateChapter
<1>4. ASSUME NEW q \in Slots, UpdateChapter(q) PROVE chapterReq'[r] = chapterReq[r]
  <2>1. PICK c \in ChapterIds, form \in ChapterForms :
          ChapterBegin(q, [op |-> "write", id |-> c, publishes |-> form.published # None,
                           row |-> ChapterEdited(chapter[c], form)])
    BY <1>4 DEF UpdateChapter
  <2>. QED BY <1>2, <2>1
<1>5. ASSUME NEW q \in Slots, DeleteChapter(q) PROVE chapterReq'[r] = chapterReq[r]
  BY <1>2, <1>5 DEF DeleteChapter
<1>6. ASSUME NEW q \in Slots, ReorderChapter(q) PROVE chapterReq'[r] = chapterReq[r]
  BY <1>2, <1>6 DEF ReorderChapter
<1>7. ASSUME NEW q \in Slots,
             \/ InsertChapter(q) \/ WriteChapter(q) \/ WriteChapterDeletion(q)
             \/ WriteOrder(q) \/ ChapterAbort(q)
      PROVE  chapterReq'[r] = chapterReq[r]
  BY <1>1, <1>7 DEF InsertChapter, WriteChapter, WriteChapterDeletion, WriteOrder, ChapterAbort
<1>8. CASE PublishChapter \/ UnpublishChapter \/ ViewChapter
  BY <1>8 DEF PublishChapter, UnpublishChapter, ViewChapter, ChapterFix
<1>9. CASE UNCHANGED chapterVars BY <1>9 DEF chapterVars
<1>. QED BY <1>3, <1>4, <1>5, <1>6, <1>7, <1>8, <1>9 DEF ChapterNext

LEMMA OrderPastSeenStep ==
  ASSUME ChapterTypeOK, OrderPastSeen, [ChapterNext]_chapterVars
  PROVE  OrderPastSeen'
<1> SUFFICES ASSUME NEW r \in Slots, ChapterAt(r, "insert")', chapterReq'[r].seen # None,
                    NEW c \in ChapterIds
             PROVE  chapterReq'[r].seen[c] # chapterReq'[r].order
  BY DEF OrderPastSeen
<1>1. CASE CreateChapter(r)
  <2>1. PICK form, order, request :
          /\ form \in ChapterForms /\ order \in Orders
          /\ order = IF form.order = None THEN NextSortOrder ELSE form.order
          /\ request = [op |-> "insert", order |-> order,
               published |-> form.published = TRUE,
               seen |-> IF form.order # None THEN None
                        ELSE [d \in ChapterIds |-> IF ChapterLive(d) THEN chapter[d].order
                                                   ELSE None]]
          /\ ChapterBegin(r, request)
    BY <1>1 DEF CreateChapter
  <2>2. chapterReq'[r] = request BY <2>1 DEF ChapterBegin, ChapterTypeOK
  <2>3. form.order = None BY <2>1, <2>2
  <2>4. /\ chapterReq'[r].order = NextSortOrder
        /\ chapterReq'[r].seen[c] = IF ChapterLive(c) THEN chapter[c].order ELSE None
    BY <2>1, <2>2, <2>3
  <2>5. None # NextSortOrder BY <2>1, <2>3, ChaptersAssumption DEF Orders
  <2>. QED BY <2>4, <2>5, NextOrderIsPast
<1>2. CASE ~CreateChapter(r)
  <2>1. chapterReq'[r] = chapterReq[r] BY <1>2, InsertionsBegin
  <2>. QED BY <2>1 DEF OrderPastSeen, ChapterAt
<1>. QED BY <1>1, <1>2

LEMMA RefusalStep ==
  ASSUME OrderPastSeen, NEW r \in Slots, ChapterAt(r, "insert"), chapterReq[r].seen # None,
         ~OrderFree(None, chapterReq[r].order)
  PROVE  \E c \in ChapterIds :
           /\ ChapterExists(c)
           /\ chapter[c].order = chapterReq[r].order
           /\ chapter[c].deleted \/ chapterReq[r].seen[c] # chapterReq[r].order
BY DEF OrderPastSeen, OrderFree

\* A creation without an order of its own is refused only because of a deleted
\* chapter, or of one that took its order after GetNextChapterSortOrder had read
\* the maximum (CreateChapter).
THEOREM RefusalsAreRaces == ChapterSpec => RefusedOnlyByRace
<1>1. ChapterInit => OrderPastSeen BY DEF ChapterInit, OrderPastSeen, ChapterAt
<1>2. ChapterTypeOK /\ OrderPastSeen /\ [ChapterNext]_chapterVars => OrderPastSeen'
  BY OrderPastSeenStep
<1>3. ChapterSpec => []OrderPastSeen BY <1>1, <1>2, ChapterTypes, PTL DEF ChapterSpec
<1>4. OrderPastSeen /\ [ChapterNext]_chapterVars =>
        [\A r \in Slots :
           /\ ChapterAt(r, "insert")
           /\ chapterReq'[r] = None
           /\ chapterReq[r].seen # None
           /\ ~OrderFree(None, chapterReq[r].order)
           => \E c \in ChapterIds :
                /\ ChapterExists(c)
                /\ chapter[c].order = chapterReq[r].order
                /\ chapter[c].deleted \/ chapterReq[r].seen[c] # chapterReq[r].order
        ]_chapterVars
  BY RefusalStep
<1>. QED BY <1>3, <1>4, PTL DEF ChapterSpec, RefusedOnlyByRace

-----------------------------------------------------------------------------
(* The cache of submissions *)

\* Nothing is known of an id that was not inserted.
CacheUnborn ==
  \A x \in CachedIds : writes[x] = 0 =>
    cachedRow[x] = None /\ entry[x] = None /\ \A r \in Slots : ~OnEntry(r, x)

\* A reader may be answered with the row there is, and what it will answer is
\* something it may be answered with.
ReadersSound ==
  \A r \in Slots : CacheOp(r, "read") =>
    /\ ShownRow(cachedRow[cacheReq[r].id]) \in cacheReq[r].since
    /\ cacheReq[r].at # "select" => cacheReq[r].row \in cacheReq[r].since

\* The entry is in step, and so is what will be stored; a writer has the id to
\* itself, and has removed the entry before it writes.
InStep(x) ==
  /\ entry[x] \in {None, cachedRow[x]}
  /\ \A r \in Slots : OnEntry(r, x) =>
       /\ cacheReq[r].at = "set" => cacheReq[r].row = cachedRow[x]
       /\ Writes(cacheReq[r].op) =>
            /\ cacheReq[r].at = "write" => entry[x] = None
            /\ \A q \in Slots \ {r} : ~OnEntry(q, x)

CacheInv ==
  /\ CacheTypeOK
  /\ CacheUnborn
  /\ ReadersSound
  /\ \A x \in CachedIds \ entryLoose : InStep(x)

LEMMA CacheFields ==
  ASSUME NEW r \in Slots, CacheTypeOK, cacheReq[r] # None
  PROVE  /\ cacheReq[r] \in CacheRequests
         /\ cacheReq[r].op \in {"read", "list", "save", "remove"}
         /\ cacheReq[r].at \in {"select", "set", "answer", "write"}
         /\ cacheReq[r].id \in CachedIds
         /\ cacheReq[r].at = "set" => cacheReq[r].row \in CachedRows \cup {None}
         /\ cacheReq[r].op = "read" =>
              /\ cacheReq[r].row \in CachedRows \cup {None}
              /\ cacheReq[r].since \subseteq CachedRows \cup {None}
              /\ cacheReq[r].at # "write"
         /\ cacheReq[r].at \in {"select", "answer"} => cacheReq[r].op = "read"
         /\ cacheReq[r].at = "write" => Writes(cacheReq[r].op)
<1>1. cacheReq[r] \in CacheRequests BY DEF CacheTypeOK
<1>. QED BY <1>1 DEF CacheRequests, Writes

LEMMA ShownRowType ==
  ASSUME NEW row \in CachedRows \cup {None}
  PROVE  ShownRow(row) \in CachedRows \cup {None} /\ ShownRow(row) \in {None, row}
BY DEF ShownRow

\* A reader or a list begins.
LEMMA CacheReadStep ==
  ASSUME CacheInv, NEW r \in Slots, NEW call \in CacheRequests, CacheBegin(r, call),
         call.op \in {"read", "list"}, writes[call.id] > 0,
         UNCHANGED <<cachedRow, writes, entry>>,
         entryLoose' = IF Crossed(r, call.id, call.op) THEN entryLoose \cup {call.id}
                       ELSE entryLoose,
         call.at = "set" => call.row = cachedRow[call.id],
         call.op = "read" => ShownRow(cachedRow[call.id]) \in call.since /\ call.at = "select"
  PROVE  CacheInv'
<1>1. /\ cacheReq[r] = None
      /\ cacheReq' \in [Slots -> CacheRequests \cup {None}]
      /\ cacheReq'[r] = call
      /\ \A q \in Slots \ {r} : cacheReq'[q] = cacheReq[q]
  BY DEF CacheBegin, CacheInv, CacheTypeOK
<1>2. call # None /\ call.id \in CachedIds BY NoCachedRow DEF CacheRequests
<1>3. CacheTypeOK' BY <1>1, <1>2 DEF CacheInv, CacheTypeOK
<1>4. \A q \in Slots, x \in CachedIds :
        OnEntry(q, x)' <=> IF q = r THEN x = call.id ELSE OnEntry(q, x)
  BY <1>1, <1>2 DEF OnEntry
<1>5. CacheUnborn' BY <1>2, <1>4 DEF CacheInv, CacheUnborn, CacheTypeOK
<1>6. ReadersSound' BY <1>1, <1>2 DEF CacheInv, ReadersSound, CacheOp
<1>7. ~Writes(call.op) BY DEF Writes
<1>8. ASSUME NEW x \in CachedIds \ entryLoose' PROVE InStep(x)'
  <2>1. x \notin entryLoose /\ InStep(x) BY <1>8 DEF CacheInv
  <2>2. CASE x # call.id
    <3>1. \A q \in Slots : OnEntry(q, x)' => OnEntry(q, x) /\ cacheReq'[q] = cacheReq[q]
      BY <1>1, <1>4, <2>2
    <3>. QED BY <2>1, <3>1 DEF InStep
  <2>3. CASE x = call.id
    <3>1. \A q \in Slots \ {r} : OnEntry(q, x) => ~Writes(cacheReq[q].op)
      BY <1>8, <2>3 DEF Crossed
    <3>2. \A q \in Slots : OnEntry(q, x)' => ~Writes(cacheReq'[q].op)
      BY <1>1, <1>4, <1>7, <3>1
    <3>3. \A q \in Slots : OnEntry(q, x)' /\ cacheReq'[q].at = "set" =>
            cacheReq'[q].row = cachedRow[x]
      BY <1>1, <1>4, <2>1, <2>3 DEF InStep
    <3>. QED BY <2>1, <3>2, <3>3 DEF InStep
  <2>. QED BY <2>2, <2>3
<1>. QED BY <1>3, <1>5, <1>6, <1>8 DEF CacheInv

\* A writer begins with the removal of the key.
LEMMA CacheDropStep ==
  ASSUME CacheInv, NEW r \in Slots, NEW call \in CacheRequests, CacheBegin(r, call),
         Writes(call.op), call.at = "write", writes[call.id] > 0,
         UNCHANGED <<cachedRow, writes>>, DropEntry(r, call.id)
  PROVE  CacheInv'
<1>1. /\ cacheReq[r] = None
      /\ cacheReq' \in [Slots -> CacheRequests \cup {None}]
      /\ cacheReq'[r] = call
      /\ \A q \in Slots \ {r} : cacheReq'[q] = cacheReq[q]
  BY DEF CacheBegin, CacheInv, CacheTypeOK
<1>2. call # None /\ call.id \in CachedIds BY NoCachedRow DEF CacheRequests
<1>3. /\ entry' \in [CachedIds -> CachedRows \cup {None}]
      /\ \A x \in CachedIds \ {call.id} : entry'[x] = entry[x]
      /\ entryLoose' \subseteq entryLoose \cup {call.id}
      /\ \A x \in CachedIds \ {call.id} : x \in entryLoose => x \in entryLoose'
      /\ call.id \notin entryLoose' => Alone(r, call.id) /\ entry'[call.id] = None
  BY <1>2 DEF DropEntry, CacheInv, CacheTypeOK
<1>4. CacheTypeOK' BY <1>1, <1>2, <1>3 DEF CacheInv, CacheTypeOK
<1>5. \A q \in Slots, x \in CachedIds :
        OnEntry(q, x)' <=> IF q = r THEN x = call.id ELSE OnEntry(q, x)
  BY <1>1, <1>2 DEF OnEntry
<1>6. CacheUnborn' BY <1>2, <1>3, <1>5 DEF CacheInv, CacheUnborn, CacheTypeOK
<1>7. ReadersSound' BY <1>1, <1>2 DEF CacheInv, ReadersSound, CacheOp, Writes
<1>8. ASSUME NEW x \in CachedIds \ entryLoose' PROVE InStep(x)'
  <2>1. CASE x # call.id
    <3>1. x \notin entryLoose /\ InStep(x) BY <1>3, <1>8, <2>1 DEF CacheInv
    <3>2. \A q \in Slots : OnEntry(q, x)' <=> OnEntry(q, x) BY <1>1, <1>5, <2>1 DEF OnEntry
    <3>3. \A q \in Slots : OnEntry(q, x)' => cacheReq'[q] = cacheReq[q]
      BY <1>1, <1>5, <2>1
    <3>. QED BY <1>3, <2>1, <3>1, <3>2, <3>3 DEF InStep
  <2>2. CASE x = call.id
    <3>1. entry'[x] = None /\ \A q \in Slots \ {r} : ~OnEntry(q, x)
      BY <1>3, <1>8, <2>2 DEF Alone
    <3>2. \A q \in Slots : OnEntry(q, x)' => q = r BY <1>5, <3>1
    <3>. QED BY <1>1, <3>1, <3>2 DEF InStep
  <2>. QED BY <2>1, <2>2
<1>. QED BY <1>4, <1>6, <1>7, <1>8 DEF CacheInv

\* A row is written by a call that goes on, ends, or is none of the slots'.
LEMMA CachePutStep ==
  ASSUME CacheInv, NEW x \in CachedIds, NEW row \in CachedRows \cup {None}, NEW requests,
         PutCached(requests, x, row), writes[x] < MaxWrites, entry' = entry,
         requests \in [Slots -> CacheRequests \cup {None}],
         \A q \in Slots : OnEntry(q, x) /\ CacheOp(q, "read") => requests[q] = cacheReq[q],
         \A q \in Slots : requests[q] # cacheReq[q] /\ requests[q] # None =>
           /\ requests[q].op = "save" /\ requests[q].at = "set"
           /\ requests[q].id = x /\ requests[q].row = row,
         \/ x \in entryLoose' /\ entryLoose' = entryLoose \cup {x}
         \/ /\ entryLoose' = entryLoose
            /\ x \notin entryLoose => entry[x] = None
            /\ x \notin entryLoose =>
                 \E r \in Slots : /\ \A q \in Slots \ {r} : ~OnEntry(q, x)
                                  /\ \A q \in Slots \ {r} : requests[q] = cacheReq[q]
                                  /\ requests[r] # cacheReq[r]
  PROVE  CacheInv'
<1>1. /\ cachedRow' \in [CachedIds -> CachedRows \cup {None}]
      /\ cachedRow'[x] = row /\ \A y \in CachedIds \ {x} : cachedRow'[y] = cachedRow[y]
      /\ writes' \in [CachedIds -> 0..MaxWrites]
      /\ writes'[x] > 0 /\ \A y \in CachedIds \ {x} : writes'[y] = writes[y]
  BY CacheAssumption DEF PutCached, CacheInv, CacheTypeOK
<1>2. ShownRow(row) \in CachedRows \cup {None} BY ShownRowType
<1>3. ASSUME NEW q \in Slots
      PROVE  \/ /\ OnEntry(q, x) /\ CacheOp(q, "read")
                /\ cacheReq'[q] = [cacheReq[q] EXCEPT !.since = @ \cup {ShownRow(row)}]
             \/ ~(OnEntry(q, x) /\ CacheOp(q, "read")) /\ cacheReq'[q] = requests[q]
  BY DEF PutCached
<1>4. ASSUME NEW q \in Slots, OnEntry(q, x), CacheOp(q, "read")
      PROVE  /\ cacheReq'[q] \in CacheRequests
             /\ cacheReq'[q].op = "read" /\ cacheReq'[q].at = cacheReq[q].at
             /\ cacheReq'[q].id = x /\ cacheReq'[q].row = cacheReq[q].row
             /\ cacheReq'[q].since = cacheReq[q].since \cup {ShownRow(row)}
  <2>1. cacheReq[q] # None /\ cacheReq[q].op = "read" /\ cacheReq[q].id = x
    BY <1>4 DEF OnEntry, CacheOp
  <2>2. cacheReq[q] \in CacheRequests BY <2>1, CacheFields DEF CacheInv
  <2>3. cacheReq[q] \in [op: {"read"}, at: {"select", "set", "answer"}, id: CachedIds,
                         row: CachedRows \cup {None}, since: SUBSET (CachedRows \cup {None})]
    BY <2>1, <2>2 DEF CacheRequests
  <2>4. cacheReq'[q] = [cacheReq[q] EXCEPT !.since = @ \cup {ShownRow(row)}] BY <1>3, <1>4
  <2>5. cacheReq'[q] \in [op: {"read"}, at: {"select", "set", "answer"}, id: CachedIds,
                          row: CachedRows \cup {None}, since: SUBSET (CachedRows \cup {None})]
    BY <1>2, <2>3, <2>4
  <2>. QED BY <2>1, <2>3, <2>4, <2>5 DEF CacheRequests
<1>5. cacheReq' \in [Slots -> CacheRequests \cup {None}]
  <2>1. \A q \in Slots : cacheReq'[q] \in CacheRequests \cup {None} BY <1>3, <1>4
  <2>2. cacheReq' = [q \in Slots |-> cacheReq'[q]] BY DEF PutCached
  <2>. QED BY <2>1, <2>2
<1>6. CacheTypeOK' BY <1>1, <1>5 DEF CacheInv, CacheTypeOK
<1>7. \A q \in Slots, y \in CachedIds \ {x} :
        OnEntry(q, y)' => OnEntry(q, y) /\ cacheReq'[q] = cacheReq[q]
  BY <1>3, <1>4, NoCachedRow DEF OnEntry
<1>8. CacheUnborn' BY <1>1, <1>7 DEF CacheInv, CacheUnborn
<1>9. ReadersSound'
  <2> SUFFICES ASSUME NEW q \in Slots, CacheOp(q, "read")'
               PROVE  /\ ShownRow(cachedRow'[cacheReq'[q].id]) \in cacheReq'[q].since
                      /\ cacheReq'[q].at # "select" => cacheReq'[q].row \in cacheReq'[q].since
    BY DEF ReadersSound, ShownRow
  <2>1. CASE OnEntry(q, x) /\ CacheOp(q, "read")
    <3>1. cacheReq[q].at # "select" => cacheReq[q].row \in cacheReq[q].since
      BY <2>1 DEF CacheInv, ReadersSound
    <3>. QED BY <1>1, <1>4, <2>1, <3>1
  <2>2. CASE ~(OnEntry(q, x) /\ CacheOp(q, "read"))
    <3>1. cacheReq'[q] = requests[q] BY <1>3, <2>2
    <3>2. cacheReq'[q] # None /\ cacheReq'[q].op = "read" BY DEF CacheOp
    <3>3. cacheReq'[q] = cacheReq[q] BY <3>1, <3>2
    <3>4. CacheOp(q, "read") /\ cacheReq[q].id # x /\ cacheReq[q].id \in CachedIds
      BY <2>2, <3>2, <3>3, CacheFields DEF CacheOp, OnEntry, CacheInv
    <3>. QED BY <1>1, <3>3, <3>4 DEF CacheInv, ReadersSound
  <2>. QED BY <2>1, <2>2
<1>10. ASSUME NEW y \in CachedIds \ entryLoose' PROVE InStep(y)'
  <2>1. y \notin entryLoose /\ InStep(y) BY <1>10 DEF CacheInv
  <2>2. CASE y # x
    <3>1. \A q \in Slots : OnEntry(q, y)' => OnEntry(q, y) /\ cacheReq'[q] = cacheReq[q]
      BY <1>7, <2>2
    <3>. QED BY <1>1, <2>1, <2>2, <3>1 DEF InStep
  <2>3. CASE y = x
    <3>1. entry[x] = None BY <1>10, <2>1, <2>3
    <3>2. PICK r \in Slots : /\ \A q \in Slots \ {r} : ~OnEntry(q, x)
                             /\ \A q \in Slots \ {r} : requests[q] = cacheReq[q]
                             /\ requests[r] # cacheReq[r]
      BY <1>10, <2>1, <2>3
    <3>3. \A q \in Slots \ {r} : ~OnEntry(q, x)'
      BY <1>3, <3>2 DEF OnEntry
    <3>4. OnEntry(r, x)' => cacheReq'[r].at = "set" /\ cacheReq'[r].row = row
      BY <1>3, <3>2 DEF OnEntry
    <3>. QED BY <1>1, <2>3, <3>1, <3>3, <3>4 DEF InStep
  <2>. QED BY <2>2, <2>3
<1>. QED BY <1>6, <1>8, <1>9, <1>10 DEF CacheInv

\* A step that writes no row: a reader may go on, a call may end, and a key may
\* go or take the row that was to be stored.
LEMMA CacheQuietStep ==
  ASSUME CacheInv, UNCHANGED <<cachedRow, writes, entryLoose>>,
         cacheReq' \in [Slots -> CacheRequests \cup {None}],
         \A q \in Slots : cacheReq'[q] # None =>
           /\ cacheReq[q] # None
           /\ cacheReq'[q].id = cacheReq[q].id /\ cacheReq'[q].op = cacheReq[q].op
           /\ cacheReq'[q] = cacheReq[q]
              \/ /\ cacheReq'[q].op = "read" /\ cacheReq'[q].since = cacheReq[q].since
                 /\ cacheReq'[q].row \in cacheReq[q].since
                 /\ cacheReq'[q].at = "set" => cacheReq'[q].row = cachedRow[cacheReq[q].id],
         entry' \in [CachedIds -> CachedRows \cup {None}],
         \A x \in CachedIds : entry'[x] # entry[x] =>
           \E r \in Slots : OnEntry(r, x) /\ cacheReq[r].at = "set" /\ entry'[x] = cacheReq[r].row
  PROVE  CacheInv'
<1>1. CacheTypeOK' BY DEF CacheInv, CacheTypeOK
<1>2. \A q \in Slots, x \in CachedIds : OnEntry(q, x)' => OnEntry(q, x) BY DEF OnEntry
<1>3. CacheUnborn' BY <1>2 DEF CacheInv, CacheUnborn
<1>4. ReadersSound'
  <2> SUFFICES ASSUME NEW q \in Slots, CacheOp(q, "read")'
               PROVE  /\ ShownRow(cachedRow[cacheReq'[q].id]) \in cacheReq'[q].since
                      /\ cacheReq'[q].at # "select" => cacheReq'[q].row \in cacheReq'[q].since
    BY DEF ReadersSound, ShownRow
  <2>1. CacheOp(q, "read") /\ cacheReq'[q] # None /\ cacheReq'[q].id = cacheReq[q].id
    BY DEF CacheOp
  <2>. QED BY <2>1 DEF CacheInv, ReadersSound
<1>5. ASSUME NEW x \in CachedIds \ entryLoose' PROVE InStep(x)'
  <2>1. x \notin entryLoose /\ InStep(x) BY <1>5 DEF CacheInv
  <2>2. entry'[x] \in {None, cachedRow[x]} BY <2>1 DEF InStep
  <2>3. ASSUME NEW q \in Slots, OnEntry(q, x)'
        PROVE  /\ cacheReq'[q].at = "set" => cacheReq'[q].row = cachedRow[x]
               /\ Writes(cacheReq'[q].op) =>
                    /\ cacheReq'[q].at = "write" => entry'[x] = None
                    /\ \A o \in Slots \ {q} : ~OnEntry(o, x)'
    <3>1. OnEntry(q, x) /\ cacheReq'[q] # None /\ cacheReq[q].id = x
      BY <1>2, <2>3 DEF OnEntry
    <3>2. cacheReq'[q].at = "set" => cacheReq'[q].row = cachedRow[x]
      BY <2>1, <3>1 DEF InStep
    <3>3. ASSUME Writes(cacheReq'[q].op)
          PROVE  /\ cacheReq'[q].at = "write" => entry'[x] = None
                 /\ \A o \in Slots \ {q} : ~OnEntry(o, x)'
      <4>1. Writes(cacheReq[q].op) /\ cacheReq'[q] = cacheReq[q] BY <3>1, <3>3 DEF Writes
      <4>2. \A o \in Slots \ {q} : ~OnEntry(o, x) BY <2>1, <3>1, <4>1 DEF InStep
      <4>3. cacheReq[q].at = "write" => entry'[x] = None
        BY <2>1, <3>1, <4>1, <4>2 DEF InStep
      <4>. QED BY <1>2, <4>1, <4>2, <4>3
    <3>. QED BY <3>2, <3>3
  <2>. QED BY <2>2, <2>3 DEF InStep
<1>. QED BY <1>1, <1>3, <1>4, <1>5 DEF CacheInv

LEMMA CacheExpireStep == CacheInv /\ Expire => CacheInv'
<1> SUFFICES ASSUME CacheInv, Expire PROVE CacheInv' OBVIOUS
<1>1. PICK x \in CachedIds :
        /\ entry' = [entry EXCEPT ![x] = None]
        /\ entryLoose' = IF \E q \in Slots : OnEntry(q, x) THEN entryLoose
                         ELSE entryLoose \ {x}
        /\ UNCHANGED <<cachedRow, writes, cacheReq>>
  BY DEF Expire
<1>2. /\ entry' \in [CachedIds -> CachedRows \cup {None}]
      /\ entry'[x] = None /\ \A y \in CachedIds \ {x} : entry'[y] = entry[y]
  BY <1>1 DEF CacheInv, CacheTypeOK
<1>3. CacheTypeOK' BY <1>1, <1>2 DEF CacheInv, CacheTypeOK
<1>4. \A q \in Slots, y \in CachedIds : OnEntry(q, y)' <=> OnEntry(q, y) BY <1>1 DEF OnEntry
<1>5. CacheUnborn' BY <1>1, <1>2, <1>4 DEF CacheInv, CacheUnborn
<1>6. ReadersSound' BY <1>1 DEF CacheInv, ReadersSound, CacheOp, ShownRow
<1>7. ASSUME NEW y \in CachedIds \ entryLoose' PROVE InStep(y)'
  <2>1. CASE y \in entryLoose
    <3>1. y = x /\ \A q \in Slots : ~OnEntry(q, x) BY <1>1, <1>7, <2>1
    <3>. QED BY <1>2, <1>4, <3>1 DEF InStep
  <2>2. CASE y \notin entryLoose
    <3>1. InStep(y) BY <2>2 DEF CacheInv
    <3>2. entry'[y] \in {None, entry[y]} BY <1>2
    <3>. QED BY <1>1, <1>4, <3>1, <3>2 DEF InStep
  <2>. QED BY <2>1, <2>2
<1>. QED BY <1>3, <1>5, <1>6, <1>7 DEF CacheInv

LEMMA CachePastStep == ASSUME CacheInv, NEW x \in CachedIds, WritePast(x) PROVE CacheInv'
<1>1. writes[x] + 1 \in 1..MaxWrites
  BY CacheAssumption DEF WritePast, CacheInv, CacheTypeOK
<1>2. cachedRow[x] \in CachedRows BY DEF WritePast, CacheInv, CacheTypeOK
<1>3. NextVersion(x, cachedRow[x].deleted) \in CachedRows
  BY <1>1, <1>2 DEF NextVersion, CachedRows
<1>4. cacheReq \in [Slots -> CacheRequests \cup {None}] BY DEF CacheInv, CacheTypeOK
<1>. QED BY <1>3, <1>4, CachePutStep DEF WritePast

LEMMA CacheFresh == CacheInit => CacheInv
<1> SUFFICES ASSUME CacheInit PROVE CacheInv OBVIOUS
<1>1. CacheTypeOK BY CacheAssumption DEF CacheInit, CacheTypeOK
<1>2. \A r \in Slots : cacheReq[r] = None BY DEF CacheInit
<1>3. CacheUnborn /\ ReadersSound
  BY <1>2 DEF CacheInit, CacheUnborn, ReadersSound, OnEntry, CacheOp
<1>4. \A x \in CachedIds : InStep(x) BY <1>2 DEF CacheInit, InStep, OnEntry
<1>. QED BY <1>1, <1>3, <1>4 DEF CacheInv

\* The calls that begin with a look at the cache or at the tables.
LEMMA CacheLookStep ==
  ASSUME CacheInv, NEW r \in Slots, ReadCached(r) \/ ListCached(r)
  PROVE  CacheInv'
<1>1. CASE ReadCached(r)
  <2>1. PICK x \in CachedIds :
          /\ writes[x] > 0
          /\ CacheBegin(r, [op |-> "read", at |-> IF Hit(x) THEN "answer" ELSE "select",
                            id |-> x, row |-> IF Hit(x) THEN entry[x] ELSE None,
                            since |-> {ShownRow(cachedRow[x])}])
          /\ entryLoose' = IF Crossed(r, x, "read") THEN entryLoose \cup {x} ELSE entryLoose
          /\ UNCHANGED <<cachedRow, writes, entry>>
    BY <1>1 DEF ReadCached
  <2> DEFINE call == [op |-> "read", at |-> "select", id |-> x, row |-> None,
                      since |-> {ShownRow(cachedRow[x])}]
  <2>2. ~Hit(x) BY DEF Hit, DecodeErrs
  <2>3. CacheBegin(r, call) BY <2>1, <2>2
  <2>4. ShownRow(cachedRow[x]) \in CachedRows \cup {None}
    BY ShownRowType DEF CacheInv, CacheTypeOK
  <2>5. call \in CacheRequests BY <2>4 DEF CacheRequests
  <2>6. /\ call.op = "read" /\ call.at = "select" /\ call.id = x
        /\ ShownRow(cachedRow[x]) \in call.since
    OBVIOUS
  <2>. QED BY <2>1, <2>3, <2>5, <2>6, CacheReadStep
<1>2. CASE ListCached(r)
  <2>1. PICK x \in CachedIds :
          /\ ShownRow(cachedRow[x]) # None
          /\ CacheBegin(r, [op |-> "list", at |-> "set", id |-> x, row |-> cachedRow[x]])
          /\ entryLoose' = IF Crossed(r, x, "list") THEN entryLoose \cup {x} ELSE entryLoose
          /\ UNCHANGED <<cachedRow, writes, entry>>
    BY <1>2 DEF ListCached
  <2> DEFINE call == [op |-> "list", at |-> "set", id |-> x, row |-> cachedRow[x]]
  <2>2. cachedRow[x] # None /\ cachedRow[x] \in CachedRows
    BY <2>1 DEF ShownRow, CacheInv, CacheTypeOK
  <2>3. writes[x] > 0 BY <2>2 DEF CacheInv, CacheTypeOK, CacheUnborn
  <2>4. call \in CacheRequests BY <2>2 DEF CacheRequests
  <2>5. call.op = "list" /\ call.at = "set" /\ call.id = x /\ call.row = cachedRow[x]
    OBVIOUS
  <2>. QED BY <2>1, <2>3, <2>4, <2>5, CacheReadStep
<1>. QED BY <1>1, <1>2

\* The calls that begin with the removal of the key.
LEMMA CacheRemoveStep ==
  ASSUME CacheInv, NEW r \in Slots, SaveCached(r) \/ RemoveCached(r)
  PROVE  CacheInv'
<1>1. PICK op \in {"save", "remove"}, x \in CachedIds :
        /\ writes[x] > 0
        /\ CacheBegin(r, [op |-> op, at |-> "write", id |-> x])
        /\ DropEntry(r, x)
        /\ UNCHANGED <<cachedRow, writes>>
  BY DEF SaveCached, RemoveCached
<1> DEFINE call == [op |-> op, at |-> "write", id |-> x]
<1>2. call \in CacheRequests BY DEF CacheRequests
<1>3. call.at = "write" /\ call.id = x /\ Writes(call.op) BY DEF Writes
<1>. QED BY <1>1, <1>2, <1>3, CacheDropStep

LEMMA CacheCreateStep == ASSUME CacheInv, NEW r \in Slots, CreateCached(r) PROVE CacheInv'
<1>1. PICK x \in CachedIds :
        /\ cacheReq[r] = None /\ writes[x] = 0 /\ MaxWrites > 0
        /\ PutCached([cacheReq EXCEPT ![r] = [op |-> "save", at |-> "set", id |-> x,
                                              row |-> NextVersion(x, FALSE)]],
                     x, NextVersion(x, FALSE))
        /\ UNCHANGED <<entry, entryLoose>>
  BY DEF CreateCached
<1> DEFINE row == NextVersion(x, FALSE)
           call == [op |-> "save", at |-> "set", id |-> x, row |-> row]
           requests == [cacheReq EXCEPT ![r] = call]
<1>2. row \in CachedRows BY <1>1, CacheAssumption DEF NextVersion, CachedRows
<1>3. call \in CacheRequests /\ call # None
  <2>. HIDE DEF row
  <2>1. call \in CacheRequests BY <1>2 DEF CacheRequests
  <2>. HIDE DEF call
  <2>. QED BY <2>1, NoCachedRow
<1>4. cacheReq \in [Slots -> CacheRequests \cup {None}] BY DEF CacheInv, CacheTypeOK
<1>5. /\ requests \in [Slots -> CacheRequests \cup {None}]
      /\ requests[r] = call /\ \A q \in Slots \ {r} : requests[q] = cacheReq[q]
  BY <1>3, <1>4
<1>6. entry[x] = None /\ \A q \in Slots : ~OnEntry(q, x)
  BY <1>1 DEF CacheInv, CacheUnborn
<1>7. call.op = "save" /\ call.at = "set" /\ call.id = x /\ call.row = row OBVIOUS
<1>8. requests[r] # cacheReq[r] BY <1>1, <1>3, <1>5
<1>9. writes[x] < MaxWrites BY <1>1
<1>10. PutCached(requests, x, row) BY <1>1
<1>. HIDE DEF row, call, requests
<1>11. \A q \in Slots : requests[q] # cacheReq[q] /\ requests[q] # None =>
         /\ requests[q].op = "save" /\ requests[q].at = "set"
         /\ requests[q].id = x /\ requests[q].row = row
  BY <1>5, <1>7
<1>. QED BY <1>1, <1>2, <1>5, <1>6, <1>8, <1>9, <1>10, <1>11, CachePutStep

\* A writer that has come to its statement.
LEMMA CacheWriterAlone ==
  ASSUME CacheInv, NEW r \in Slots, CacheAt(r, "write")
  PROVE  /\ cacheReq[r].id \in CachedIds /\ OnEntry(r, cacheReq[r].id)
         /\ ~CacheOp(r, "read")
         /\ cacheReq[r].id \notin entryLoose =>
              /\ entry[cacheReq[r].id] = None
              /\ \A q \in Slots \ {r} : ~OnEntry(q, cacheReq[r].id)
<1>1. cacheReq[r] # None /\ cacheReq[r].at = "write" BY DEF CacheAt
<1>2. cacheReq[r].id \in CachedIds /\ Writes(cacheReq[r].op) BY <1>1, CacheFields DEF CacheInv
<1>. QED BY <1>1, <1>2 DEF OnEntry, CacheOp, Writes, CacheInv, InStep

LEMMA CacheWriteStep ==
  ASSUME CacheInv, NEW r \in Slots, WriteCached(r)
  PROVE  CacheInv'
<1> DEFINE x == cacheReq[r].id
<1>1. CacheAt(r, "write") /\ CacheOp(r, "save") /\ UNCHANGED <<entry, entryLoose>>
  BY DEF WriteCached
<1>2. /\ x \in CachedIds /\ OnEntry(r, x) /\ ~CacheOp(r, "read")
      /\ x \notin entryLoose => entry[x] = None /\ \A q \in Slots \ {r} : ~OnEntry(q, x)
  BY <1>1, CacheWriterAlone
<1>3. cacheReq \in [Slots -> CacheRequests \cup {None}] BY DEF CacheInv, CacheTypeOK
<1>4. ASSUME cachedRow[x] # None, writes[x] < MaxWrites,
             NEW deleted \in {FALSE, cachedRow[x].deleted},
             PutCached([cacheReq EXCEPT ![r] = [op |-> "save", at |-> "set", id |-> x,
                                                row |-> NextVersion(x, deleted)]],
                       x, NextVersion(x, deleted))
      PROVE  CacheInv'
  <2> DEFINE row == NextVersion(x, deleted)
             call == [op |-> "save", at |-> "set", id |-> x, row |-> row]
             requests == [cacheReq EXCEPT ![r] = call]
  <2>1. cachedRow[x] \in CachedRows BY <1>2, <1>4 DEF CacheInv, CacheTypeOK
  <2>2. deleted \in BOOLEAN BY <2>1 DEF CachedRows
  <2>3. writes[x] + 1 \in 1..MaxWrites
    BY <1>2, <1>4, CacheAssumption DEF CacheInv, CacheTypeOK
  <2>4. row \in CachedRows BY <2>2, <2>3 DEF NextVersion, CachedRows
  <2>5. call \in CacheRequests BY <1>2, <2>4 DEF CacheRequests
  <2>6. /\ requests \in [Slots -> CacheRequests \cup {None}]
        /\ requests[r] = call /\ \A q \in Slots \ {r} : requests[q] = cacheReq[q]
    BY <1>3, <2>5
  <2>7. call.op = "save" /\ call.at = "set" /\ call.id = x /\ call.row = row OBVIOUS
  <2>8. requests[r] # cacheReq[r] BY <1>1, <2>6, <2>7 DEF CacheAt
  <2>9. PutCached(requests, x, row) BY <1>4
  <2>. HIDE DEF row, call, requests
  <2>10. /\ \A q \in Slots : OnEntry(q, x) /\ CacheOp(q, "read") => requests[q] = cacheReq[q]
         /\ \A q \in Slots : requests[q] # cacheReq[q] /\ requests[q] # None =>
              /\ requests[q].op = "save" /\ requests[q].at = "set"
              /\ requests[q].id = x /\ requests[q].row = row
    BY <1>2, <2>6, <2>7
  <2>. HIDE DEF x
  <2>. QED BY <1>1, <1>2, <1>4, <2>4, <2>6, <2>8, <2>9, <2>10, CachePutStep
<1>5. ASSUME cachedRow[x] = None, CacheReturn(r), UNCHANGED <<cachedRow, writes>>
      PROVE  CacheInv'
  <2>1. /\ cacheReq' \in [Slots -> CacheRequests \cup {None}]
        /\ cacheReq'[r] = None /\ \A q \in Slots \ {r} : cacheReq'[q] = cacheReq[q]
    BY <1>3, <1>5 DEF CacheReturn
  <2>. QED BY <1>1, <1>5, <2>1, CacheQuietStep DEF CacheInv, CacheTypeOK
<1>. QED BY <1>4, <1>5 DEF WriteCached

LEMMA CacheDeleteStep ==
  ASSUME CacheInv, NEW r \in Slots, DeleteCached(r)
  PROVE  CacheInv'
<1> DEFINE x == cacheReq[r].id
           freed == [cacheReq EXCEPT ![r] = None]
<1>1. /\ CacheAt(r, "write") /\ UNCHANGED <<entry, entryLoose>>
      /\ writes[x] < MaxWrites
  BY DEF DeleteCached
<1>2. /\ x \in CachedIds /\ OnEntry(r, x) /\ ~CacheOp(r, "read")
      /\ x \notin entryLoose => entry[x] = None /\ \A q \in Slots \ {r} : ~OnEntry(q, x)
  BY <1>1, CacheWriterAlone
<1>3. PICK row \in CachedRows \cup {None} : PutCached(freed, x, row)
  <2>1. CASE PutCached(freed, x, None) BY <2>1
  <2>2. CASE cachedRow[x] # None /\ PutCached(freed, x, NextVersion(x, TRUE))
    <3>1. writes[x] + 1 \in 1..MaxWrites
      BY <1>1, <1>2, CacheAssumption DEF CacheInv, CacheTypeOK
    <3>2. NextVersion(x, TRUE) \in CachedRows BY <3>1 DEF NextVersion, CachedRows
    <3>. QED BY <2>2, <3>2
  <2>. QED BY <2>1, <2>2 DEF DeleteCached
<1>4. cacheReq \in [Slots -> CacheRequests \cup {None}] BY DEF CacheInv, CacheTypeOK
<1>5. /\ freed \in [Slots -> CacheRequests \cup {None}]
      /\ freed[r] = None /\ \A q \in Slots \ {r} : freed[q] = cacheReq[q]
  BY <1>4
<1>6. freed[r] # cacheReq[r] BY <1>1, <1>5 DEF CacheAt
<1>. HIDE DEF freed
<1>7. /\ \A q \in Slots : OnEntry(q, x) /\ CacheOp(q, "read") => freed[q] = cacheReq[q]
      /\ \A q \in Slots : freed[q] # cacheReq[q] => freed[q] = None
  BY <1>2, <1>5
<1>. HIDE DEF x
<1>. QED BY <1>1, <1>2, <1>3, <1>5, <1>6, <1>7, CachePutStep

\* The steps that write no row.
LEMMA CacheOwnStep ==
  ASSUME CacheInv, NEW r \in Slots,
         SetEntry(r) \/ SelectCached(r) \/ AnswerCached(r) \/ CacheAbort(r)
  PROVE  CacheInv'
<1>1. /\ cacheReq \in [Slots -> CacheRequests \cup {None}]
      /\ entry \in [CachedIds -> CachedRows \cup {None}]
  BY DEF CacheInv, CacheTypeOK
<1>2. CASE CacheReturn(r) /\ UNCHANGED cacheTables
  <2>1. /\ cacheReq' \in [Slots -> CacheRequests \cup {None}]
        /\ cacheReq'[r] = None /\ \A q \in Slots \ {r} : cacheReq'[q] = cacheReq[q]
    BY <1>1, <1>2 DEF CacheReturn
  <2>. QED BY <1>1, <1>2, <2>1, CacheQuietStep DEF cacheTables
<1>3. CASE SetEntry(r)
  <2>1. cacheReq[r] # None /\ cacheReq[r].at = "set" BY <1>3 DEF SetEntry, CacheAt
  <2>2. cacheReq[r].id \in CachedIds /\ cacheReq[r].row \in CachedRows \cup {None}
    BY <2>1, CacheFields DEF CacheInv
  <2>3. /\ entry' \in [CachedIds -> CachedRows \cup {None}]
        /\ \A x \in CachedIds : entry'[x] # entry[x] =>
             x = cacheReq[r].id /\ entry'[x] = cacheReq[r].row
    BY <1>1, <1>3, <2>2 DEF SetEntry
  <2>4. \A x \in CachedIds : entry'[x] # entry[x] =>
          \E q \in Slots : OnEntry(q, x) /\ cacheReq[q].at = "set" /\ entry'[x] = cacheReq[q].row
    BY <2>1, <2>3 DEF OnEntry
  <2>5. UNCHANGED <<cachedRow, writes, entryLoose>> BY <1>3 DEF SetEntry
  <2>6. CASE CacheOp(r, "read") /\ cacheReq' = [cacheReq EXCEPT ![r].at = "answer"]
    <3>1. cacheReq[r].op = "read" /\ cacheReq[r] \in CacheRequests
      BY <2>1, <2>6, CacheFields DEF CacheOp, CacheInv
    <3>2. cacheReq[r] \in [op: {"read"}, at: {"select", "set", "answer"}, id: CachedIds,
                           row: CachedRows \cup {None}, since: SUBSET (CachedRows \cup {None})]
      BY <3>1 DEF CacheRequests
    <3>3. cacheReq'[r] = [cacheReq[r] EXCEPT !.at = "answer"] BY <1>1, <2>6
    <3>4. /\ cacheReq'[r] \in CacheRequests /\ cacheReq'[r].op = "read"
          /\ cacheReq'[r].at = "answer" /\ cacheReq'[r].id = cacheReq[r].id
          /\ cacheReq'[r].since = cacheReq[r].since /\ cacheReq'[r].row = cacheReq[r].row
      BY <3>2, <3>3 DEF CacheRequests
    <3>5. \A q \in Slots \ {r} : cacheReq'[q] = cacheReq[q] BY <1>1, <2>6
    <3>6. cacheReq' \in [Slots -> CacheRequests \cup {None}]
      <4>1. cacheReq' = [q \in Slots |-> cacheReq'[q]] BY <1>1, <2>6
      <4>. QED BY <1>1, <3>4, <3>5, <4>1
    <3>7. cacheReq[r].row \in cacheReq[r].since
      BY <2>1, <2>6 DEF CacheInv, ReadersSound
    <3>. QED BY <2>1, <2>3, <2>4, <2>5, <3>1, <3>4, <3>5, <3>6, <3>7, CacheQuietStep
  <2>7. CASE ~CacheOp(r, "read") /\ CacheReturn(r)
    <3>1. /\ cacheReq' \in [Slots -> CacheRequests \cup {None}]
          /\ cacheReq'[r] = None /\ \A q \in Slots \ {r} : cacheReq'[q] = cacheReq[q]
      BY <1>1, <2>7 DEF CacheReturn
    <3>. QED BY <2>3, <2>4, <2>5, <3>1, CacheQuietStep
  <2>. QED BY <1>3, <2>6, <2>7 DEF SetEntry
<1>4. CASE SelectCached(r)
  <2> DEFINE row == ShownRow(cachedRow[cacheReq[r].id])
             at == IF row = None THEN "answer" ELSE "set"
  <2>1. cacheReq[r] # None /\ cacheReq[r].at = "select" BY <1>4 DEF SelectCached, CacheAt
  <2>2. cacheReq[r].op = "read" /\ cacheReq[r] \in CacheRequests /\ cacheReq[r].id \in CachedIds
    BY <2>1, CacheFields DEF CacheInv
  <2>3. row \in CachedRows \cup {None} /\ row \in {None, cachedRow[cacheReq[r].id]}
    BY <2>2, ShownRowType DEF CacheInv, CacheTypeOK
  <2>4. cacheReq[r] \in [op: {"read"}, at: {"select", "set", "answer"}, id: CachedIds,
                         row: CachedRows \cup {None}, since: SUBSET (CachedRows \cup {None})]
    BY <2>2 DEF CacheRequests
  <2>5. cacheReq' = [cacheReq EXCEPT ![r].at = at, ![r].row = row] /\ UNCHANGED cacheTables
    BY <1>4 DEF SelectCached
  <2>6. at \in {"answer", "set"} /\ (at = "set" => row = cachedRow[cacheReq[r].id])
    BY <2>3
  <2>. HIDE DEF at, row
  <2>7. /\ cacheReq'[r] = [cacheReq[r] EXCEPT !.at = at, !.row = row]
        /\ \A q \in Slots \ {r} : cacheReq'[q] = cacheReq[q]
    BY <1>1, <2>5
  <2>8. /\ cacheReq'[r] \in CacheRequests /\ cacheReq'[r].op = "read"
        /\ cacheReq'[r].at = at /\ cacheReq'[r].id = cacheReq[r].id
        /\ cacheReq'[r].since = cacheReq[r].since /\ cacheReq'[r].row = row
    BY <2>3, <2>4, <2>6, <2>7 DEF CacheRequests
  <2>9. cacheReq' \in [Slots -> CacheRequests \cup {None}]
    <3>1. cacheReq' = [q \in Slots |-> cacheReq'[q]] BY <1>1, <2>5
    <3>. QED BY <1>1, <2>7, <2>8, <3>1
  <2>10. row \in cacheReq[r].since
    BY <2>1, <2>2 DEF row, CacheInv, ReadersSound, CacheOp
  <2>. QED BY <1>1, <2>1, <2>2, <2>5, <2>6, <2>7, <2>8, <2>9, <2>10, CacheQuietStep
       DEF cacheTables
<1>. QED BY <1>2, <1>3, <1>4 DEF AnswerCached, CacheAbort

LEMMA CacheInvHolds == CacheSpec => []CacheInv
<1>1. CacheInv /\ UNCHANGED cacheVars => CacheInv'
  BY DEF CacheInv, CacheTypeOK, CacheUnborn, ReadersSound, InStep, cacheVars, cacheTables,
         OnEntry, CacheOp, ShownRow
<1>2. CacheInv /\ CacheNext => CacheInv'
  <2> SUFFICES ASSUME CacheInv, CacheNext PROVE CacheInv' OBVIOUS
  <2>1. CASE Expire BY <2>1, CacheExpireStep
  <2>2. CASE ApproveCached \/ ArchiveCached
    BY <2>2, CachePastStep DEF ApproveCached, ArchiveCached
  <2>3. ASSUME NEW r \in Slots,
               \/ CreateCached(r) \/ SetEntry(r)
               \/ ReadCached(r) \/ SelectCached(r) \/ AnswerCached(r) \/ ListCached(r)
               \/ SaveCached(r) \/ WriteCached(r)
               \/ RemoveCached(r) \/ DeleteCached(r)
               \/ CacheAbort(r)
        PROVE  CacheInv'
    <3>1. CASE ReadCached(r) \/ ListCached(r) BY <3>1, CacheLookStep
    <3>2. CASE SaveCached(r) \/ RemoveCached(r) BY <3>2, CacheRemoveStep
    <3>3. CASE CreateCached(r) BY <3>3, CacheCreateStep
    <3>4. CASE WriteCached(r) BY <3>4, CacheWriteStep
    <3>5. CASE DeleteCached(r) BY <3>5, CacheDeleteStep
    <3>6. CASE SetEntry(r) \/ SelectCached(r) \/ AnswerCached(r) \/ CacheAbort(r)
      BY <3>6, CacheOwnStep
    <3>. QED BY <2>3, <3>1, <3>2, <3>3, <3>4, <3>5, <3>6
  <2>. QED BY <2>1, <2>2, <2>3 DEF CacheNext
<1>. QED BY CacheFresh, <1>1, <1>2, PTL DEF CacheSpec

\* The cached rows, their entries and the calls keep their types.
THEOREM CacheTypes == CacheSpec => []CacheTypeOK
<1>1. CacheInv => CacheTypeOK BY DEF CacheInv
<1>. QED BY <1>1, CacheInvHolds, PTL

\* GetByID answers with a row that was the current one at some moment of the
\* call: any number of requests, submissions and writes.
THEOREM ReadsStayCurrent == CacheSpec => []ReadsAreCurrent
<1>1. CacheInv => ReadsAreCurrent
  <2> SUFFICES ASSUME CacheInv, NEW r \in Slots, CacheAt(r, "answer")
               PROVE  cacheReq[r].row \in cacheReq[r].since
    BY DEF ReadsAreCurrent
  <2>1. cacheReq[r] # None /\ cacheReq[r].at = "answer" BY DEF CacheAt
  <2>2. CacheOp(r, "read") BY <2>1, CacheFields DEF CacheInv, CacheOp
  <2>. QED BY <2>1, <2>2 DEF CacheInv, ReadersSound
<1>. QED BY <1>1, CacheInvHolds, PTL

\* An entry differs from its row only after a write past the repository or in a
\* task, a removal that failed, or calls that overlapped.
THEOREM EntriesInStep == CacheSpec => []EntryInStep
<1>1. CacheInv => EntryInStep BY DEF CacheInv, InStep, EntryInStep
<1>. QED BY <1>1, CacheInvHolds, PTL

(* The parts together *)

\* The checked composition runs one part at a time, so a behaviour of it is a
\* behaviour of every part: what a part's specification promises, it keeps.
THEOREM EachPartRuns ==
  Spec => /\ FolderSpec /\ DocSpec /\ ChapterSpec /\ StorySpec
          /\ CommentSpec /\ ReportSpec /\ FileSpec /\ CacheSpec
<1>1. Init => /\ FolderInit /\ DocInit /\ ChapterInit /\ StoryInit
              /\ CommentInit /\ ReportInit /\ FileInit /\ CacheInit
  BY DEF Init
<1>2. [Next]_vars => [FolderNext]_folderVars
  BY DEF Next, vars, FolderStep, DocStep, ChapterStep, StoryStep, CommentStep, ReportStep,
         FileStep, CacheStep
<1>3. [Next]_vars => [DocNext]_docVars
  BY DEF Next, vars, FolderStep, DocStep, ChapterStep, StoryStep, CommentStep, ReportStep,
         FileStep, CacheStep
<1>4. [Next]_vars => [ChapterNext]_chapterVars
  BY DEF Next, vars, FolderStep, DocStep, ChapterStep, StoryStep, CommentStep, ReportStep,
         FileStep, CacheStep
<1>5. [Next]_vars => [StoryNext]_storyVars
  BY DEF Next, vars, FolderStep, DocStep, ChapterStep, StoryStep, CommentStep, ReportStep,
         FileStep, CacheStep
<1>6. [Next]_vars => [CommentNext]_commentVars
  BY DEF Next, vars, FolderStep, DocStep, ChapterStep, StoryStep, CommentStep, ReportStep,
         FileStep, CacheStep
<1>7. [Next]_vars => [ReportNext]_reportVars
  BY DEF Next, vars, FolderStep, DocStep, ChapterStep, StoryStep, CommentStep, ReportStep,
         FileStep, CacheStep
<1>8. [Next]_vars => [FileNext]_fileVars
  BY DEF Next, vars, FolderStep, DocStep, ChapterStep, StoryStep, CommentStep, ReportStep,
         FileStep, CacheStep
<1>9. [Next]_vars => [CacheNext]_cacheVars
  BY DEF Next, vars, FolderStep, DocStep, ChapterStep, StoryStep, CommentStep, ReportStep,
         FileStep, CacheStep
<1>. QED
  BY <1>1, <1>2, <1>3, <1>4, <1>5, <1>6, <1>7, <1>8, <1>9, PTL
     DEF Spec, FolderSpec, DocSpec, ChapterSpec, StorySpec, CommentSpec, ReportSpec,
         FileSpec, CacheSpec

\* The types of all parts.
THEOREM ContentTyped == Spec => []ContentTypeOK
<1>1. /\ FolderTypeOK /\ DocTypeOK /\ ChapterTypeOK /\ StoryTypeOK
      /\ CommentTypeOK /\ ReportTypeOK /\ FileTypeOK /\ CacheTypeOK
      => ContentTypeOK
  BY DEF ContentTypeOK
<1>. QED
  BY <1>1, EachPartRuns, FolderTypes, DocTypes, ChapterTypes, StoryTypes, CommentTypes,
     ReportTypes, FileTypes, CacheTypes, PTL
=============================================================================
