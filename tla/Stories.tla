------------------------------ MODULE Stories -------------------------------
(***************************************************************************)
(* Stories (internal/feature/story): status, deletion mark and genres.     *)
(*                                                                         *)
(* UpdateStory, which also publishes and archives, reads the row, writes   *)
(* all of it back, clears the genres and adds the new ones row by row; no  *)
(* two statements share a transaction.  Texts, flags and the publication   *)
(* times, which no operation sets, are left out, and so is the rating of a *)
(* story, one upsert.                                                      *)
(***************************************************************************)
EXTENDS Requests

CONSTANTS
  StoryIds,  \* identities of stories
  Genres     \* genres that exist

ASSUME StoriesAssumption == None \notin StoryIds \cup Genres

VARIABLES
  story,       \* table story: id |-> row, or None
  storyGenre,  \* table story_genre: id |-> its genres
  storyReq,    \* requests in flight
  storyGone    \* history: stories deleted while no update of them was in flight

storyVars == <<story, storyGenre, storyReq, storyGone>>

\* The statuses an update may give: UpdateStoryRequest does not restrict them.
StoryStatuses == {"draft", "published", "archived", "deleted", "is_reviewed", "is_approved"}
StoryRows == [owner: Users, status: StoryStatuses, deleted: BOOLEAN]
\* A request: the row it will write, whether it was given genres, which ones, and
\* those still to add; alone is history: no other request named the story
\* since this one began.
StoryRequests ==
  [at: {"write", "delete", "clear", "add"}, id: StoryIds, row: StoryRows,
   regenre: BOOLEAN, genres: SUBSET Genres, todo: SUBSET Genres, alone: BOOLEAN]

ASSUME NoStoryRow == None \notin StoryRows \cup StoryRequests

StoryTypeOK ==
  /\ story \in [StoryIds -> StoryRows \cup {None}]
  /\ storyGenre \in [StoryIds -> SUBSET Genres]
  /\ storyReq \in [Slots -> StoryRequests \cup {None}]
  /\ storyGone \subseteq StoryIds

StoryInit ==
  /\ story = [s \in StoryIds |-> None]
  /\ storyGenre = [s \in StoryIds |-> {}]
  /\ storyReq = [r \in Slots |-> None]
  /\ storyGone = {}

-----------------------------------------------------------------------------
(* Statements *)

StoryExists(s) == story[s] # None

\* GetStoryByID and the ownership check.
OwnStory(u, s) == StoryExists(s) /\ ~story[s].deleted /\ story[s].owner = u

StoryAt(r, stage) == storyReq[r] # None /\ storyReq[r].at = stage
OnStory(r, s) == storyReq[r] # None /\ storyReq[r].id = s

\* A request begins: what is in flight for the same story is not alone.
StoryBegin(r, stage, s, row, regenre, genres) ==
  /\ storyReq[r] = None
  /\ storyReq' = [q \in Slots |->
       IF q = r
       THEN [at |-> stage, id |-> s, row |-> row, regenre |-> regenre,
             genres |-> genres, todo |-> genres,
             alone |-> \A other \in Slots : ~OnStory(other, s)]
       ELSE IF OnStory(q, s) THEN [storyReq[q] EXCEPT !.alone = FALSE]
       ELSE storyReq[q]]

StoryGoto(r, stage) == storyReq' = [storyReq EXCEPT ![r].at = stage]
StoryReturn(r) == storyReq' = [storyReq EXCEPT ![r] = None]

ClearGenresFromStory(s) == storyGenre' = [storyGenre EXCEPT ![s] = {}]
\* ON CONFLICT DO NOTHING.
AddGenreToStory(s, g) == storyGenre' = [storyGenre EXCEPT ![s] = @ \cup {g}]

-----------------------------------------------------------------------------
(* Operations *)

\* CreateStory: the row, then its genres.
CreateStory(r) ==
  \E s \in StoryIds, u \in Users, genres \in SUBSET Genres :
    LET row == [owner |-> u, status |-> "draft", deleted |-> FALSE]
    IN  /\ ~StoryExists(s)
        /\ StoryBegin(r, "add", s, row, TRUE, genres)
        /\ story' = [story EXCEPT ![s] = row]
        /\ UNCHANGED <<storyGenre, storyGone>>

\* UpdateStory reads a row that is not deleted, so the deletion mark it will
\* write back is NULL.
UpdateStory(r) ==
  \E s \in StoryIds, u \in Users, status \in StoryStatuses,
     regenre \in BOOLEAN, genres \in SUBSET Genres :
    /\ OwnStory(u, s)
    /\ regenre \/ genres = {}
    /\ StoryBegin(r, "write", s, [story[s] EXCEPT !.status = status], regenre, genres)
    /\ UNCHANGED <<story, storyGenre, storyGone>>

\* A mutant of WriteStory: the genres are not cleared.
WriteStoryUncleared(r) ==
  /\ StoryAt(r, "write")
  /\ story' = [story EXCEPT ![storyReq[r].id] = storyReq[r].row]
  /\ IF storyReq[r].regenre THEN StoryGoto(r, "add") ELSE StoryReturn(r)
  /\ UNCHANGED <<storyGenre, storyGone>>

WriteStory(r) ==
  /\ StoryAt(r, "write")
  /\ story' = [story EXCEPT ![storyReq[r].id] = storyReq[r].row]
  /\ IF storyReq[r].regenre THEN StoryGoto(r, "clear") ELSE StoryReturn(r)
  /\ UNCHANGED <<storyGenre, storyGone>>

\* A mutant of ClearGenres: the row is saved again.
ClearGenresSaves(r) ==
  /\ StoryAt(r, "clear")
  /\ ClearGenresFromStory(storyReq[r].id)
  /\ StoryGoto(r, "add")
  /\ story' = [story EXCEPT ![storyReq[r].id] = storyReq[r].row]
  /\ UNCHANGED storyGone

ClearGenres(r) ==
  /\ StoryAt(r, "clear")
  /\ ClearGenresFromStory(storyReq[r].id)
  /\ StoryGoto(r, "add")
  /\ UNCHANGED <<story, storyGone>>

\* The genres are added in the order the client gave, which is any order.
AddGenre(r) ==
  /\ StoryAt(r, "add")
  /\ \E g \in storyReq[r].todo :
       /\ AddGenreToStory(storyReq[r].id, g)
       /\ storyReq' = [storyReq EXCEPT ![r].todo = @ \ {g}]
  /\ UNCHANGED <<story, storyGone>>

\* Nothing is left to add: the request returns the story.
StoryDone(r) ==
  /\ StoryAt(r, "add")
  /\ storyReq[r].todo = {}
  /\ StoryReturn(r)
  /\ UNCHANGED <<story, storyGenre, storyGone>>

DeleteStory(r) ==
  \E s \in StoryIds, u \in Users :
    /\ OwnStory(u, s)
    /\ StoryBegin(r, "delete", s, story[s], FALSE, {})
    /\ UNCHANGED <<story, storyGenre, storyGone>>

\* SoftDelete, WHERE id = $1.
WriteStoryDeletion(r) ==
  /\ StoryAt(r, "delete")
  /\ LET s == storyReq[r].id
     IN  /\ story' = [story EXCEPT ![s].deleted = TRUE]
         /\ storyGone' = IF \E q \in Slots : StoryAt(q, "write") /\ OnStory(q, s)
                         THEN storyGone ELSE storyGone \cup {s}
  /\ StoryReturn(r)
  /\ UNCHANGED storyGenre

\* A statement fails, the client goes away, or the process stops: the genres
\* added so far stay.
StoryAbort(r) ==
  storyReq[r] # None /\ StoryReturn(r) /\ UNCHANGED <<story, storyGenre, storyGone>>

StoryNext ==
  \E r \in Slots :
    \/ CreateStory(r) \/ UpdateStory(r) \/ WriteStory(r)
    \/ ClearGenres(r) \/ AddGenre(r) \/ StoryDone(r)
    \/ DeleteStory(r) \/ WriteStoryDeletion(r) \/ StoryAbort(r)

StorySpec == StoryInit /\ [][StoryNext]_storyVars

-----------------------------------------------------------------------------
(* Properties *)

\* A story deleted while no update of it was between its read and its write
\* stays deleted; only such an update, a publication or an archival brings it
\* back, because UpdateStory writes the deletion mark it read.
DeletedStays == \A s \in storyGone : story[s].deleted

\* A create or update that no other request for the story overlapped leaves the
\* story with exactly the genres it was given, when it returns without an error.
GenresTakeHold ==
  [][\A r \in Slots :
       StoryAt(r, "add") /\ StoryDone(r) /\ storyReq[r].alone =>
         storyGenre[storyReq[r].id] = storyReq[r].genres]_storyVars
=============================================================================
