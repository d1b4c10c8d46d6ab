----------------------------- MODULE MCContent ------------------------------
(***************************************************************************)
(* The content features checked in one run. Folders, documents, chapters,  *)
(* stories, comments, story reports, files and the submission cache have   *)
(* tables and requests of their own and no action of one reads what        *)
(* another writes, so a behaviour of all is one of each, stuttering. It is *)
(* therefore enough to run one at a time: focus says which, and the others *)
(* stay in their initial state.                                            *)
(***************************************************************************)
EXTENDS Folders, Documents, Chapters, Stories, Comments, Reports, Files,
        Cache, TLC

CONSTANTS u1, r1, r2, f1, f2, f3, f4, x1, d1, c1, c2, s1, g1, g2,
          m1, m2, m3, m4, p1, p2, o1, o2, k1

VARIABLE focus

OneUser == {u1}
TwoSlots == {r1, r2}
FourFolders == {f1, f2, f3, f4}
OneFiled == {x1}
OneDoc == {d1}
TwoChapters == {c1, c2}
OneStory == {s1}
TwoGenres == {g1, g2}
FourComments == {m1, m2, m3, m4}
TwoReports == {p1, p2}
TwoFiles == {o1, o2}
OneCached == {k1}

vars == <<focus, folderVars, docVars, chapterVars, storyVars, commentVars, reportVars,
          fileVars, cacheVars>>

Init ==
  /\ focus \in {"folders", "documents", "chapters", "stories", "comments", "reports",
               "files", "cache"}
  /\ FolderInit
  /\ DocInit
  /\ ChapterInit
  /\ StoryInit
  /\ CommentInit
  /\ ReportInit
  /\ FileInit
  /\ CacheInit

\* Bounds: at most one folder is moved; requests overlap while there were at
\* most two folders; three come of requests one by one; a fourth one too, where
\* nothing is moved or filed.  Ids are interchangeable, so they are taken in a
\* fixed order.
FolderBound ==
  /\ Cardinality(folderMoved) <= 1
  /\ folderUsed \in {{}, {f1}, {f1, f2}, {f1, f2, f3}, Folders}
  /\ \/ Cardinality(folderUsed) <= 2
     \/ /\ Cardinality({r \in Slots : folderReq[r] # None}) <= 1
        /\ f4 \in folderUsed => folderMoved = {} /\ filed = [x \in FiledDocs |-> None]

FolderStep ==
  /\ focus = "folders"
  /\ FolderNext
  /\ FolderBound'
  /\ UNCHANGED <<focus, docVars, chapterVars, storyVars, commentVars, reportVars,
                 fileVars, cacheVars>>

DocStep ==
  /\ focus = "documents"
  /\ DocNext
  /\ UNCHANGED <<focus, folderVars, chapterVars, storyVars, commentVars, reportVars,
                 fileVars, cacheVars>>

ChapterStep ==
  /\ focus = "chapters"
  /\ ChapterNext
  /\ ChapterExists(c2)' => ChapterExists(c1)'
  /\ UNCHANGED <<focus, folderVars, docVars, storyVars, commentVars, reportVars,
                 fileVars, cacheVars>>

StoryStep ==
  /\ focus = "stories"
  /\ StoryNext
  /\ UNCHANGED <<focus, folderVars, docVars, chapterVars, commentVars, reportVars,
                 fileVars, cacheVars>>

\* Bounds: requests overlap while there were at most three comments; the
\* fourth comes of requests one by one, and one comment is marked.
CommentBound ==
  LET written == {c \in CommentIds : CommentExists(c)}
  IN  /\ written \in {{}, {m1}, {m1, m2}, {m1, m2, m3}, CommentIds}
      /\ \A c \in written \ {m1} : comment[c].marks = {}
      /\ Cardinality(written) = 4 => \A r \in Slots : commentReq[r] = None

CommentStep ==
  /\ focus = "comments"
  /\ CommentNext
  /\ CommentBound'
  /\ UNCHANGED <<focus, folderVars, docVars, chapterVars, storyVars, reportVars, fileVars,
                 cacheVars>>

ReportStep ==
  /\ focus = "reports"
  /\ ReportNext
  /\ reportUsed' \in {{}, {p1}, ReportIds}
  /\ UNCHANGED <<focus, folderVars, docVars, chapterVars, storyVars, commentVars, fileVars,
                 cacheVars>>

FileStep ==
  /\ focus = "files"
  /\ FileNext
  /\ fileUsed' \in {{}, {o1}, FileIds}
  /\ UNCHANGED <<focus, folderVars, docVars, chapterVars, storyVars, commentVars, reportVars,
                 cacheVars>>

CacheStep ==
  /\ focus = "cache"
  /\ CacheNext
  /\ UNCHANGED <<focus, folderVars, docVars, chapterVars, storyVars, commentVars, reportVars,
                 fileVars>>

Next == FolderStep \/ DocStep \/ ChapterStep \/ StoryStep \/ CommentStep \/ ReportStep
        \/ FileStep \/ CacheStep

Spec == Init /\ [][Next]_vars

\* The types of the eight parts' states.
ContentTypeOK ==
  /\ FolderTypeOK /\ DocTypeOK /\ ChapterTypeOK /\ StoryTypeOK
  /\ CommentTypeOK /\ ReportTypeOK /\ FileTypeOK /\ CacheTypeOK

Symmetry == Permutations(Slots)
=============================================================================
