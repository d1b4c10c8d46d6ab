------------------------------ MODULE Folders -------------------------------
(***************************************************************************)
(* Document folders (internal/feature/document_folder): a tree with a      *)
(* stored depth that the code limits to three levels, and the documents    *)
(* filed in it (internal/feature/document).                                *)
(*                                                                         *)
(* Each action is one SQL statement of a request, with the code around it. *)
(* Names are left out: a refused name is one of the failures of            *)
(* FolderAbort.  One story; documents are represented by their folder.     *)
(***************************************************************************)
EXTENDS Requests, Integers

CONSTANTS
  Folders,    \* identities of folders
  FiledDocs   \* documents that can be filed in a folder

ASSUME FoldersAssumption ==
  None \notin Folders \cup FiledDocs \cup {"keep"} /\ "keep" \notin Folders

VARIABLES
  folder,       \* table document_folder: id |-> row, or None
  folderUsed,   \* ids ever inserted (an id is a fresh UUID, never reused)
  filed,        \* document.folder_id of the documents that are not deleted
  folderReq,    \* requests in flight
  folderMoved   \* history: folders that were given another parent or depth

folderTables == <<folder, folderUsed, filed, folderMoved>>
folderVars == <<folderTables, folderReq>>

FolderRows == [owner: Users, parent: Folders \cup {None}, depth: 0..2]

ASSUME NoFolderRow == None \notin FolderRows

\* A request: the folder it names, the owner of the row it will create, the
\* parent and the depth it will write; late is history: what was put into the
\* folder of a deletion after that had counted the children.
FolderRequests ==
  [op: {"create", "update", "move", "delete"},
   at: {"depth", "children", "documents", "write"},
   id: Folders \cup {None}, owner: Users, parent: Folders \cup {None}, depth: 0..2,
   late: SUBSET (Folders \cup FiledDocs)]

FolderTypeOK ==
  /\ folder \in [Folders -> FolderRows \cup {None}]
  /\ folderUsed \subseteq Folders
  /\ filed \in [FiledDocs -> Folders \cup {None}]
  /\ folderReq \in [Slots -> FolderRequests \cup {None}]
  /\ folderMoved \subseteq folderUsed

FolderInit ==
  /\ folder = [f \in Folders |-> None]
  /\ folderUsed = {}
  /\ filed = [d \in FiledDocs |-> None]
  /\ folderReq = [r \in Slots |-> None]
  /\ folderMoved = {}

-----------------------------------------------------------------------------
(* Statements *)

FolderExists(f) == f # None /\ folder[f] # None

\* A mutant of DepthUnder: siblings' depth.
DepthBeside(p) == IF FolderExists(p) THEN folder[p].depth ELSE 0

\* ValidateFolderDepth: the depth of a folder put under p; a parent that does
\* not exist counts like no parent.
DepthUnder(p) == IF FolderExists(p) THEN folder[p].depth + 1 ELSE 0

\* The foreign key of parent_id and folder_id.
ParentThere(p) == p = None \/ FolderExists(p)

ChildrenOf(f) == {c \in Folders : FolderExists(c) /\ folder[c].parent = f}
DocumentsOf(f) == {d \in FiledDocs : filed[d] = f}

\* DELETE of a folder: the foreign keys say ON DELETE SET NULL.
DeleteRow(f) ==
  /\ folder' = [c \in Folders |->
                  IF c = f THEN None
                  ELSE IF c \in ChildrenOf(f) THEN [folder[c] EXCEPT !.parent = None]
                  ELSE folder[c]]
  /\ filed' = [d \in FiledDocs |-> IF filed[d] = f THEN None ELSE filed[d]]

\* The requests reqs once x was put into folder p.
FolderNoted(reqs, x, p) ==
  [r \in Slots |->
     IF reqs[r] # None /\ reqs[r].op = "delete" /\ reqs[r].at # "children" /\ reqs[r].id = p
     THEN [reqs[r] EXCEPT !.late = @ \cup {x}] ELSE reqs[r]]

FolderDone(r) == [folderReq EXCEPT ![r] = None]
FolderReturn(r) == folderReq' = FolderDone(r)
FolderGoto(r, stage) == folderReq' = [folderReq EXCEPT ![r].at = stage]

FolderBegin(r, op, stage, f, u, p, d) ==
  /\ folderReq[r] = None
  /\ folderReq' = [folderReq EXCEPT ![r] =
       [op |-> op, at |-> stage, id |-> f, owner |-> u, parent |-> p, depth |-> d,
        late |-> {}]]
  /\ UNCHANGED folderTables

\* The request of r, in flight, has reached the given stage.
FolderAt(r, ops, stage) ==
  folderReq[r] # None /\ folderReq[r].op \in ops /\ folderReq[r].at = stage

\* GetByID and the ownership check that update, move and delete begin with.
OwnFolder(u, f) == FolderExists(f) /\ folder[f].owner = u

-----------------------------------------------------------------------------
(* Operations *)

\* A mutant of CreateFolder: four levels.
CreateFolderDeeper(r) ==
  \E u \in Users, p \in folderUsed \cup {None} :
    /\ DepthUnder(p) <= 3
    /\ FolderBegin(r, "create", "write", None, u, p, DepthUnder(p))

\* CreateFolder: the depth comes from the parent; without one no statement
\* precedes the insert.  A client can name any folder that ever existed.
CreateFolder(r) ==
  \E u \in Users, p \in folderUsed \cup {None} :
    /\ DepthUnder(p) <= 2
    /\ FolderBegin(r, "create", "write", None, u, p, DepthUnder(p))

CreateFolderInsert(r) ==
  /\ FolderAt(r, {"create"}, "write")
  /\ LET q == folderReq[r]
     IN  IF ParentThere(q.parent)
         THEN \E f \in Folders \ folderUsed :
                /\ folder' = [folder EXCEPT ![f] =
                     [owner |-> q.owner, parent |-> q.parent, depth |-> q.depth]]
                /\ folderUsed' = folderUsed \cup {f}
                /\ folderReq' = FolderNoted(FolderDone(r), f, q.parent)
                /\ UNCHANGED <<filed, folderMoved>>
         ELSE FolderReturn(r) /\ UNCHANGED folderTables

\* UpdateFolder: without a parent it will write back the one it read, and the
\* depth with it.
UpdateFolder(r) ==
  \E u \in Users, f \in Folders, p \in folderUsed \cup {"keep"} :
    /\ OwnFolder(u, f)
    /\ IF p = "keep"
       THEN FolderBegin(r, "update", "write", f, u, folder[f].parent, folder[f].depth)
       ELSE FolderBegin(r, "update", "depth", f, u, p, 0)

\* MoveFolder: to another parent, or to the top.
MoveFolder(r) ==
  \E u \in Users, f \in Folders, p \in folderUsed \cup {None} :
    /\ OwnFolder(u, f)
    /\ FolderBegin(r, "move", IF p = None THEN "write" ELSE "depth", f, u, p, 0)

\* A mutant of ValidateDepth: the limit is not tested.
ValidateNoDepth(r) ==
  /\ FolderAt(r, {"update", "move"}, "depth")
  /\ folderReq' = [folderReq EXCEPT ![r] =
       [@ EXCEPT !.at = "write", !.depth = DepthUnder(folderReq[r].parent)]]
  /\ UNCHANGED folderTables

\* ValidateDepth of the new parent: the moved folder itself is checked, what
\* it holds is not.
ValidateDepth(r) ==
  /\ FolderAt(r, {"update", "move"}, "depth")
  /\ folderReq' = [folderReq EXCEPT ![r] =
       IF DepthUnder(folderReq[r].parent) > 2 THEN None
       ELSE [@ EXCEPT !.at = "write", !.depth = DepthUnder(folderReq[r].parent)]]
  /\ UNCHANGED folderTables

\* UPDATE ... WHERE id = $1: parent and depth are written together; a missing
\* row or parent makes the statement fail.
WriteFolder(r) ==
  /\ FolderAt(r, {"update", "move"}, "write")
  /\ LET q == folderReq[r]
         f == q.id
     IN  IF FolderExists(f) /\ ParentThere(q.parent)
         THEN /\ folder' = [folder EXCEPT ![f].parent = q.parent, ![f].depth = q.depth]
              /\ folderMoved' = IF folder'[f] = folder[f] THEN folderMoved
                                ELSE folderMoved \cup {f}
              /\ folderReq' = IF folder[f].parent = q.parent THEN FolderDone(r)
                              ELSE FolderNoted(FolderDone(r), f, q.parent)
              /\ UNCHANGED <<folderUsed, filed>>
         ELSE FolderReturn(r) /\ UNCHANGED folderTables

\* A mutant of DeleteFolder: children are not counted.
DeleteFolderUncounted(r) ==
  \E u \in Users, f \in Folders :
    OwnFolder(u, f) /\ FolderBegin(r, "delete", "documents", f, u, None, 0)

\* DeleteFolder: it counts the children, then the documents, then deletes.
DeleteFolder(r) ==
  \E u \in Users, f \in Folders :
    OwnFolder(u, f) /\ FolderBegin(r, "delete", "children", f, u, None, 0)

CountChildren(r) ==
  /\ FolderAt(r, {"delete"}, "children")
  /\ IF ChildrenOf(folderReq[r].id) = {} THEN FolderGoto(r, "documents") ELSE FolderReturn(r)
  /\ UNCHANGED folderTables

CountDocuments(r) ==
  /\ FolderAt(r, {"delete"}, "documents")
  /\ IF DocumentsOf(folderReq[r].id) = {} THEN FolderGoto(r, "write") ELSE FolderReturn(r)
  /\ UNCHANGED folderTables

DeleteFolderRow(r) ==
  /\ FolderAt(r, {"delete"}, "write")
  /\ FolderReturn(r)
  /\ DeleteRow(folderReq[r].id)
  /\ UNCHANGED <<folderUsed, folderMoved>>

\* CreateDocument and UpdateDocument file a document in any folder there is.
FileDocument ==
  \E d \in FiledDocs, f \in Folders :
    /\ FolderExists(f)
    /\ filed' = [filed EXCEPT ![d] = f]
    /\ folderReq' = IF filed[d] = f THEN folderReq ELSE FolderNoted(folderReq, d, f)
    /\ UNCHANGED <<folder, folderUsed, folderMoved>>

\* DeleteDocument: a deleted document is not counted any more.
UnfileDocument ==
  /\ \E d \in FiledDocs : filed[d] # None /\ filed' = [filed EXCEPT ![d] = None]
  /\ UNCHANGED <<folder, folderUsed, folderReq, folderMoved>>

\* A statement fails, the client goes away, or the process stops.
FolderAbort(r) == folderReq[r] # None /\ FolderReturn(r) /\ UNCHANGED folderTables

FolderNext ==
  \/ \E r \in Slots :
       \/ CreateFolder(r) \/ CreateFolderInsert(r)
       \/ UpdateFolder(r) \/ MoveFolder(r) \/ ValidateDepth(r) \/ WriteFolder(r)
       \/ DeleteFolder(r) \/ CountChildren(r) \/ CountDocuments(r) \/ DeleteFolderRow(r)
       \/ FolderAbort(r)
  \/ FileDocument
  \/ UnfileDocument

FolderSpec == FolderInit /\ [][FolderNext]_folderVars

-----------------------------------------------------------------------------
(* Properties *)

\* A folder is one level below its parent, unless the parent was itself moved:
\* MoveFolder and UpdateFolder write the depth of the folder they move and of
\* nothing in it.
DepthTrue ==
  \A f \in Folders :
    FolderExists(f) /\ folder[f].parent \in Folders \ folderMoved =>
      /\ FolderExists(folder[f].parent)
      /\ folder[f].depth = folder[folder[f].parent].depth + 1

\* GetFolderTree follows two links: the folders it returns for f.
TreeOf(f) == {f} \cup ChildrenOf(f) \cup UNION {ChildrenOf(c) : c \in ChildrenOf(f)}

\* The tree shown for a folder leaves out nothing that lies below it, as long
\* as no folder was moved.
TreeComplete ==
  folderMoved = {} =>
    \A f \in Folders : FolderExists(f) =>
      \A c \in TreeOf(f) : ChildrenOf(c) \subseteq TreeOf(f)

\* A deletion takes from a folder or a document its place only if it was put
\* there after the deletion had looked: DeleteFolder counts, then deletes.
OnlyLateLost ==
  [][\A r \in Slots :
       FolderAt(r, {"delete"}, "write") /\ folderReq'[r] = None /\ folder' # folder =>
         ChildrenOf(folderReq[r].id) \cup DocumentsOf(folderReq[r].id)
           \subseteq folderReq[r].late]_folderVars
=============================================================================
