-------------------------------- MODULE Files -------------------------------
(***************************************************************************)
(* Files (internal/feature/file): a row in PostgreSQL, and for a large     *)
(* file an object in S3 that the row's reference names.                    *)
(*                                                                         *)
(* Each action is one SQL statement or one call to S3, with the code       *)
(* around it.  S3 is configured.  An object's key is a UUID of its own,    *)
(* used for one file; the two have one identity here.  Names, types,        *)
(* sizes, contents and archiving are left out; nothing asks for the owner. *)
(***************************************************************************)
EXTENDS Requests

CONSTANTS
  FileIds,   \* identities of files
  Paths      \* values of the path column

ASSUME FilesAssumption == None \notin FileIds

VARIABLES
  file,           \* table file: id |-> row, or None
  fileUsed,       \* ids ever taken
  object,         \* objects in S3, by the file they were stored for
  fileReq,        \* requests in flight
  fileTorn,       \* history: files whose deletion removed the object
  fileLoose,      \* history: uploads whose creation broke off, files shared or unshared
  pathContested   \* history: paths of two creations at a time, of a failed look-up,
                  \* or of a file that came back

fileHistory == <<fileTorn, fileLoose, pathContested>>
fileTables == <<file, fileUsed, object, fileHistory>>
fileVars == <<fileTables, fileReq>>

\* What the reference column holds: nothing (the contents are in the row), the
\* key of the object, or the mark that sharing puts there.
References == {"payload", "key", "shared", "private"}
FileRows == [path: Paths, reference: References, deleted: BOOLEAN]
FileRequests ==
  [op: {"create"}, path: Paths]
  \cup [op: {"insert"}, path: Paths, id: FileIds]
  \cup [op: {"update"}, id: FileIds, row: FileRows]
  \cup [op: {"deleteObject"}, id: FileIds, reference: References]
  \cup [op: {"deleteRow"}, id: FileIds]

ASSUME NoFileRow == None \notin FileRows \cup FileRequests

FileTypeOK ==
  /\ file \in [FileIds -> FileRows \cup {None}]
  /\ fileUsed \subseteq FileIds
  /\ object \subseteq FileIds
  /\ fileReq \in [Slots -> FileRequests \cup {None}]
  /\ fileTorn \subseteq FileIds
  /\ fileLoose \subseteq FileIds
  /\ pathContested \subseteq Paths

FileInit ==
  /\ file = [f \in FileIds |-> None]
  /\ fileUsed = {}
  /\ object = {}
  /\ fileReq = [r \in Slots |-> None]
  /\ fileTorn = {}
  /\ fileLoose = {}
  /\ pathContested = {}

-----------------------------------------------------------------------------
(* Statements *)

FileExists(f) == file[f] # None
\* GetFileByID with is_deleted = FALSE.
FileLive(f) == FileExists(f) /\ ~file[f].deleted
\* GetFileByPath.
FilesAt(p) == {f \in FileIds : FileLive(f) /\ file[f].path = p}

FileAt(r, op) == fileReq[r] # None /\ fileReq[r].op = op
FileReturn(r) == fileReq' = [fileReq EXCEPT ![r] = None]
FileGoto(r, request) == fileReq' = [fileReq EXCEPT ![r] = request]
FileBegin(r, request) == fileReq[r] = None /\ FileGoto(r, request)

Creations(p) == {r \in Slots : \E op \in {"create", "insert"} : FileAt(r, op) /\ fileReq[r].path = p}

\* Row f is set; history: a file that is no longer deleted contests its path,
\* and one whose key is overwritten leaves its object to nobody.
PutFile(f, row) ==
  /\ file' = [file EXCEPT ![f] = row]
  /\ pathContested' = IF file[f].deleted /\ ~row.deleted THEN pathContested \cup {row.path}
                      ELSE pathContested
  /\ fileLoose' = IF file[f].reference = "key" /\ row.reference # "key"
                  THEN fileLoose \cup {f} ELSE fileLoose

InsertFile(f, p, reference) ==
  /\ file' = [file EXCEPT ![f] = [path |-> p, reference |-> reference,
                                  deleted |-> FALSE]]
  /\ UNCHANGED fileHistory

-----------------------------------------------------------------------------
(* Operations *)

\* A mutant of CreateFile: the path is not looked up.
CreateFileAnywhere(r) ==
  \E p \in Paths :
    /\ FileBegin(r, [op |-> "create", path |-> p])
    /\ pathContested' = IF Creations(p) # {} THEN pathContested \cup {p} ELSE pathContested
    /\ UNCHANGED <<file, fileUsed, object, fileTorn, fileLoose>>

\* Create looks the path up, and takes a look-up that failed for a free path;
\* no unique key guards it later.
CreateFile(r) ==
  \E p \in Paths, failed \in BOOLEAN :
    /\ FilesAt(p) = {} \/ failed
    /\ FileBegin(r, [op |-> "create", path |-> p])
    /\ pathContested' = IF failed \/ Creations(p) # {} THEN pathContested \cup {p}
                        ELSE pathContested
    /\ UNCHANGED <<file, fileUsed, object, fileTorn, fileLoose>>

\* A mutant of UploadFile: a failed upload is not noticed.
UploadFileUnseen(r) ==
  \E f \in FileIds \ fileUsed :
    /\ FileAt(r, "create")
    /\ object' \in {object, object \cup {f}}
    /\ fileUsed' = fileUsed \cup {f}
    /\ FileGoto(r, [op |-> "insert", path |-> fileReq[r].path, id |-> f])
    /\ UNCHANGED <<file, fileHistory>>

\* A large file is uploaded under a fresh key; a failed upload ends the request.
UploadFile(r) ==
  \E f \in FileIds \ fileUsed :
    /\ FileAt(r, "create")
    /\ object' = object \cup {f}
    /\ fileUsed' = fileUsed \cup {f}
    /\ FileGoto(r, [op |-> "insert", path |-> fileReq[r].path, id |-> f])
    /\ UNCHANGED <<file, fileHistory>>

InsertUploaded(r) ==
  /\ FileAt(r, "insert")
  /\ InsertFile(fileReq[r].id, fileReq[r].path, "key")
  /\ FileReturn(r)
  /\ UNCHANGED <<fileUsed, object>>

\* A small file is inserted with its contents.
InsertPayload(r) ==
  \E f \in FileIds \ fileUsed :
    /\ FileAt(r, "create")
    /\ InsertFile(f, fileReq[r].path, "payload")
    /\ fileUsed' = fileUsed \cup {f}
    /\ FileReturn(r)
    /\ UNCHANGED object

\* Update reads the row, and writes all of it back with another name or mark of
\* archiving.
UpdateFile(r) ==
  \E f \in FileIds :
    /\ FileLive(f)
    /\ FileBegin(r, [op |-> "update", id |-> f, row |-> file[f]])
    /\ UNCHANGED fileTables

WriteFile(r) ==
  /\ FileAt(r, "update")
  /\ FileReturn(r)
  /\ IF FileExists(fileReq[r].id) THEN PutFile(fileReq[r].id, fileReq[r].row)
     ELSE UNCHANGED <<file, pathContested, fileLoose>>
  /\ UNCHANGED <<fileUsed, object, fileTorn>>

DeleteFile(r) ==
  \E f \in FileIds :
    /\ FileLive(f)
    /\ FileBegin(r, IF file[f].reference = "payload" THEN [op |-> "deleteRow", id |-> f]
                    ELSE [op |-> "deleteObject", id |-> f, reference |-> file[f].reference])
    /\ UNCHANGED fileTables

\* A mutant of DeleteObject: a failed deletion is not noticed.
DeleteObjectUnseen(r) ==
  /\ FileAt(r, "deleteObject")
  /\ FileGoto(r, [op |-> "deleteRow", id |-> fileReq[r].id])
  /\ \/ UNCHANGED <<object, fileTorn>>
     \/ /\ fileReq[r].reference = "key"
        /\ object' = object \ {fileReq[r].id}
        /\ fileTorn' = fileTorn \cup {fileReq[r].id}
  /\ UNCHANGED <<file, fileUsed, fileLoose, pathContested>>

\* The object the reference names is deleted; S3 reports none missing, so a
\* mark in the place of a key deletes nothing.
DeleteObject(r) ==
  /\ FileAt(r, "deleteObject")
  /\ FileGoto(r, [op |-> "deleteRow", id |-> fileReq[r].id])
  /\ IF fileReq[r].reference = "key"
       THEN /\ object' = object \ {fileReq[r].id}
            /\ fileTorn' = fileTorn \cup {fileReq[r].id}
       ELSE UNCHANGED <<object, fileTorn>>
  /\ UNCHANGED <<file, fileUsed, fileLoose, pathContested>>

DeleteFileRow(r) ==
  /\ FileAt(r, "deleteRow")
  /\ file' = [file EXCEPT ![fileReq[r].id] = None]
  /\ FileReturn(r)
  /\ UNCHANGED <<fileUsed, object, fileHistory>>

\* ShareFile and UnshareFile put their mark where the key was.
ShareFile ==
  \E f \in FileIds, mark \in {"shared", "private"} :
    /\ FileExists(f)
    /\ PutFile(f, [file[f] EXCEPT !.reference = mark])
    /\ UNCHANGED <<fileUsed, object, fileTorn, fileReq>>

\* SoftDeleteFile and RestoreFile.
MarkDeleted ==
  \E f \in FileIds, deleted \in BOOLEAN :
    /\ FileExists(f)
    /\ PutFile(f, [file[f] EXCEPT !.deleted = deleted])
    /\ UNCHANGED <<fileUsed, object, fileTorn, fileReq>>

\* A statement or a call to S3 fails, the client goes away, or the process stops.
FileAbort(r) ==
  /\ fileReq[r] # None
  /\ fileLoose' = IF FileAt(r, "insert") THEN fileLoose \cup {fileReq[r].id} ELSE fileLoose
  /\ FileReturn(r)
  /\ UNCHANGED <<file, fileUsed, object, fileTorn, pathContested>>

FileNext ==
  \/ \E r \in Slots :
       \/ CreateFile(r) \/ UploadFile(r) \/ InsertUploaded(r) \/ InsertPayload(r)
       \/ UpdateFile(r) \/ WriteFile(r)
       \/ DeleteFile(r) \/ DeleteObject(r) \/ DeleteFileRow(r)
       \/ FileAbort(r)
  \/ ShareFile
  \/ MarkDeleted

FileSpec == FileInit /\ [][FileNext]_fileVars

-----------------------------------------------------------------------------
(* Properties *)

\* A row whose reference is a key has its object, whatever overlaps, unless
\* its deletion has begun: Delete removes the object first, and one that ends
\* there leaves a row nobody can download.
ReferenceFound ==
  \A f \in FileIds :
    FileExists(f) /\ file[f].reference = "key" => f \in object \cup fileTorn

\* An object has a row that names it or a creation about to insert one, unless
\* that creation broke off, or sharing overwrote the key: nothing else leaves
\* an object behind.
ObjectOwned ==
  \A f \in object \ fileLoose :
    \/ FileExists(f) /\ file[f].reference = "key"
    \/ \E r \in Slots : FileAt(r, "insert") /\ fileReq[r].id = f

\* Two files share a path only where two creations overlapped, a look-up
\* failed, or a deleted file came back (restored, or by an update that began
\* before).
PathsApart ==
  \A f, g \in FileIds :
    /\ FileLive(f) /\ FileLive(g) /\ f # g
    /\ file[f].path = file[g].path
    => file[f].path \in pathContested
=============================================================================
