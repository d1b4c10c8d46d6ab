----------------------------- MODULE FilesProofs ----------------------------
(***************************************************************************)
(* Proofs about Files: the types, ReferenceFound, ObjectOwned and          *)
(* PathsApart hold for every number of files, paths and overlapping        *)
(* requests.                                                               *)
(* A row and its object change in different steps, so the invariant says   *)
(* what each request in flight knows about both (RequestsSound): a key     *)
(* belongs to one upload alone, the row an update will write back names an *)
(* object that is there or torn off, and a deletion about to remove a row  *)
(* leaves no object that only this row names.  Two creations of a path     *)
(* that is not contested never meet (CreationsApart).                      *)
(***************************************************************************)
EXTENDS Files, TLAPS

\* Rows and objects have ids that were taken.
FilesTaken == \A f \in FileIds : FileExists(f) \/ f \in object => f \in fileUsed

\* A request that holds a file's id.
Holds(r, f) == fileReq[r] # None /\ fileReq[r].op # "create" /\ fileReq[r].id = f

RequestsSound ==
  \A r \in Slots, f \in FileIds : Holds(r, f) =>
    /\ f \in fileUsed
    /\ fileReq[r].op = "insert" =>
         /\ f \in object
         /\ ~FileExists(f)
         /\ \A q \in Slots \ {r} : ~Holds(q, f)
    /\ fileReq[r].op = "update" =>
         /\ fileReq[r].row.reference = "key" => f \in object \cup fileTorn
         /\ FileExists(f) => fileReq[r].row.path = file[f].path
    /\ \/ fileReq[r].op = "deleteRow"
       \/ fileReq[r].op = "deleteObject" /\ fileReq[r].reference # "key"
       => f \notin object \ fileLoose

\* The creation of a file at p.
Creates(r, p) ==
  fileReq[r] # None /\ fileReq[r].op \in {"create", "insert"} /\ fileReq[r].path = p

CreationsApart ==
  \A r \in Slots, p \in Paths \ pathContested : Creates(r, p) =>
    /\ \A q \in Slots \ {r} : ~Creates(q, p)
    /\ \A f \in FileIds : ~(FileLive(f) /\ file[f].path = p)

FileInv ==
  /\ FileTypeOK
  /\ FilesTaken
  /\ RequestsSound
  /\ CreationsApart
  /\ ReferenceFound
  /\ ObjectOwned
  /\ PathsApart

LEMMA FileFields ==
  ASSUME NEW r \in Slots, FileTypeOK, fileReq[r] # None
  PROVE  /\ fileReq[r] \in FileRequests
         /\ fileReq[r].op \in {"create", "insert", "update", "deleteObject", "deleteRow"}
         /\ fileReq[r].op # "create" => fileReq[r].id \in FileIds
         /\ fileReq[r].op \in {"create", "insert"} => fileReq[r].path \in Paths
         /\ fileReq[r].op = "update" => fileReq[r].row \in FileRows
         /\ fileReq[r].op = "deleteObject" => fileReq[r].reference \in References
<1>1. fileReq[r] \in FileRequests BY DEF FileTypeOK
<1>. QED BY <1>1 DEF FileRequests

LEMMA FileRowFields ==
  ASSUME NEW row \in FileRows
  PROVE  /\ row.path \in Paths
         /\ row.reference \in References
         /\ row.deleted \in BOOLEAN
         /\ row # None
BY NoFileRow DEF FileRows

LEMMA CreatesIsCreation ==
  ASSUME NEW r \in Slots, NEW p \in Paths
  PROVE  r \in Creations(p) <=> Creates(r, p)
BY DEF Creations, Creates, FileAt

-----------------------------------------------------------------------------
(* Steps *)

\* A request begins with the tables as they are; a creation may contest a path.
LEMMA FileBeginStep ==
  ASSUME FileInv, NEW r \in Slots, NEW request \in FileRequests,
         FileBegin(r, request),
         UNCHANGED <<file, fileUsed, object, fileTorn, fileLoose>>,
         pathContested \subseteq pathContested', pathContested' \subseteq Paths,
         request.op \in {"create", "update", "deleteObject", "deleteRow"},
         request.op = "create" /\ request.path \notin pathContested' =>
           /\ FilesAt(request.path) = {}
           /\ Creations(request.path) = {},
         request.op # "create" =>
           /\ FileLive(request.id)
           /\ request.op = "update" => request.row = file[request.id]
           /\ \/ request.op = "deleteRow"
              \/ request.op = "deleteObject" /\ request.reference # "key"
              => file[request.id].reference # "key"
  PROVE  FileInv'
<1>1. /\ fileReq[r] = None
      /\ fileReq' \in [Slots -> FileRequests \cup {None}]
      /\ fileReq'[r] = request
      /\ \A s \in Slots \ {r} : fileReq'[s] = fileReq[s]
  BY DEF FileBegin, FileGoto, FileInv, FileTypeOK
<1>2. FileTypeOK' BY <1>1 DEF FileInv, FileTypeOK
<1>3. FilesTaken' /\ ReferenceFound'
  BY DEF FileInv, FilesTaken, ReferenceFound, FileExists
<1>4. /\ request # None
      /\ request.op # "create" => request.id \in FileIds /\ FileExists(request.id)
      /\ request.op = "create" => request.path \in Paths
  BY <1>1, <1>2, FileFields, NoFileRow DEF FileRequests, FileLive
<1>5. ObjectOwned'
  <2> SUFFICES ASSUME NEW f \in object \ fileLoose, ~(FileExists(f) /\ file[f].reference = "key")
               PROVE  \E s \in Slots : FileAt(s, "insert")' /\ fileReq'[s].id = f
    BY DEF ObjectOwned, FileExists
  <2>1. PICK s \in Slots : FileAt(s, "insert") /\ fileReq[s].id = f
    BY DEF FileInv, ObjectOwned
  <2>2. s # r BY <1>1, <2>1 DEF FileAt
  <2>. QED BY <1>1, <2>1, <2>2 DEF FileAt
<1>6. RequestsSound'
  <2>1. ASSUME NEW s \in Slots, NEW f \in FileIds, Holds(s, f)'
        PROVE  IF s = r THEN request.op # "create" /\ request.id = f ELSE Holds(s, f)
    BY <1>1, <2>1 DEF Holds
  <2>2. \A f \in FileIds : FileExists(f)' <=> FileExists(f) BY DEF FileExists
  <2> SUFFICES ASSUME NEW s \in Slots, NEW f \in FileIds, Holds(s, f)'
               PROVE  /\ f \in fileUsed
                      /\ fileReq'[s].op = "insert" =>
                           /\ f \in object
                           /\ ~FileExists(f)
                           /\ \A q \in Slots \ {s} : ~Holds(q, f)'
                      /\ fileReq'[s].op = "update" =>
                           /\ fileReq'[s].row.reference = "key" => f \in object \cup fileTorn
                           /\ FileExists(f) => fileReq'[s].row.path = file[f].path
                      /\ \/ fileReq'[s].op = "deleteRow"
                         \/ fileReq'[s].op = "deleteObject" /\ fileReq'[s].reference # "key"
                         => f \notin object \ fileLoose
    BY <2>2 DEF RequestsSound
  <2>3. CASE s = r
    <3>1. request.op # "create" /\ request.id = f /\ FileExists(f) BY <1>4, <2>1, <2>3
    <3>2. f \in fileUsed BY <3>1 DEF FileInv, FilesTaken
    <3>3. request.op = "update" /\ request.row.reference = "key" => f \in object \cup fileTorn
      BY <3>1 DEF FileInv, ReferenceFound
    <3>4. file[f].reference # "key" => f \notin object \ fileLoose
      BY <3>1 DEF FileInv, ObjectOwned, RequestsSound, Holds, FileAt
    <3>. QED BY <1>1, <2>3, <3>1, <3>2, <3>3, <3>4
  <2>4. CASE s # r
    <3>1. Holds(s, f) /\ fileReq'[s] = fileReq[s] BY <1>1, <2>1, <2>4
    <3>2. ASSUME fileReq[s].op = "insert", NEW q \in Slots \ {s} PROVE ~Holds(q, f)'
      <4>1. ~Holds(q, f) /\ ~FileExists(f) BY <3>1, <3>2 DEF FileInv, RequestsSound
      <4>. QED BY <1>4, <2>1, <4>1
    <3>. QED BY <3>1, <3>2 DEF FileInv, RequestsSound
  <2>. QED BY <2>3, <2>4
<1>7. CreationsApart'
  <2> SUFFICES ASSUME NEW s \in Slots, NEW p \in Paths \ pathContested', Creates(s, p)'
               PROVE  /\ \A q \in Slots \ {s} : ~Creates(q, p)'
                      /\ \A f \in FileIds : ~(FileLive(f) /\ file[f].path = p)
    BY DEF CreationsApart, FileLive, FileExists
  <2>1. \A q \in Slots : Creates(q, p)' =>
          IF q = r THEN request.op = "create" /\ request.path = p ELSE Creates(q, p)
    BY <1>1 DEF Creates
  <2>2. ASSUME request.op = "create", request.path = p
        PROVE  /\ \A q \in Slots : ~Creates(q, p)
               /\ \A f \in FileIds : ~(FileLive(f) /\ file[f].path = p)
    BY <2>2, CreatesIsCreation DEF FilesAt
  <2>3. CASE s = r BY <2>1, <2>2, <2>3
  <2>4. CASE s # r
    <3>1. Creates(s, p) BY <2>1, <2>4
    <3>. QED BY <2>1, <2>2, <3>1 DEF FileInv, CreationsApart
  <2>. QED BY <2>3, <2>4
<1>8. PathsApart' BY DEF FileInv, PathsApart, FileLive, FileExists
<1>. QED BY <1>2, <1>3, <1>5, <1>6, <1>7, <1>8 DEF FileInv

\* Requests end or stay as they are.
FileEnding ==
  /\ fileReq' \in [Slots -> FileRequests \cup {None}]
  /\ \A s \in Slots : fileReq'[s] \in {None, fileReq[s]}

\* A row is set to one with the same path; a key in it names an object that is
\* there or torn off.
LEMMA PutStep ==
  ASSUME FileInv, FileEnding, NEW f \in FileIds, NEW row \in FileRows, FileExists(f),
         row.path = file[f].path,
         row.reference = "key" => f \in object \cup fileTorn,
         PutFile(f, row), UNCHANGED <<fileUsed, object, fileTorn>>,
         \A s \in Slots : FileAt(s, "insert") => fileReq'[s] = fileReq[s]
  PROVE  FileInv'
<1>1. /\ file' \in [FileIds -> FileRows \cup {None}]
      /\ file'[f] = row
      /\ \A g \in FileIds \ {f} : file'[g] = file[g]
  BY DEF PutFile, FileInv, FileTypeOK
<1>2. /\ row.path \in Paths
      /\ row # None
      /\ \A g \in FileIds : FileExists(g)' <=> FileExists(g)
      /\ \A g \in FileIds : FileExists(g) => file'[g].path = file[g].path
  BY <1>1, FileRowFields DEF FileExists
<1>3. /\ fileLoose \subseteq fileLoose' /\ fileLoose' \subseteq FileIds
      /\ pathContested \subseteq pathContested' /\ pathContested' \subseteq Paths
      /\ file[f].reference = "key" /\ row.reference # "key" => f \in fileLoose'
      /\ file[f].deleted /\ ~row.deleted => row.path \in pathContested'
  BY <1>2 DEF PutFile, FileInv, FileTypeOK
<1>4. FileTypeOK' BY <1>1, <1>3 DEF FileInv, FileTypeOK, FileEnding
<1>5. FilesTaken' BY <1>2 DEF FileInv, FilesTaken
<1>6. ReferenceFound' BY <1>1, <1>2 DEF FileInv, ReferenceFound
<1>7. \A s \in Slots, g \in FileIds :
        Holds(s, g)' => Holds(s, g) /\ fileReq'[s] = fileReq[s]
  BY DEF FileEnding, Holds
<1>8. ObjectOwned'
  <2> SUFFICES ASSUME NEW g \in object \ fileLoose',
                      ~(FileExists(g)' /\ file'[g].reference = "key")
               PROVE  \E s \in Slots : FileAt(s, "insert")' /\ fileReq'[s].id = g
    BY DEF ObjectOwned
  <2>1. g \in FileIds /\ ~(FileExists(g) /\ file[g].reference = "key")
    BY <1>1, <1>2, <1>3 DEF FileInv, FileTypeOK
  <2>2. PICK s \in Slots : FileAt(s, "insert") /\ fileReq[s].id = g
    BY <1>3, <2>1 DEF FileInv, ObjectOwned
  <2>. QED BY <2>2 DEF FileAt
<1>9. RequestsSound'
  <2> SUFFICES ASSUME NEW s \in Slots, NEW g \in FileIds, Holds(s, g)'
               PROVE  /\ g \in fileUsed
                      /\ fileReq'[s].op = "insert" =>
                           /\ g \in object
                           /\ ~FileExists(g)'
                           /\ \A q \in Slots \ {s} : ~Holds(q, g)'
                      /\ fileReq'[s].op = "update" =>
                           /\ fileReq'[s].row.reference = "key" => g \in object \cup fileTorn
                           /\ FileExists(g)' => fileReq'[s].row.path = file'[g].path
                      /\ \/ fileReq'[s].op = "deleteRow"
                         \/ fileReq'[s].op = "deleteObject" /\ fileReq'[s].reference # "key"
                         => g \notin object \ fileLoose'
    BY DEF RequestsSound
  <2>. QED BY <1>2, <1>3, <1>7 DEF FileInv, RequestsSound
<1>10. CreationsApart'
  <2>1. \A s \in Slots, p \in Paths : Creates(s, p)' => Creates(s, p)
    BY DEF FileEnding, Creates
  <2>2. \A g \in FileIds : FileLive(g)' => FileLive(g) \/ file'[g].path \in pathContested'
    BY <1>1, <1>2, <1>3 DEF FileLive
  <2>3. \A g \in FileIds : FileLive(g) => file'[g].path = file[g].path
    BY <1>2 DEF FileLive
  <2>. QED BY <1>3, <2>1, <2>2, <2>3 DEF FileInv, CreationsApart
<1>11. PathsApart'
  <2> SUFFICES ASSUME NEW g \in FileIds, NEW h \in FileIds, FileLive(g)', FileLive(h)',
                      g # h, file'[g].path = file'[h].path
               PROVE  file'[g].path \in pathContested'
    BY DEF PathsApart
  <2>1. CASE FileLive(g) /\ FileLive(h)
    <3>1. file'[g].path = file[g].path /\ file'[h].path = file[h].path
      BY <1>2, <2>1 DEF FileLive
    <3>. QED BY <1>3, <2>1, <3>1 DEF FileInv, PathsApart
  <2>2. CASE ~FileLive(g) \/ ~FileLive(h)
    BY <1>1, <1>2, <1>3, <2>2 DEF FileLive
  <2>. QED BY <2>1, <2>2
<1>. QED BY <1>4, <1>5, <1>6, <1>8, <1>9, <1>10, <1>11 DEF FileInv

\* Requests end; the object of an upload that ends is left to nobody.
LEMMA EndStep ==
  ASSUME FileInv, FileEnding, UNCHANGED <<file, fileUsed, object, fileTorn, pathContested>>,
         fileLoose \subseteq fileLoose', fileLoose' \subseteq FileIds,
         \A s \in Slots : FileAt(s, "insert") =>
           fileReq'[s] = fileReq[s] \/ fileReq[s].id \in fileLoose'
  PROVE  FileInv'
<1>1. FileTypeOK' BY DEF FileInv, FileTypeOK, FileEnding
<1>2. FilesTaken' /\ ReferenceFound' /\ PathsApart'
  BY DEF FileInv, FilesTaken, ReferenceFound, PathsApart, FileExists, FileLive
<1>3. ObjectOwned'
  <2> SUFFICES ASSUME NEW g \in object \ fileLoose',
                      ~(FileExists(g) /\ file[g].reference = "key")
               PROVE  \E s \in Slots : FileAt(s, "insert")' /\ fileReq'[s].id = g
    BY DEF ObjectOwned, FileExists
  <2>1. PICK s \in Slots : FileAt(s, "insert") /\ fileReq[s].id = g
    BY DEF FileInv, ObjectOwned
  <2>. QED BY <2>1 DEF FileAt
<1>4. \A s \in Slots, g \in FileIds :
        Holds(s, g)' => Holds(s, g) /\ fileReq'[s] = fileReq[s]
  BY DEF FileEnding, Holds
<1>5. RequestsSound'
  <2>1. \A g \in FileIds : FileExists(g)' <=> FileExists(g) BY DEF FileExists
  <2>. QED BY <1>4, <2>1 DEF FileInv, RequestsSound
<1>6. CreationsApart'
  <2>1. \A s \in Slots, p \in Paths : Creates(s, p)' => Creates(s, p)
    BY DEF FileEnding, Creates
  <2>. QED BY <2>1 DEF FileInv, CreationsApart, FileLive, FileExists
<1>. QED BY <1>1, <1>2, <1>3, <1>5, <1>6 DEF FileInv

LEMMA FileAbortStep ==
  ASSUME FileInv, NEW r \in Slots, FileAbort(r) PROVE FileInv'
<1>1. FileEnding BY DEF FileAbort, FileReturn, FileEnding, FileInv, FileTypeOK
<1>2. fileLoose' \subseteq FileIds /\ fileLoose \subseteq fileLoose'
  <2>1. CASE FileAt(r, "insert")
    <3>1. fileReq[r].id \in FileIds BY <2>1, FileFields DEF FileAt, FileInv
    <3>. QED BY <2>1, <3>1 DEF FileAbort, FileInv, FileTypeOK
  <2>2. CASE ~FileAt(r, "insert") BY <2>2 DEF FileAbort, FileInv, FileTypeOK
  <2>. QED BY <2>1, <2>2
<1>3. \A s \in Slots : FileAt(s, "insert") =>
        fileReq'[s] = fileReq[s] \/ fileReq[s].id \in fileLoose'
  BY DEF FileAbort, FileReturn, FileInv, FileTypeOK
<1>. QED BY <1>1, <1>2, <1>3, EndStep DEF FileAbort

LEMMA FileWriteStep ==
  ASSUME FileInv, NEW r \in Slots, WriteFile(r) PROVE FileInv'
<1> DEFINE f == fileReq[r].id
           row == fileReq[r].row
<1>1. fileReq[r] # None /\ fileReq[r].op = "update" BY DEF WriteFile, FileAt
<1>2. f \in FileIds /\ row \in FileRows BY <1>1, FileFields DEF FileInv
<1>3. FileEnding BY DEF WriteFile, FileReturn, FileEnding, FileInv, FileTypeOK
<1>4. \A s \in Slots : FileAt(s, "insert") => fileReq'[s] = fileReq[s]
  BY <1>1 DEF WriteFile, FileReturn, FileAt, FileInv, FileTypeOK
<1>5. Holds(r, f) BY <1>1 DEF Holds
<1>6. /\ row.reference = "key" => f \in object \cup fileTorn
      /\ FileExists(f) => row.path = file[f].path
  BY <1>1, <1>2, <1>5 DEF FileInv, RequestsSound
<1>7. CASE FileExists(f)
  <2>1. PutFile(f, row) /\ UNCHANGED <<fileUsed, object, fileTorn>> BY <1>7 DEF WriteFile
  <2>. QED BY <1>2, <1>3, <1>4, <1>6, <1>7, <2>1, PutStep
<1>8. CASE ~FileExists(f)
  <2>1. UNCHANGED <<file, fileUsed, object, fileTorn, fileLoose, pathContested>>
    BY <1>8 DEF WriteFile
  <2>2. fileLoose \subseteq FileIds BY DEF FileInv, FileTypeOK
  <2>. QED BY <1>3, <1>4, <2>1, <2>2, EndStep
<1>. QED BY <1>7, <1>8
\* ShareFile, UnshareFile, SoftDeleteFile and RestoreFile.
LEMMA MarkStep ==
  ASSUME FileInv, ShareFile \/ MarkDeleted PROVE FileInv'
<1>1. ASSUME NEW f \in FileIds, FileExists(f)
      PROVE  file[f] \in FileRows /\ (file[f].reference = "key" => f \in object \cup fileTorn)
  BY <1>1 DEF FileInv, FileTypeOK, FileExists, ReferenceFound
<1>2. CASE ShareFile
  <2>1. PICK f \in FileIds, mark \in {"shared", "private"} :
          /\ FileExists(f)
          /\ PutFile(f, [file[f] EXCEPT !.reference = mark])
    BY <1>2 DEF ShareFile
  <2> DEFINE row == [file[f] EXCEPT !.reference = mark]
  <2>2. /\ row \in FileRows /\ row.path = file[f].path /\ row.reference # "key"
    BY <1>1, <2>1 DEF FileRows, References
  <2>3. FileEnding /\ UNCHANGED <<fileUsed, object, fileTorn, fileReq>>
    BY <1>2 DEF ShareFile, FileEnding, FileInv, FileTypeOK
  <2>. QED BY <2>1, <2>2, <2>3, PutStep
<1>3. CASE MarkDeleted
  <2>1. PICK f \in FileIds, deleted \in BOOLEAN :
          /\ FileExists(f)
          /\ PutFile(f, [file[f] EXCEPT !.deleted = deleted])
    BY <1>3 DEF MarkDeleted
  <2> DEFINE row == [file[f] EXCEPT !.deleted = deleted]
  <2>2. /\ row \in FileRows /\ row.path = file[f].path
        /\ row.reference = file[f].reference
    BY <1>1, <2>1 DEF FileRows
  <2>3. FileEnding /\ UNCHANGED <<fileUsed, object, fileTorn, fileReq>>
    BY <1>3 DEF MarkDeleted, FileEnding, FileInv, FileTypeOK
  <2>. QED BY <1>1, <2>1, <2>2, <2>3, PutStep
<1>. QED BY <1>2, <1>3

\* An upload takes a fresh id for its object and its row.
LEMMA UploadStep ==
  ASSUME FileInv, NEW r \in Slots, UploadFile(r) PROVE FileInv'
<1>1. PICK f \in FileIds \ fileUsed :
        /\ FileAt(r, "create")
        /\ object' = object \cup {f}
        /\ fileUsed' = fileUsed \cup {f}
        /\ FileGoto(r, [op |-> "insert", path |-> fileReq[r].path, id |-> f])
        /\ UNCHANGED <<file, fileTorn, fileLoose, pathContested>>
  BY DEF UploadFile, fileHistory
<1> DEFINE request == [op |-> "insert", path |-> fileReq[r].path, id |-> f]
<1>2. fileReq[r] # None /\ fileReq[r].op = "create" /\ fileReq[r].path \in Paths
  BY <1>1, FileFields DEF FileAt, FileInv
<1>3. request \in FileRequests /\ request # None BY <1>2, NoFileRow DEF FileRequests
<1>4. /\ fileReq' \in [Slots -> FileRequests \cup {None}]
      /\ fileReq'[r] = request
      /\ \A s \in Slots \ {r} : fileReq'[s] = fileReq[s]
  BY <1>1, <1>3 DEF FileGoto, FileInv, FileTypeOK
<1>5. /\ ~FileExists(f) /\ f \notin object
      /\ \A s \in Slots : ~Holds(s, f)
      /\ \A g \in FileIds : FileExists(g)' <=> FileExists(g)
  BY <1>1 DEF FileInv, FilesTaken, RequestsSound, FileExists
<1>6. FileTypeOK' BY <1>1, <1>4 DEF FileInv, FileTypeOK
<1>7. FilesTaken' BY <1>1, <1>5 DEF FileInv, FilesTaken
<1>8. ReferenceFound' BY <1>1, <1>5 DEF FileInv, ReferenceFound
<1>9. PathsApart' BY <1>1 DEF FileInv, PathsApart, FileLive, FileExists
<1>10. ObjectOwned'
  <2> SUFFICES ASSUME NEW g \in object', g \notin fileLoose,
                      ~(FileExists(g) /\ file[g].reference = "key")
               PROVE  \E s \in Slots : FileAt(s, "insert")' /\ fileReq'[s].id = g
    BY <1>1 DEF ObjectOwned, FileExists
  <2>1. CASE g = f BY <1>3, <1>4, <2>1 DEF FileAt
  <2>2. CASE g # f
    <3>1. PICK s \in Slots : FileAt(s, "insert") /\ fileReq[s].id = g
      BY <1>1, <2>2 DEF FileInv, ObjectOwned
    <3>2. s # r BY <1>2, <3>1 DEF FileAt
    <3>. QED BY <1>4, <3>1, <3>2 DEF FileAt
  <2>. QED BY <2>1, <2>2
<1>11. RequestsSound'
  <2>1. /\ \A s \in Slots, g \in FileIds :
             Holds(s, g)' <=> IF s = r THEN g = f ELSE Holds(s, g)
        /\ \A g \in FileIds : ~Holds(r, g)
    BY <1>2, <1>3, <1>4 DEF Holds
  <2> SUFFICES ASSUME NEW s \in Slots, NEW g \in FileIds, Holds(s, g)'
               PROVE  /\ g \in fileUsed'
                      /\ fileReq'[s].op = "insert" =>
                           /\ g \in object'
                           /\ ~FileExists(g)
                           /\ \A q \in Slots \ {s} : ~Holds(q, g)'
                      /\ fileReq'[s].op = "update" =>
                           /\ fileReq'[s].row.reference = "key" => g \in object' \cup fileTorn
                           /\ FileExists(g) => fileReq'[s].row.path = file[g].path
                      /\ \/ fileReq'[s].op = "deleteRow"
                         \/ fileReq'[s].op = "deleteObject" /\ fileReq'[s].reference # "key"
                         => g \notin object' \ fileLoose
    BY <1>1, <1>5 DEF RequestsSound
  <2>2. CASE s = r BY <1>1, <1>4, <1>5, <2>1, <2>2
  <2>3. CASE s # r
    <3>1. Holds(s, g) /\ fileReq'[s] = fileReq[s] /\ g # f BY <1>4, <1>5, <2>1, <2>3
    <3>. QED BY <1>1, <2>1, <3>1 DEF FileInv, RequestsSound
  <2>. QED BY <2>2, <2>3
<1>12. CreationsApart'
  <2>1. \A s \in Slots, p \in Paths : Creates(s, p)' <=> Creates(s, p)
    BY <1>2, <1>3, <1>4 DEF Creates
  <2>. QED BY <1>1, <2>1 DEF FileInv, CreationsApart, FileLive, FileExists
<1>. QED BY <1>6, <1>7, <1>8, <1>9, <1>10, <1>11, <1>12 DEF FileInv

\* A creation inserts the row of its upload, or a fresh one with its contents.
LEMMA FileInsertStep ==
  ASSUME FileInv, NEW r \in Slots, NEW f \in FileIds, NEW reference \in {"key", "payload"},
         NEW p \in Paths, Creates(r, p), ~FileExists(f),
         \/ reference = "key" /\ FileAt(r, "insert") /\ fileReq[r].id = f
         \/ reference = "payload" /\ FileAt(r, "create") /\ f \notin fileUsed,
         file' = [file EXCEPT ![f] =
                    [path |-> p, reference |-> reference, deleted |-> FALSE]],
         fileUsed' = fileUsed \cup {f}, FileReturn(r),
         UNCHANGED <<object, fileTorn, fileLoose, pathContested>>
  PROVE  FileInv'
<1> DEFINE row == [path |-> p, reference |-> reference, deleted |-> FALSE]
<1>1. row \in FileRows /\ row # None
  <2>1. row \in FileRows BY DEF FileRows, References
  <2>. QED BY <2>1, NoFileRow
<1>2. /\ file' \in [FileIds -> FileRows \cup {None}]
      /\ file'[f] = row
      /\ \A g \in FileIds \ {f} : file'[g] = file[g]
  BY <1>1 DEF FileInv, FileTypeOK
<1>3. /\ fileReq' \in [Slots -> FileRequests \cup {None}]
      /\ fileReq'[r] = None
      /\ \A s \in Slots \ {r} : fileReq'[s] = fileReq[s]
  BY DEF FileReturn, FileInv, FileTypeOK
<1>4. FileTypeOK' BY <1>2, <1>3 DEF FileInv, FileTypeOK
<1>5. /\ \A g \in FileIds : FileExists(g)' <=> g = f \/ FileExists(g)
      /\ \A g \in FileIds : FileLive(g)' <=> g = f \/ FileLive(g)
  BY <1>1, <1>2 DEF FileExists, FileLive
<1>6. \A s \in Slots \ {r} : ~Holds(s, f)
  BY DEF FileInv, RequestsSound, Holds, FileAt
<1>7. reference = "key" => f \in object
  BY DEF FileInv, RequestsSound, Holds, FileAt
<1>8. reference = "payload" => f \notin object BY DEF FileInv, FilesTaken
<1>9. FilesTaken' BY <1>5 DEF FileInv, FilesTaken
<1>10. ReferenceFound' BY <1>2, <1>5, <1>7 DEF FileInv, ReferenceFound
<1>11. ObjectOwned'
  <2> SUFFICES ASSUME NEW g \in object, g \notin fileLoose,
                      ~(FileExists(g)' /\ file'[g].reference = "key")
               PROVE  \E s \in Slots : FileAt(s, "insert")' /\ fileReq'[s].id = g
    BY DEF ObjectOwned
  <2>1. g \in FileIds BY DEF FileInv, FileTypeOK
  <2>2. g # f BY <1>2, <1>5, <1>8, <2>1
  <2>3. PICK s \in Slots : FileAt(s, "insert") /\ fileReq[s].id = g
    BY <1>2, <1>5, <2>1, <2>2 DEF FileInv, ObjectOwned
  <2>4. s # r BY <2>2, <2>3 DEF FileAt
  <2>. QED BY <1>3, <2>3, <2>4 DEF FileAt
<1>12. RequestsSound'
  <2>1. \A s \in Slots, g \in FileIds :
          Holds(s, g)' <=> s # r /\ Holds(s, g)
    BY <1>3 DEF Holds
  <2>2. \A s \in Slots, g \in FileIds :
          Holds(s, g)' => Holds(s, g) /\ fileReq'[s] = fileReq[s] /\ g # f
    BY <1>3, <1>6, <2>1
  <2> SUFFICES ASSUME NEW s \in Slots, NEW g \in FileIds, Holds(s, g)'
               PROVE  /\ g \in fileUsed'
                      /\ fileReq'[s].op = "insert" =>
                           /\ g \in object
                           /\ ~FileExists(g)'
                           /\ \A q \in Slots \ {s} : ~Holds(q, g)'
                      /\ fileReq'[s].op = "update" =>
                           /\ fileReq'[s].row.reference = "key" => g \in object \cup fileTorn
                           /\ FileExists(g)' => fileReq'[s].row.path = file'[g].path
                      /\ \/ fileReq'[s].op = "deleteRow"
                         \/ fileReq'[s].op = "deleteObject" /\ fileReq'[s].reference # "key"
                         => g \notin object \ fileLoose
    BY DEF RequestsSound
  <2>. QED BY <1>2, <1>5, <2>1, <2>2 DEF FileInv, RequestsSound
<1>13. CreationsApart'
  <2>1. \A s \in Slots, x \in Paths : Creates(s, x)' <=> s # r /\ Creates(s, x)
    BY <1>3 DEF Creates
  <2>. QED BY <1>2, <1>5, <2>1 DEF FileInv, CreationsApart
<1>14. PathsApart'
  <2>1. \A g \in FileIds : FileLive(g) /\ file[g].path = p => p \in pathContested
    BY DEF FileInv, CreationsApart
  <2>2. ~FileLive(f) BY DEF FileLive
  <2>. QED BY <1>2, <1>5, <2>1, <2>2 DEF FileInv, PathsApart
<1>. QED BY <1>4, <1>9, <1>10, <1>11, <1>12, <1>13, <1>14 DEF FileInv
\* The object goes first; the request then removes the row.
LEMMA DeleteObjectStep ==
  ASSUME FileInv, NEW r \in Slots, DeleteObject(r) PROVE FileInv'
<1> DEFINE f == fileReq[r].id
           request == [op |-> "deleteRow", id |-> f]
<1>1. fileReq[r] # None /\ fileReq[r].op = "deleteObject" BY DEF DeleteObject, FileAt
<1>2. f \in FileIds BY <1>1, FileFields DEF FileInv
<1>3. request \in FileRequests /\ request # None
  <2>1. request \in FileRequests BY <1>2 DEF FileRequests
  <2>. QED BY <2>1, NoFileRow
<1>4. /\ fileReq' \in [Slots -> FileRequests \cup {None}]
      /\ fileReq'[r] = request
      /\ \A s \in Slots \ {r} : fileReq'[s] = fileReq[s]
  BY <1>3 DEF DeleteObject, FileGoto, FileInv, FileTypeOK
<1>5. /\ UNCHANGED <<file, fileUsed, fileLoose, pathContested>>
      /\ object' \subseteq object /\ object \subseteq object' \cup {f}
      /\ fileTorn \subseteq fileTorn' /\ fileTorn' \subseteq fileTorn \cup {f}
      /\ \A g \in object : g \in object' \cup fileTorn'
      /\ fileReq[r].reference = "key" => f \notin object'
      /\ fileReq[r].reference # "key" => object' = object
  BY DEF DeleteObject
<1>6. Holds(r, f) BY <1>1 DEF Holds
<1>7. f \in fileUsed /\ f \notin object' \ fileLoose
  BY <1>1, <1>2, <1>5, <1>6 DEF FileInv, RequestsSound
<1>8. FileTypeOK' BY <1>2, <1>4, <1>5 DEF FileInv, FileTypeOK
<1>9. /\ \A g \in FileIds : FileExists(g)' <=> FileExists(g)
      /\ \A g \in FileIds : FileLive(g)' <=> FileLive(g)
  BY <1>5 DEF FileExists, FileLive
<1>10. FilesTaken' BY <1>5, <1>9 DEF FileInv, FilesTaken
<1>11. ReferenceFound' BY <1>5, <1>9 DEF FileInv, ReferenceFound
<1>12. PathsApart' BY <1>5, <1>9 DEF FileInv, PathsApart
<1>13. ObjectOwned'
  <2> SUFFICES ASSUME NEW g \in object', g \notin fileLoose,
                      ~(FileExists(g) /\ file[g].reference = "key")
               PROVE  \E s \in Slots : FileAt(s, "insert")' /\ fileReq'[s].id = g
    BY <1>5 DEF ObjectOwned, FileExists
  <2>1. PICK s \in Slots : FileAt(s, "insert") /\ fileReq[s].id = g
    BY <1>5 DEF FileInv, ObjectOwned
  <2>2. s # r BY <1>1, <2>1 DEF FileAt
  <2>. QED BY <1>4, <2>1, <2>2 DEF FileAt
<1>14. RequestsSound'
  <2>1. \A s \in Slots, g \in FileIds : Holds(s, g)' <=> Holds(s, g)
    BY <1>1, <1>3, <1>4 DEF Holds
  <2> SUFFICES ASSUME NEW s \in Slots, NEW g \in FileIds, Holds(s, g)'
               PROVE  /\ g \in fileUsed
                      /\ fileReq'[s].op = "insert" =>
                           /\ g \in object'
                           /\ ~FileExists(g)
                           /\ \A q \in Slots \ {s} : ~Holds(q, g)'
                      /\ fileReq'[s].op = "update" =>
                           /\ fileReq'[s].row.reference = "key" => g \in object' \cup fileTorn'
                           /\ FileExists(g) => fileReq'[s].row.path = file[g].path
                      /\ \/ fileReq'[s].op = "deleteRow"
                         \/ fileReq'[s].op = "deleteObject" /\ fileReq'[s].reference # "key"
                         => g \notin object' \ fileLoose
    BY <1>5, <1>9 DEF RequestsSound
  <2>2. CASE s = r
    <3>1. g = f BY <1>4, <2>2 DEF Holds
    <3>. QED BY <1>4, <1>7, <2>2, <3>1
  <2>3. CASE s # r
    <3>1. Holds(s, g) /\ fileReq'[s] = fileReq[s] BY <1>4, <2>1, <2>3
    <3>2. fileReq[s].op = "insert" => g # f
      BY <1>2, <1>6, <2>3, <3>1 DEF FileInv, RequestsSound
    <3>. QED BY <1>5, <2>1, <3>1, <3>2 DEF FileInv, RequestsSound
  <2>. QED BY <2>2, <2>3
<1>15. CreationsApart'
  <2>1. \A s \in Slots, p \in Paths : Creates(s, p)' <=> Creates(s, p)
    BY <1>1, <1>3, <1>4 DEF Creates
  <2>. QED BY <1>5, <1>9, <2>1 DEF FileInv, CreationsApart
<1>. QED BY <1>8, <1>10, <1>11, <1>12, <1>13, <1>14, <1>15 DEF FileInv

LEMMA DeleteRowStep ==
  ASSUME FileInv, NEW r \in Slots, DeleteFileRow(r) PROVE FileInv'
<1> DEFINE f == fileReq[r].id
<1>1. fileReq[r] # None /\ fileReq[r].op = "deleteRow" BY DEF DeleteFileRow, FileAt
<1>2. f \in FileIds BY <1>1, FileFields DEF FileInv
<1>3. /\ fileReq' \in [Slots -> FileRequests \cup {None}]
      /\ fileReq'[r] = None
      /\ \A s \in Slots \ {r} : fileReq'[s] = fileReq[s]
      /\ file' \in [FileIds -> FileRows \cup {None}]
      /\ file'[f] = None
      /\ \A g \in FileIds \ {f} : file'[g] = file[g]
  BY <1>2 DEF DeleteFileRow, FileReturn, FileInv, FileTypeOK
<1>4. UNCHANGED <<fileUsed, object, fileTorn, fileLoose, pathContested>>
  BY DEF DeleteFileRow, fileHistory
<1>5. /\ \A g \in FileIds : FileExists(g)' => FileExists(g) /\ file'[g] = file[g]
      /\ \A g \in FileIds : FileLive(g)' => FileLive(g) /\ file'[g] = file[g]
  BY <1>3 DEF FileExists, FileLive
<1>6. Holds(r, f) BY <1>1 DEF Holds
<1>7. f \notin object \ fileLoose BY <1>1, <1>2, <1>6 DEF FileInv, RequestsSound
<1>8. FileTypeOK' BY <1>3, <1>4 DEF FileInv, FileTypeOK
<1>9. FilesTaken' BY <1>4, <1>5 DEF FileInv, FilesTaken
<1>10. ReferenceFound' BY <1>4, <1>5 DEF FileInv, ReferenceFound
<1>11. PathsApart' BY <1>4, <1>5 DEF FileInv, PathsApart
<1>12. ObjectOwned'
  <2> SUFFICES ASSUME NEW g \in object, g \notin fileLoose,
                      ~(FileExists(g)' /\ file'[g].reference = "key")
               PROVE  \E s \in Slots : FileAt(s, "insert")' /\ fileReq'[s].id = g
    BY <1>4 DEF ObjectOwned
  <2>1. g \in FileIds /\ g # f BY <1>7 DEF FileInv, FileTypeOK
  <2>2. ~(FileExists(g) /\ file[g].reference = "key") BY <1>3, <2>1 DEF FileExists
  <2>3. PICK s \in Slots : FileAt(s, "insert") /\ fileReq[s].id = g
    BY <2>2 DEF FileInv, ObjectOwned
  <2>4. s # r BY <1>1, <2>3 DEF FileAt
  <2>. QED BY <1>3, <2>3, <2>4 DEF FileAt
<1>13. RequestsSound'
  <2>1. \A s \in Slots, g \in FileIds :
          Holds(s, g)' => Holds(s, g) /\ fileReq'[s] = fileReq[s]
    BY <1>3 DEF Holds
  <2> SUFFICES ASSUME NEW s \in Slots, NEW g \in FileIds, Holds(s, g)'
               PROVE  /\ g \in fileUsed
                      /\ fileReq'[s].op = "insert" =>
                           /\ g \in object
                           /\ ~FileExists(g)'
                           /\ \A q \in Slots \ {s} : ~Holds(q, g)'
                      /\ fileReq'[s].op = "update" =>
                           /\ fileReq'[s].row.reference = "key" => g \in object \cup fileTorn
                           /\ FileExists(g)' => fileReq'[s].row.path = file'[g].path
                      /\ \/ fileReq'[s].op = "deleteRow"
                         \/ fileReq'[s].op = "deleteObject" /\ fileReq'[s].reference # "key"
                         => g \notin object \ fileLoose
    BY <1>4 DEF RequestsSound
  <2>. QED BY <1>5, <2>1 DEF FileInv, RequestsSound
<1>14. CreationsApart'
  <2>1. \A s \in Slots, p \in Paths : Creates(s, p)' => Creates(s, p)
    BY <1>3 DEF Creates
  <2>. QED BY <1>4, <1>5, <2>1 DEF FileInv, CreationsApart
<1>. QED BY <1>8, <1>9, <1>10, <1>11, <1>12, <1>13, <1>14 DEF FileInv

-----------------------------------------------------------------------------
(* The invariant and the theorems *)

LEMMA FileInvInit == FileInit => FileInv
BY DEF FileInit, FileInv, FileTypeOK, FilesTaken, RequestsSound, Holds, CreationsApart, Creates,
       ReferenceFound, ObjectOwned, PathsApart, FileLive, FileExists

LEMMA FileInvStep == FileInv /\ [FileNext]_fileVars => FileInv'
<1> SUFFICES ASSUME FileInv, [FileNext]_fileVars PROVE FileInv'
  OBVIOUS
<1>1. ASSUME NEW r \in Slots, CreateFile(r) PROVE FileInv'
  <2>1. PICK p \in Paths, failed \in BOOLEAN :
          /\ FilesAt(p) = {} \/ failed
          /\ FileBegin(r, [op |-> "create", path |-> p])
          /\ pathContested' = IF failed \/ Creations(p) # {} THEN pathContested \cup {p}
                              ELSE pathContested
    BY <1>1 DEF CreateFile
  <2> DEFINE request == [op |-> "create", path |-> p]
  <2>2. request \in FileRequests /\ request.op = "create" /\ request.path = p
    BY DEF FileRequests
  <2> HIDE DEF request
  <2>3. /\ pathContested \subseteq pathContested' /\ pathContested' \subseteq Paths
        /\ p \notin pathContested' => FilesAt(p) = {} /\ Creations(p) = {}
    BY <2>1 DEF FileInv, FileTypeOK
  <2>4. FileBegin(r, request) BY <2>1 DEF request
  <2>. QED BY <1>1, <2>2, <2>3, <2>4, FileBeginStep DEF CreateFile
<1>2. ASSUME NEW r \in Slots, UpdateFile(r) PROVE FileInv'
  <2>1. PICK f \in FileIds :
          FileLive(f) /\ FileBegin(r, [op |-> "update", id |-> f, row |-> file[f]])
    BY <1>2 DEF UpdateFile
  <2> DEFINE request == [op |-> "update", id |-> f, row |-> file[f]]
  <2>2. file[f] \in FileRows BY <2>1 DEF FileLive, FileExists, FileInv, FileTypeOK
  <2>3. /\ request \in FileRequests
        /\ request.op = "update" /\ request.id = f /\ request.row = file[f]
    BY <2>2 DEF FileRequests
  <2> HIDE DEF request
  <2>4. FileBegin(r, request) BY <2>1 DEF request
  <2>5. /\ UNCHANGED <<file, fileUsed, object, fileTorn, fileLoose, pathContested>>
        /\ pathContested \subseteq Paths
    BY <1>2 DEF UpdateFile, fileTables, fileHistory, FileInv, FileTypeOK
  <2>. QED BY <2>1, <2>3, <2>4, <2>5, FileBeginStep
<1>3. ASSUME NEW r \in Slots, DeleteFile(r) PROVE FileInv'
  <2>1. PICK f \in FileIds :
          /\ FileLive(f)
          /\ FileBegin(r, IF file[f].reference = "payload" THEN [op |-> "deleteRow", id |-> f]
                          ELSE [op |-> "deleteObject", id |-> f,
                                reference |-> file[f].reference])
    BY <1>3 DEF DeleteFile
  <2>2. file[f].reference \in References
    BY <2>1, FileRowFields DEF FileLive, FileExists, FileInv, FileTypeOK
  <2>3. /\ UNCHANGED <<file, fileUsed, object, fileTorn, fileLoose, pathContested>>
        /\ pathContested \subseteq Paths
    BY <1>3 DEF DeleteFile, fileTables, fileHistory, FileInv, FileTypeOK
  <2>4. CASE file[f].reference = "payload"
    <3> DEFINE request == [op |-> "deleteRow", id |-> f]
    <3>1. request \in FileRequests /\ request.op = "deleteRow" /\ request.id = f
      BY DEF FileRequests
    <3> HIDE DEF request
    <3>2. FileBegin(r, request) BY <2>1, <2>4 DEF request
    <3>. QED BY <2>1, <2>3, <2>4, <3>1, <3>2, FileBeginStep
  <2>5. CASE file[f].reference # "payload"
    <3> DEFINE request == [op |-> "deleteObject", id |-> f, reference |-> file[f].reference]
    <3>1. /\ request \in FileRequests /\ request.op = "deleteObject" /\ request.id = f
          /\ request.reference = file[f].reference
      BY <2>2 DEF FileRequests
    <3> HIDE DEF request
    <3>2. FileBegin(r, request) BY <2>1, <2>5 DEF request
    <3>. QED BY <2>1, <2>3, <3>1, <3>2, FileBeginStep
  <2>. QED BY <2>4, <2>5
<1>4. ASSUME NEW r \in Slots, InsertUploaded(r) PROVE FileInv'
  <2>1. /\ fileReq[r] # None /\ fileReq[r].op = "insert"
        /\ fileReq[r].id \in FileIds /\ fileReq[r].path \in Paths
    BY <1>4, FileFields DEF InsertUploaded, FileAt, FileInv
  <2>2. ~FileExists(fileReq[r].id) /\ fileReq[r].id \in fileUsed
    BY <2>1 DEF FileInv, RequestsSound, Holds
  <2>3. Creates(r, fileReq[r].path) BY <2>1 DEF Creates
  <2>4. fileUsed' = fileUsed \cup {fileReq[r].id} BY <1>4, <2>2 DEF InsertUploaded
  <2>. QED BY <1>4, <2>1, <2>2, <2>3, <2>4, FileInsertStep
           DEF InsertUploaded, InsertFile, fileHistory
<1>5. ASSUME NEW r \in Slots, InsertPayload(r) PROVE FileInv'
  <2>1. PICK f \in FileIds \ fileUsed :
          /\ FileAt(r, "create")
          /\ InsertFile(f, fileReq[r].path, "payload")
          /\ fileUsed' = fileUsed \cup {f}
    BY <1>5 DEF InsertPayload
  <2>2. /\ fileReq[r] # None /\ fileReq[r].op = "create" /\ fileReq[r].path \in Paths
    BY <2>1, FileFields DEF FileAt, FileInv
  <2>3. ~FileExists(f) BY DEF FileInv, FilesTaken
  <2>4. Creates(r, fileReq[r].path) BY <2>2 DEF Creates
  <2>. QED BY <1>5, <2>1, <2>2, <2>3, <2>4, FileInsertStep
           DEF InsertPayload, InsertFile, fileHistory
<1>6. CASE UNCHANGED fileVars
  <2>1. FileEnding /\ fileLoose \subseteq FileIds
    BY <1>6 DEF fileVars, FileEnding, FileInv, FileTypeOK
  <2>. QED BY <1>6, <2>1, EndStep DEF fileVars, fileTables, fileHistory
<1>. QED
  BY <1>1, <1>2, <1>3, <1>4, <1>5, <1>6, UploadStep, FileWriteStep, DeleteObjectStep,
     DeleteRowStep, FileAbortStep, MarkStep DEF FileNext

LEMMA FileInvHolds == FileSpec => []FileInv
BY FileInvInit, FileInvStep, PTL DEF FileSpec

\* The types of Files' state.
THEOREM FileTypes == FileSpec => []FileTypeOK
<1>1. FileInv => FileTypeOK BY DEF FileInv
<1>. QED BY <1>1, FileInvHolds, PTL

\* A row that names an object has it, unless a deletion of the file removed it.
THEOREM ReferencesAreFound == FileSpec => []ReferenceFound
<1>1. FileInv => ReferenceFound BY DEF FileInv
<1>. QED BY <1>1, FileInvHolds, PTL

\* An object is left to nobody only by a creation that broke off or by sharing.
THEOREM ObjectsAreOwned == FileSpec => []ObjectOwned
<1>1. FileInv => ObjectOwned BY DEF FileInv
<1>. QED BY <1>1, FileInvHolds, PTL

\* Two files share a path only where two creations overlapped, a look-up failed
\* or a deleted file came back.
THEOREM PathsStayApart == FileSpec => []PathsApart
<1>1. FileInv => PathsApart BY DEF FileInv
<1>. QED BY <1>1, FileInvHolds, PTL
=============================================================================
