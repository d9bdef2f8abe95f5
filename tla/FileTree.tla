------------------------------ MODULE FileTree ------------------------------
(***************************************************************************)
(* The file service: the tables files, filestree and blobs, the entries of *)
(* accesslists that name a file or folder, and the requests of the file    *)
(* and access services that read and change them.                          *)
(*                                                                         *)
(* A request of the file service is one READ COMMITTED transaction: each   *)
(* statement sees what was committed when it started and what its own      *)
(* transaction wrote; a row another transaction has written, and a key of  *)
(* a unique index it has taken or left, is waited for.  getFileByID climbs *)
(* from a node to the top with one statement a row, so each row it passes  *)
(* is a step.  Statements in between that only lead to an error the later  *)
(* ones give as well are one step with them.  A request that is refused    *)
(* changes nothing and is not an action.                                   *)
(*                                                                         *)
(* Not represented: who asks (a user with an entry for the whole type      *)
(* passes every check of this service, so the checks never decide what     *)
(* becomes of the tables; module Accounts has them), hashes, MIME types,   *)
(* and the limit of 50,000 rows.                                           *)
(***************************************************************************)
EXTENDS Naturals, FiniteSets

CONSTANTS
  Files,     (* Ids of files: fresh uuids, never used again.               *)
  Folders,   (* Ids of folders, likewise.                                  *)
  Names,     (* Names of files and folders.                                *)
  Entries,   (* Ids of rows of accesslists.                                *)
  Handlers,  (* Concurrent requests of the API server.                     *)
  Root,      (* The parent_id of what lies at the top, the empty string.   *)
  None,      (* No row or no node.                                         *)
  MaxUploadSize,  (* The longest upload.                                   *)
  MaxDeletions    (* Bound: no deletion begins after so many.              *)

ASSUME ConstantsAssumption ==
  /\ Files \cap Folders = {}
  /\ Root \notin Files \cup Folders
  /\ None \notin Files \cup Folders \cup {Root} \cup Names \cup Entries
  /\ None \notin [parent : Files \cup Folders \cup {Root}, name : Names]
  /\ MaxUploadSize \in Nat \ {0}
  /\ MaxDeletions \in Nat

VARIABLES
  filestree, (* parent_id and name of each node's row, or None.            *)
  files,     (* The ids of the rows of files.                              *)
  meta,      (* The size in the metadata of each row of files.             *)
  blobs,     (* The size of each file's blob; 0: no row.                   *)
  entry,     (* The resource of each row of accesslists, or None.          *)
  handler,   (* What each request is doing.                                *)
  deleted,   (* History: the nodes that have been deleted.                 *)
  crossed,   (* History: nodes moved while another move was written and    *)
             (* not committed.                                             *)
  raced,     (* History: node and folder, when the node was put in the     *)
             (* folder while a request was deleting that folder.           *)
  stray      (* History: the entries that were written for a node that was *)
             (* gone, or whose entries an open transaction had deleted.    *)

tables == <<filestree, files, meta, blobs, entry>>
history == <<deleted, crossed, raced>>
vars == <<tables, handler, history, stray>>

Nodes == Files \cup Folders
Parents == Nodes \cup {Root}
Sizes == 0 .. MaxUploadSize

(* A request at pc does op to node.  to and name are the place it gives    *)
(* the node, size the size of the content it uploads, at the row it reads  *)
(* next, id the row of accesslists it writes, gone those it has deleted.   *)
Idle == [pc |-> "idle", op |-> "none", node |-> None, to |-> None,
         name |-> None, size |-> 0, at |-> None, id |-> None, gone |-> {}]

Init ==
  /\ filestree = [n \in Nodes |-> None]
  /\ files = {}
  /\ meta = [n \in Nodes |-> 0]
  /\ blobs = [n \in Nodes |-> 0]
  /\ entry = [e \in Entries |-> None]
  /\ handler = [h \in Handlers |-> Idle]
  /\ deleted = {}
  /\ crossed = {}
  /\ raced = {}
  /\ stray = {}

-----------------------------------------------------------------------------
(* Rows, and who has written them.                                         *)

Creates(h) == handler[h].op \in {"createFile", "createFolder"}
Uploads(h) == handler[h].op \in {"createFile", "update"}

(* h's transaction has written a row of filestree, and is not committed.   *)
HasPlaced(h) == handler[h].pc \in {"climb", "commit"} /\ handler[h].to # None

(* h's transaction has written its node's blob.                            *)
HasUploaded(h) ==
  handler[h].op = "update" /\ handler[h].pc \in {"climb", "commit"}

(* It puts its node where it was not.                                      *)
Arrives(h) == HasPlaced(h) /\ handler[h].op # "rename"

(* It has deleted the rows of its node.                                    *)
HasDeleted(h) == handler[h].pc = "deleted"

(* Another transaction's uncommitted write of a row of n, or of the row e  *)
(* of accesslists, is waited for.                                          *)
TreeRowLocked(n) ==
  \E g \in Handlers : (HasPlaced(g) \/ HasDeleted(g)) /\ handler[g].node = n
BlobLocked(n) ==
  \E g \in Handlers : (HasUploaded(g) \/ HasDeleted(g)) /\ handler[g].node = n
EntryLocked(e) == \E g \in Handlers : e \in handler[g].gone

Place(p, nm) == [parent |-> p, name |-> nm]

(* Mutant: two columns are swapped.                                        *)
WrittenSwapped(h) == Place(handler[h].name, handler[h].to)

Written(h) == Place(handler[h].to, handler[h].name)

(* The row of n as the statements of h's transaction see it.               *)
RowFor(h, n) ==
  IF HasPlaced(h) /\ n = handler[h].node THEN Written(h) ELSE filestree[n]

(* ListFileIDsByName and ListFileIDsByParentID.                            *)
ListFileIDsByName(p, nm) == {n \in Nodes : filestree[n] = Place(p, nm)}
ListFileIDsByParentID(p) ==
  {n \in Nodes : filestree[n] # None /\ filestree[n].parent = p}

(* UNIQUE (parent_id, name): n may have the name nm in p, and no           *)
(* uncommitted transaction has taken that key or left it.                  *)
KeyFree(n, p, nm) ==
  /\ ListFileIDsByName(p, nm) \subseteq {n}
  /\ \A g \in Handlers : HasPlaced(g) =>
       /\ Written(g) # Place(p, nm)
       /\ filestree[handler[g].node] # Place(p, nm)

(* The rows of accesslists that name n.                                    *)
EntriesOf(n) == {e \in Entries : entry[e] = n}

Begin(h, request) == handler' = [handler EXCEPT ![h] = request]
Step(h, pc) == [handler[h] EXCEPT !.pc = pc]

(* getFileByID(n) is called in a transaction that has so far done r.       *)
GetFileByIDAfter(r, n) == [r EXCEPT !.pc = "climb", !.at = n]

(* n is a fresh uuid: it has no row and no request is creating it.         *)
Fresh(n) ==
  /\ n \notin files \cup deleted
  /\ \A g \in Handlers : handler[g].node # n

(* A row of accesslists no request refers to.                              *)
FreshEntry(e) == entry[e] = None /\ \A g \in Handlers : handler[g].id # e

-----------------------------------------------------------------------------
(* Creating.                                                               *)

(* The upload of a file of s bytes is accepted: neither empty nor longer   *)
(* than MaxUploadSize.                                                     *)
processAndReadFileUpload(s) == s \in 1 .. MaxUploadSize

(* The insert of the row of filestree, once its key is free.               *)
CreateFileNameID(h, request) ==
  /\ KeyFree(request.node, request.to, request.name)
  /\ Begin(h, GetFileByIDAfter(request, request.node))

(* CreateFileNameID and the inserts of the other rows, none of which can   *)
(* conflict.  The parent is a node the client knows of, file or folder.     *)
Insert(h, request) ==
  /\ handler[h].pc = "idle"
  /\ Fresh(request.node)
  /\ request.to \in files \cup {Root}
  /\ CreateFileNameID(h, request)
  /\ UNCHANGED <<tables, history, stray>>

CreateFile(h, n, p, nm, s, e) ==
  /\ n \in Files
  /\ FreshEntry(e)
  /\ Insert(h, [Idle EXCEPT !.op = "createFile", !.node = n, !.to = p,
                            !.name = nm, !.size = s, !.id = e])

(* No entry is made for the creator of a folder.                           *)
CreateFolder(h, n, p, nm) ==
  /\ n \in Folders
  /\ Insert(h, [Idle EXCEPT !.op = "createFolder", !.node = n, !.to = p,
                            !.name = nm])

-----------------------------------------------------------------------------
(* Renaming and moving.                                                    *)

(* Mutant: the row is written although another transaction has written it. *)
UpdateRowUnlocked(h, request) ==
  /\ KeyFree(request.node, request.to, request.name)
  /\ Begin(h, GetFileByIDAfter(request, request.node))

(* UpdateFileNameByID and UpdateFileParentID of the store, once the row's  *)
(* lock and the key are free.                                              *)
UpdateRow(h, request) ==
  /\ ~TreeRowLocked(request.node)
  /\ KeyFree(request.node, request.to, request.name)
  /\ Begin(h, GetFileByIDAfter(request, request.node))

Rename(h, n, nm) ==
  /\ handler[h].pc = "idle"
  /\ filestree[n] # None
  /\ UpdateRow(h, [Idle EXCEPT !.op = "rename", !.node = n,
                               !.to = filestree[n].parent, !.name = nm])
  /\ UNCHANGED <<tables, history, stray>>

RenameFile(h, n, nm) == n \in files \cap Files /\ Rename(h, n, nm)
RenameFolder(h, n, nm) == n \in files \cap Folders /\ Rename(h, n, nm)

(* The target of a move is the root or a folder.                           *)
TargetIsFolder(p) == p \in (files \cap Folders) \cup {Root}

(* The end of both moves.  A node that has that parent already is not      *)
(* written; a name that is taken there ends the move.                      *)
UpdateFileParentID(h, n, p) ==
  /\ filestree[n] # None
  /\ IF filestree[n].parent = p
       THEN Begin(h, GetFileByIDAfter([Idle EXCEPT !.op = "move", !.node = n], n))
       ELSE UpdateRow(h, [Idle EXCEPT !.op = "move", !.node = n, !.to = p,
                                      !.name = filestree[n].name])
  /\ UNCHANGED <<tables, history, stray>>

MoveFile(h, n, p) ==
  /\ handler[h].pc = "idle"
  /\ n \in files \cap Files
  /\ TargetIsFolder(p)
  /\ UpdateFileParentID(h, n, p)

(* MoveFolder up to isDescendantOrSelf, which the root need not pass.      *)
MoveFolder(h, n, p) ==
  /\ handler[h].pc = "idle"
  /\ n \in files \cap Folders
  /\ TargetIsFolder(p)
  /\ p # n
  /\ Begin(h, [Idle EXCEPT !.op = "move", !.node = n, !.to = p, !.at = p,
                           !.pc = IF p = Root THEN "move" ELSE "descendant"])
  /\ UNCHANGED <<tables, history, stray>>

(* One row of isDescendantOrSelf: the request ends with an error when the  *)
(* row is missing or its parent is the folder that moves.                  *)
isDescendantOrSelf(h) ==
  LET row == filestree[handler[h].at] IN
  /\ handler[h].pc = "descendant"
  /\ Begin(h, IF row = None \/ row.parent = handler[h].node THEN Idle
              ELSE IF row.parent = Root THEN Step(h, "move")
              ELSE [handler[h] EXCEPT !.at = row.parent])
  /\ UNCHANGED <<tables, history, stray>>

(* The rest of MoveFolder: it ends with an error when the folder is gone   *)
(* or its name is taken in the target.                                     *)
MoveFolderRow(h) ==
  LET n == handler[h].node
      p == handler[h].to
      taken == filestree[n].parent # p
               /\ ListFileIDsByName(p, filestree[n].name) # {}
  IN
  /\ handler[h].pc = "move"
  /\ IF filestree[n] = None \/ taken
       THEN Begin(h, Idle) /\ UNCHANGED <<tables, history, stray>>
       ELSE UpdateFileParentID(h, n, p)

-----------------------------------------------------------------------------
(* Uploading and deleting.                                                 *)

(* UpdateFile has read the file's row; a folder has no blob to replace.    *)
UpdateFile(h, n, s) ==
  /\ handler[h].pc = "idle"
  /\ n \in files \cap Files
  /\ Begin(h, [Idle EXCEPT !.op = "update", !.node = n, !.size = s, !.pc = "upload"])
  /\ UNCHANGED <<tables, history, stray>>

(* DeleteBlob, which must delete a row, CreateBlob and UpdateFile's row.   *)
ReplaceBlob(h) ==
  /\ handler[h].pc = "upload"
  /\ ~BlobLocked(handler[h].node)
  /\ Begin(h, IF blobs[handler[h].node] = 0 THEN Idle
              ELSE GetFileByIDAfter(handler[h], handler[h].node))
  /\ UNCHANGED <<tables, history, stray>>

MayDelete == Cardinality(deleted) < MaxDeletions

(* DeleteFile has read the file's row.                                     *)
DeleteFile(h, n) ==
  /\ handler[h].pc = "idle"
  /\ MayDelete
  /\ n \in files \cap Files
  /\ Begin(h, [Idle EXCEPT !.op = "deleteFile", !.node = n, !.pc = "delete"])
  /\ UNCHANGED <<tables, history, stray>>

(* Mutant: the folder need not be empty.                                   *)
DeleteFolderFull(h, n) ==
  /\ handler[h].pc = "idle"
  /\ MayDelete
  /\ n \in files \cap Folders
  /\ Begin(h, [Idle EXCEPT !.op = "deleteFolder", !.node = n, !.pc = "delete"])
  /\ UNCHANGED <<tables, history, stray>>

(* DeleteFolder has found the folder empty.                                *)
DeleteFolder(h, n) ==
  /\ handler[h].pc = "idle"
  /\ MayDelete
  /\ n \in files \cap Folders
  /\ ListFileIDsByParentID(n) = {}
  /\ Begin(h, [Idle EXCEPT !.op = "deleteFolder", !.node = n, !.pc = "delete"])
  /\ UNCHANGED <<tables, history, stray>>

(* Mutants: rows that should go stay.                                      *)
DeleteBlobKeeps(n) == blobs
DeleteNoAccessEntry(n) == {}

DeleteFileNameID(n) == [filestree EXCEPT ![n] = None]
DeleteFileRow(n) == files \ {n}
DeleteBlob(n) == [blobs EXCEPT ![n] = 0]

(* The statement deletes the rows that are committed when it starts.       *)
DeleteAccessEntriesByResource(n) == EntriesOf(n)

(* Every one of the deletions affects a row.                               *)
Deletable(h, n) ==
  /\ n \in files
  /\ filestree[n] # None
  /\ handler[h].op = "deleteFile" => blobs[n] # 0
  /\ EntriesOf(n) # {}

(* The entries of S that are still there, of nodes that are gone or whose  *)
(* deletion has had its statements.                                        *)
StillStray(S) ==
  {e \in S : /\ entry'[e] # None
             /\ \/ entry'[e] \notin files'
                \/ \E g \in Handlers : HasDeleted(g)' /\ handler'[g].node = entry'[e]}

(* The deletions of DeleteFile and of DeleteFolder; one that affects no    *)
(* row is an error and undoes the others.                                  *)
DeleteRows(h) ==
  LET n == handler[h].node IN
  /\ handler[h].pc = "delete"
  /\ ~TreeRowLocked(n)
  /\ ~BlobLocked(n)
  /\ Begin(h, IF Deletable(h, n)
                THEN [handler[h] EXCEPT !.pc = "deleted",
                                        !.gone = DeleteAccessEntriesByResource(n)]
                ELSE Idle)
  /\ UNCHANGED <<tables, history, stray>>

(* They are committed.                                                     *)
CommitDeletion(h) ==
  LET n == handler[h].node IN
  /\ HasDeleted(h)
  /\ Begin(h, Idle)
  /\ filestree' = DeleteFileNameID(n)
  /\ files' = DeleteFileRow(n)
  /\ meta' = [meta EXCEPT ![n] = 0]
  /\ blobs' = DeleteBlob(n)
  /\ entry' = [e \in Entries |-> IF e \in handler[h].gone THEN None ELSE entry[e]]
  /\ deleted' = deleted \cup {n}
  /\ crossed' = crossed \ {n}
  /\ raced' = {r \in raced : r[1] # n} \cup
       {<<handler[g].node, n>> : g \in
          {f \in Handlers : Arrives(f) /\ handler[f].to = n}}
  /\ stray' = StillStray(stray)

-----------------------------------------------------------------------------
(* Reading.                                                                *)

(* GetFileByID and GetFolderByID, which takes files as well.               *)
GetFileByID(h, n) ==
  /\ handler[h].pc = "idle"
  /\ n \in files
  /\ Begin(h, GetFileByIDAfter([Idle EXCEPT !.op = "get", !.node = n], n))
  /\ UNCHANGED <<tables, history, stray>>

(* GetFilesByPath resolves a path from the top, a segment at a time.       *)
GetFilesByPath(h) ==
  /\ handler[h].pc = "idle"
  /\ Begin(h, [Idle EXCEPT !.op = "list", !.at = Root, !.pc = "resolve"])
  /\ UNCHANGED <<tables, history, stray>>

(* A segment nm, which names nothing, or more than nothing.                *)
ResolveSegment(h, nm) ==
  LET found == ListFileIDsByName(handler[h].at, nm) IN
  /\ handler[h].pc = "resolve"
  /\ \/ /\ found = {}
        /\ Begin(h, Idle)
     \/ \E n \in found : Begin(h, [handler[h] EXCEPT !.at = n])
  /\ UNCHANGED <<tables, history, stray>>

(* The entries of the folder the path names, or the file it names.  Each   *)
(* is read on its own, and left out when it cannot be: the model follows   *)
(* one of them.                                                            *)
ResolvedEntries(h) ==
  LET at == handler[h].at IN
  IF TargetIsFolder(at) THEN ListFileIDsByParentID(at)
  ELSE {at} \cap files

ListEntries(h) ==
  /\ handler[h].pc = "resolve"
  /\ \/ /\ ResolvedEntries(h) = {}
        /\ Begin(h, Idle)
     \/ \E n \in ResolvedEntries(h) :
          Begin(h, GetFileByIDAfter([Idle EXCEPT !.op = "get", !.node = n], n))
  /\ UNCHANGED <<tables, history, stray>>

-----------------------------------------------------------------------------
(* The end of a transaction.                                               *)

(* What the transaction does not insert itself must be there when          *)
(* getFileByID starts.                                                     *)
FileRowThere(h) ==
  \/ Creates(h)
  \/ handler[h].at # handler[h].node
  \/ handler[h].node \in files

(* A request that only reads has its answer.                               *)
TopReached(h) ==
  IF handler[h].op = "get" THEN Idle ELSE [Step(h, "commit") EXCEPT !.at = None]

(* Mutant: the path is not followed to the top.                            *)
GetOwnRow(h) ==
  /\ handler[h].pc = "climb"
  /\ Begin(h, IF FileRowThere(h) THEN TopReached(h) ELSE Idle)
  /\ UNCHANGED <<tables, history, stray>>

(* One row of getFileByID: a missing row is an error, the root its end.    *)
(* The path is put together from what the rows held when they were read.   *)
getFileByID(h) ==
  LET row == RowFor(h, handler[h].at) IN
  /\ handler[h].pc = "climb"
  /\ Begin(h, IF ~FileRowThere(h) \/ row = None THEN Idle
              ELSE IF row.parent = Root THEN TopReached(h)
              ELSE [handler[h] EXCEPT !.at = row.parent])
  /\ UNCHANGED <<tables, history, stray>>

(* The moves that are written and not committed, h's among them.           *)
OpenMoves == {g \in Handlers : HasPlaced(g) /\ handler[g].op = "move"}

(* What h's transaction inserted into files, wrote to its metadata,        *)
(* inserted into blobs and into accesslists.                               *)
CreateFileRow(h) ==
  IF Creates(h) THEN files \cup {handler[h].node} ELSE files
UpdateFileRow(h) ==
  IF Uploads(h) THEN [meta EXCEPT ![handler[h].node] = handler[h].size] ELSE meta
CreateBlob(h) ==
  IF Uploads(h) THEN [blobs EXCEPT ![handler[h].node] = handler[h].size] ELSE blobs
CreateAccessEntry(h) ==
  IF handler[h].op = "createFile"
    THEN [entry EXCEPT ![handler[h].id] = handler[h].node] ELSE entry

(* The nodes above n: m is above n when every set of nodes that holds the   *)
(* parent of n and, with a node, its parent holds m.  Nothing is above a   *)
(* node without a row, nor above one at the top.                           *)
HoldsParent(tree, C, n) ==
  tree[n] = None \/ tree[n].parent = Root \/ tree[n].parent \in C
AboveIn(tree, n) ==
  {m \in Nodes : \A C \in SUBSET (Nodes \ {m}) :
     HoldsParent(tree, C, n) => \E k \in C : ~HoldsParent(tree, C, k)}
Above(n) == AboveIn(filestree, n)

(* What the histories keep: as long as moves are open, all that crossed,    *)
(* then those on a cycle; and who is in a folder that goes or is gone.     *)
CrossedBy(h) ==
  IF h \in OpenMoves /\ OpenMoves # {h}
    THEN {handler[g].node : g \in OpenMoves} ELSE {}
DeletersOf(p) ==
  {g \in Handlers : handler[g].op = "deleteFolder" /\ handler[g].node = p}
ArriversTo(r) ==
  {g \in Handlers : /\ Arrives(g) /\ handler[g].node = r[1]
                    /\ handler[g].to = r[2]}
RacedBy(h) ==
  IF Arrives(h) /\ DeletersOf(handler[h].to) # {}
    THEN {<<handler[h].node, handler[h].to>>} ELSE {}

Commit(h) ==
  LET n == handler[h].node IN
  /\ handler[h].pc = "commit"
  /\ Begin(h, Idle)
  /\ filestree' = [filestree EXCEPT ![n] = RowFor(h, n)]
  /\ files' = CreateFileRow(h)
  /\ meta' = UpdateFileRow(h)
  /\ blobs' = CreateBlob(h)
  /\ entry' = CreateAccessEntry(h)
  /\ crossed' = {m \in crossed \cup CrossedBy(h) :
                   OpenMoves \subseteq {h} => m \in Above(m)'}
  /\ raced' = {r \in raced \cup RacedBy(h) :
                 \/ ArriversTo(r) \ {h} # {}
                 \/ /\ filestree'[r[1]] # None /\ filestree'[r[1]].parent = r[2]
                    /\ filestree'[r[2]] = None \/ DeletersOf(r[2]) # {}}
  /\ UNCHANGED <<deleted, stray>>

(* The client goes away, the server stops or a statement fails: the        *)
(* transaction is rolled back.                                             *)
HandlerFails(h) ==
  /\ handler[h] # Idle
  /\ Begin(h, Idle)
  /\ UNCHANGED <<tables, history>>
  /\ stray' = StillStray(stray)

-----------------------------------------------------------------------------
(* The access service, outside any transaction, on entries for files.      *)

(* Create and Update have found the file the entry is to name.             *)
CreateEntry(h, e, n) ==
  /\ handler[h].pc = "idle"
  /\ n \in files
  /\ FreshEntry(e)
  /\ Begin(h, [Idle EXCEPT !.op = "grant", !.node = n, !.id = e, !.pc = "entry"])
  /\ UNCHANGED <<tables, history, stray>>

UpdateEntry(h, e, n) ==
  /\ handler[h].pc = "idle"
  /\ n \in files
  /\ entry[e] # None
  /\ Begin(h, [Idle EXCEPT !.op = "regrant", !.node = n, !.id = e, !.pc = "entry"])
  /\ UNCHANGED <<tables, history, stray>>

(* CreateAccessEntry, or UpdateAccessEntry, whose error is dropped.        *)
WriteEntry(h) ==
  LET e == handler[h].id IN
  /\ handler[h].pc = "entry"
  /\ ~EntryLocked(e)
  /\ Begin(h, Idle)
  /\ UNCHANGED <<filestree, files, meta, blobs, history>>
  /\ IF handler[h].op = "regrant" /\ entry[e] = None
       THEN UNCHANGED <<entry, stray>>
       ELSE /\ entry' = [entry EXCEPT ![e] = handler[h].node]
            /\ stray' = StillStray(stray \cup {e})

DeleteEntry(e) ==
  /\ entry[e] # None
  /\ ~EntryLocked(e)
  /\ entry' = [entry EXCEPT ![e] = None]
  /\ stray' = stray \ {e}
  /\ UNCHANGED <<filestree, files, meta, blobs, handler, history>>

-----------------------------------------------------------------------------
(* The routes.  A name that is missing in the request, here None, is       *)
(* refused, and so is an upload that is empty or too long.                 *)

create(h, n, p, nm, s, e) ==
  nm # None /\ processAndReadFileUpload(s) /\ CreateFile(h, n, p, nm, s, e)
update(h, n, s) == processAndReadFileUpload(s) /\ UpdateFile(h, n, s)
createFolder(h, n, p, nm) == nm # None /\ CreateFolder(h, n, p, nm)
renameFile(h, n, nm) == nm # None /\ RenameFile(h, n, nm)
renameFolder(h, n, nm) == nm # None /\ RenameFolder(h, n, nm)
moveFile(h, n, p) == MoveFile(h, n, p)
moveFolder(h, n, p) == MoveFolder(h, n, p)
deleteFile(h, n) == DeleteFile(h, n)
deleteFolder(h, n) == DeleteFolder(h, n)

(* getMetadata answers with the row and download with the blob.            *)
download(h, n) == GetFileByID(h, n)

NamesGiven == Names \cup {None}

Starts(h) ==
  /\ handler[h].pc = "idle"
  /\ \E n \in Nodes :
      \/ \E p \in Parents, nm \in NamesGiven :
           \/ \E s \in Sizes, e \in Entries : create(h, n, p, nm, s, e)
           \/ createFolder(h, n, p, nm)
      \/ \E nm \in NamesGiven : renameFile(h, n, nm) \/ renameFolder(h, n, nm)
      \/ \E p \in Parents : moveFile(h, n, p) \/ moveFolder(h, n, p)
      \/ \E s \in Sizes : update(h, n, s)
      \/ deleteFile(h, n)
      \/ deleteFolder(h, n)
      \/ download(h, n)
      \/ \E e \in Entries : CreateEntry(h, e, n) \/ UpdateEntry(h, e, n)

Proceeds(h) ==
  \/ isDescendantOrSelf(h)
  \/ MoveFolderRow(h)
  \/ ReplaceBlob(h)
  \/ DeleteRows(h)
  \/ CommitDeletion(h)
  \/ \E nm \in Names : ResolveSegment(h, nm)
  \/ ListEntries(h)
  \/ getFileByID(h)
  \/ Commit(h)
  \/ WriteEntry(h)

Next ==
  \/ \E h \in Handlers :
       Starts(h) \/ GetFilesByPath(h) \/ Proceeds(h) \/ HandlerFails(h)
  \/ \E e \in Entries : DeleteEntry(e)

Spec == Init /\ [][Next]_vars

-----------------------------------------------------------------------------
(* Properties.                                                             *)

Requests ==
  [pc : {"idle", "descendant", "move", "upload", "delete", "deleted",
         "resolve", "climb", "commit", "entry"},
   op : {"none", "createFile", "createFolder", "rename", "move", "update",
         "deleteFile", "deleteFolder", "get", "list", "grant", "regrant"},
   node : Nodes \cup {None}, to : Parents \cup {None},
   name : Names \cup {None}, size : Sizes, at : Parents \cup {None},
   id : Entries \cup {None}, gone : SUBSET Entries]

TypeOK ==
  /\ filestree \in [Nodes -> [parent : Parents, name : Names] \cup {None}]
  /\ files \subseteq Nodes
  /\ meta \in [Nodes -> Sizes]
  /\ blobs \in [Nodes -> Sizes]
  /\ entry \in [Entries -> Nodes \cup {None}]
  /\ handler \in [Handlers -> Requests]
  /\ deleted \subseteq Nodes
  /\ crossed \subseteq Nodes
  /\ raced \subseteq Nodes \X Nodes
  /\ stray \subseteq Entries

(* The three rows of a file come and go together, a folder has no blob,    *)
(* and the metadata of a file is that of the blob stored, whatever uploads *)
(* and deletions of it overlap.                                            *)
RowsAgree ==
  \A n \in Nodes :
    /\ n \in files <=> filestree[n] # None
    /\ n \in files \cap Files <=> blobs[n] # 0
    /\ meta[n] = blobs[n]

(* The circularity check of MoveFolder reads the tree before the folder    *)
(* moves, and MoveFile has none: what keeps the tree a tree is that        *)
(* getFileByID climbs from the moved node before the commit.  So nodes     *)
(* above themselves only come of moves that were open together, two at     *)
(* least, of which none saw all that the others had written.               *)
CyclesExplained ==
  \A n \in Nodes :
    n \in Above(n) => \E m, k \in Above(n) \cap crossed : m # k

(* A node is left in a folder that is no more only when it was put there   *)
(* while that folder was being deleted, or when its parent was a file,     *)
(* which may have children and is deleted without looking for them.        *)
OrphansExplained ==
  \A n \in Nodes :
    LET p == filestree[n].parent IN
    filestree[n] # None /\ p # Root /\ filestree[p] = None =>
      p \in Files \/ <<n, p>> \in raced

(* An entry that names a file or folder that is no more was written by a   *)
(* request of the access service that had found the node before, and       *)
(* after the deletion had looked for entries: no other entry stays behind. *)
EntriesExplained ==
  \A e \in Entries : entry[e] # None /\ entry[e] \notin files => e \in stray

(* Requests change the tree one at a time and in one respect each, though  *)
(* they read and write it concurrently: the service implements FileStore.  *)
Store == INSTANCE FileStore WITH
  place <- filestree, size <- meta, removed <- deleted
ImplementsFileStore == Store!Spec
=============================================================================
