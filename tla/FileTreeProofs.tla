--------------------------- MODULE FileTreeProofs ----------------------------
(***************************************************************************)
(* Proofs about FileTree, for every number of files, folders, names,       *)
(* entries and requests.                                                   *)
(***************************************************************************)
EXTENDS FileTree, TLAPS

(* The records of requests, field by field.                                *)
Request(pc, op, node, to, name, size, at, id, gone) ==
  [pc |-> pc, op |-> op, node |-> node, to |-> to, name |-> name,
   size |-> size, at |-> at, id |-> id, gone |-> gone]

LEMMA IdleRequest ==
  Idle = Request("idle", "none", None, None, None, 0, None, None, {})
BY DEF Idle, Request

LEMMA NodeRequest ==
  ASSUME NEW op, NEW node
  PROVE  [Idle EXCEPT !.op = op, !.node = node] =
           Request("idle", op, node, None, None, 0, None, None, {})
<1> DEFINE a == [Idle EXCEPT !.op = op]
<1>1. a = Request("idle", op, None, None, None, 0, None, None, {})
  BY DEF Idle, Request
<1> HIDE DEF a
<1>2. [a EXCEPT !.node = node] = Request("idle", op, node, None, None, 0, None, None, {})
  BY <1>1 DEF Request
<1> QED
  BY <1>2 DEF a

LEMMA NodeRequestAt ==
  ASSUME NEW op, NEW node, NEW pc
  PROVE  [Idle EXCEPT !.op = op, !.node = node, !.pc = pc] =
           Request(pc, op, node, None, None, 0, None, None, {})
<1> DEFINE a == [Idle EXCEPT !.op = op, !.node = node]
<1>1. a = Request("idle", op, node, None, None, 0, None, None, {})
  BY NodeRequest
<1> HIDE DEF a
<1>2. [a EXCEPT !.pc = pc] = Request(pc, op, node, None, None, 0, None, None, {})
  BY <1>1 DEF Request
<1> QED
  BY <1>2 DEF a

LEMMA PlacingRequest ==
  ASSUME NEW op, NEW node, NEW to, NEW name
  PROVE  [Idle EXCEPT !.op = op, !.node = node, !.to = to, !.name = name] =
           Request("idle", op, node, to, name, 0, None, None, {})
<1> DEFINE a == [Idle EXCEPT !.op = op, !.node = node]
           b == [a EXCEPT !.to = to]
<1>1. a = Request("idle", op, node, None, None, 0, None, None, {})
  BY NodeRequest
<1> HIDE DEF a
<1>2. b = Request("idle", op, node, to, None, 0, None, None, {})
  BY <1>1 DEF Request
<1> HIDE DEF b
<1>3. [b EXCEPT !.name = name] = Request("idle", op, node, to, name, 0, None, None, {})
  BY <1>2 DEF Request
<1> QED
  BY <1>3 DEF a, b

LEMMA MovingRequest ==
  ASSUME NEW node, NEW to, NEW pc
  PROVE  [Idle EXCEPT !.op = "move", !.node = node, !.to = to, !.at = to, !.pc = pc] =
           Request(pc, "move", node, to, None, 0, to, None, {})
<1> DEFINE a == [Idle EXCEPT !.op = "move", !.node = node]
           b == [a EXCEPT !.to = to]
           c == [b EXCEPT !.at = to]
<1>1. a = Request("idle", "move", node, None, None, 0, None, None, {})
  BY NodeRequest
<1> HIDE DEF a
<1>2. b = Request("idle", "move", node, to, None, 0, None, None, {})
  BY <1>1 DEF Request
<1> HIDE DEF b
<1>3. c = Request("idle", "move", node, to, None, 0, to, None, {})
  BY <1>2 DEF Request
<1> HIDE DEF c
<1>4. [c EXCEPT !.pc = pc] = Request(pc, "move", node, to, None, 0, to, None, {})
  BY <1>3 DEF Request
<1> QED
  BY <1>4 DEF a, b, c

LEMMA SteppedRequests ==
  ASSUME NEW r \in Requests, NEW pc, NEW at
  PROVE  /\ [r EXCEPT !.pc = pc] =
              Request(pc, r.op, r.node, r.to, r.name, r.size, r.at, r.id, r.gone)
         /\ [r EXCEPT !.at = at] =
              Request(r.pc, r.op, r.node, r.to, r.name, r.size, at, r.id, r.gone)
         /\ [r EXCEPT !.pc = pc, !.at = at] =
              Request(pc, r.op, r.node, r.to, r.name, r.size, at, r.id, r.gone)
<1> DEFINE a == [r EXCEPT !.pc = pc]
<1>1. a = Request(pc, r.op, r.node, r.to, r.name, r.size, r.at, r.id, r.gone)
  BY DEF Request, Requests
<1>2. [r EXCEPT !.at = at] =
        Request(r.pc, r.op, r.node, r.to, r.name, r.size, at, r.id, r.gone)
  BY DEF Request, Requests
<1> HIDE DEF a
<1>3. [a EXCEPT !.at = at] =
        Request(pc, r.op, r.node, r.to, r.name, r.size, at, r.id, r.gone)
  BY <1>1 DEF Request
<1> QED
  BY <1>1, <1>2, <1>3 DEF a

-----------------------------------------------------------------------------
(* What a request relies on at each place.                                 *)

Placed(r) == r.pc \in {"climb", "commit"} /\ r.to # None

(* It has written a row of filestree or a blob, and not deleted it.        *)
Holds(r) == Placed(r) \/ (r.op = "update" /\ r.pc \in {"climb", "commit"})

NewOps == {"createFile", "createFolder"}

(* The kind of a request at each place, and what it has been given.        *)
Shape(r) ==
  /\ r \in Requests
  /\ r.pc = "idle" => r = Idle
  /\ r.pc \in {"descendant", "move"} =>
       /\ r.op = "move" /\ r.node \in Folders
       /\ r.to \in Folders \cup {Root} /\ r.to # r.node
  /\ r.pc \in {"delete", "deleted"} <=> r.op \in {"deleteFile", "deleteFolder"}
  /\ r.op = "deleteFile" => r.node \in Files
  /\ r.op = "deleteFolder" => r.node \in Folders
  /\ r.pc = "resolve" => r.op = "list" /\ r.at \in Parents
  /\ r.pc = "entry" => r.node \in Nodes /\ r.id \in Entries
  /\ r.pc \in {"descendant", "climb"} => r.at \in Nodes
  /\ r.pc \in {"climb", "commit"} => r.node \in Nodes
  /\ r.pc = "commit" => r.at = None
  /\ r.op = "list" => r.pc = "resolve" /\ r.to = None
  /\ r.op = "get" => r.pc = "climb" /\ r.to = None
  /\ r.op = "update" =>
       /\ r.pc \in {"upload", "climb", "commit"} /\ r.to = None
       /\ r.node \in Files /\ r.size \in 1 .. MaxUploadSize
  /\ r.pc = "upload" => r.op = "update"
  /\ r.op \in NewOps =>
       /\ r.pc \in {"climb", "commit"} /\ r.to \in Parents
  /\ r.op = "createFile" =>
       r.node \in Files /\ r.size \in 1 .. MaxUploadSize /\ r.id \in Entries
  /\ r.op = "createFolder" => r.node \in Folders
  /\ Placed(r) =>
       /\ r.op \in NewOps \cup {"rename", "move"}
       /\ r.to \in Parents /\ r.name \in Names
       /\ r.op # "rename" => r.to # r.node

(* The nodes there are or have been, and the top: who may be a parent.     *)
Known == files \cup deleted \cup {Root}

(* What it relies on in the tables.                                        *)
Relies(r) ==
  /\ r.to \in Known \cup {None}
  /\ r.op \in NewOps => r.node \notin files \cup deleted
  /\ r.op = "update" /\ r.pc # "upload" => blobs[r.node] # 0
  /\ r.pc = "deleted" => r.node \in files
  /\ Placed(r) /\ r.op = "rename" =>
       filestree[r.node] # None /\ filestree[r.node].parent = r.to
  /\ Placed(r) /\ r.op = "move" =>
       filestree[r.node] # None /\ filestree[r.node].name = r.name

Rows == [parent : Parents, name : Names]

(* No two nodes have the same place.                                       *)
DistinctPlaces ==
  \A m, n \in Nodes : m # n /\ filestree[m] # None => filestree[m] # filestree[n]

(* A parent is no node that is yet to be created.                          *)
ParentsKnown ==
  \A n \in Nodes : filestree[n] # None => filestree[n].parent \in Known

TablesInv ==
  /\ filestree \in [Nodes -> Rows \cup {None}]
  /\ files \subseteq Nodes
  /\ meta \in [Nodes -> Sizes]
  /\ blobs \in [Nodes -> Sizes]
  /\ entry \in [Entries -> Nodes \cup {None}]
  /\ deleted \subseteq Nodes
  /\ RowsAgree
  /\ DistinctPlaces
  /\ ParentsKnown

RequestsInv ==
  /\ handler \in [Handlers -> Requests]
  /\ \A h \in Handlers : Shape(handler[h]) /\ Relies(handler[h])

(* The node and the place are h's alone: no row has the place, and no      *)
(* other request has written a row of the node or taken the place.         *)
Alone(h, n, p, nm) ==
  /\ \A m \in Nodes \ {n} : filestree[m] # Place(p, nm)
  /\ \A g \in Handlers \ {h} : HasPlaced(g) =>
       handler[g].node # n /\ Written(g) # Place(p, nm)

LocksInv ==
  \A h \in Handlers : HasPlaced(h) =>
    Alone(h, handler[h].node, handler[h].to, handler[h].name)

(* Nobody else has written a row of a node that r has written or deleted,   *)
(* if either has deleted it.                                               *)
Undisturbed(h, r) ==
  \A g \in Handlers \ {h} :
    /\ HasDeleted(g) /\ (Holds(r) \/ r.pc = "deleted") => handler[g].node # r.node
    /\ Holds(handler[g]) /\ r.pc = "deleted" => handler[g].node # r.node

DeletersInv == \A h \in Handlers : Undisturbed(h, handler[h])

Inv == TablesInv /\ RequestsInv /\ LocksInv /\ DeletersInv

(* A request h comes to by a step other than a row of the climb: it has    *)
(* its own row to read next, if it climbs, and if it is to delete a folder *)
(* it has just found it empty.                                             *)
Calm(h, r) ==
  /\ r.pc \notin {"commit", "deleted"}
  /\ Undisturbed(h, r)
  /\ r.pc = "climb" => r.at = r.node
  /\ r.op = "deleteFolder" => DeleteFolder(h, r.node)

Calmly(h) == Inv' /\ Calm(h, handler'[h])

(* A step of one request that changes no table.                            *)
LEMMA QuietStep ==
  ASSUME Inv, NEW h \in Handlers, NEW r, Begin(h, r), Shape(r), Relies(r),
         UNCHANGED <<tables, deleted>>, Undisturbed(h, r),
         Placed(r) => \/ Alone(h, r.node, r.to, r.name)
                      \/ /\ HasPlaced(h)
                         /\ r.node = handler[h].node
                         /\ r.to = handler[h].to
                         /\ r.name = handler[h].name
  PROVE  Inv'
<1>1. /\ handler' \in [Handlers -> Requests]
      /\ handler'[h] = r
      /\ \A g \in Handlers \ {h} : handler'[g] = handler[g]
  BY DEF Inv, RequestsInv, Begin, Shape
<1>2. TablesInv'
  BY DEF Inv, TablesInv, RowsAgree, DistinctPlaces, ParentsKnown, Known, tables
<1>3. \A q : Relies(q)' <=> Relies(q)
  BY DEF Relies, Known, tables
<1>4. \A q : Shape(q)' <=> Shape(q)
  BY DEF Shape
<1>5. RequestsInv'
  BY <1>1, <1>3, <1>4 DEF Inv, RequestsInv
<1>6. LocksInv'
  <2>1. \A g \in Handlers \ {h} : HasPlaced(g)' <=> HasPlaced(g)
    BY <1>1 DEF HasPlaced
  <2>2. \A g \in Handlers \ {h} : Written(g)' = Written(g)
    BY <1>1 DEF Written
  <2>3. HasPlaced(h)' <=> Placed(r)
    BY <1>1 DEF HasPlaced, Placed
  <2>4. Written(h)' = Place(r.to, r.name)
    BY <1>1 DEF Written
  <2>5. Placed(r) => Alone(h, r.node, r.to, r.name)
    BY DEF Inv, LocksInv
  <2>6. Placed(r) => Alone(h, r.node, r.to, r.name)'
    BY <1>1, <2>1, <2>2, <2>5 DEF Alone, tables
  <2>7. ASSUME NEW g \in Handlers \ {h}, HasPlaced(g)
        PROVE  Alone(g, handler[g].node, handler[g].to, handler[g].name)'
    <3>1. Alone(g, handler[g].node, handler[g].to, handler[g].name)
      BY <2>7 DEF Inv, LocksInv
    <3>2. \A m \in Nodes \ {handler'[g].node} :
            filestree'[m] # Place(handler'[g].to, handler'[g].name)
      BY <1>1, <3>1 DEF Alone, tables
    <3>3. ASSUME NEW f \in Handlers \ {g}, HasPlaced(f)'
          PROVE  handler'[f].node # handler'[g].node
                 /\ Written(f)' # Place(handler'[g].to, handler'[g].name)
      <4>1. CASE f = h
        BY <1>1, <2>3, <2>4, <2>5, <2>7, <3>3, <4>1 DEF Alone, Written
      <4>2. CASE f # h
        BY <1>1, <2>1, <2>2, <3>1, <3>3, <4>2 DEF Alone
      <4> QED
        BY <4>1, <4>2
    <3> QED
      BY <3>2, <3>3 DEF Alone
  <2> QED
    BY <1>1, <2>1, <2>3, <2>6, <2>7 DEF LocksInv
<1>7. DeletersInv'
  <2>1. \A q : Holds(q)' <=> Holds(q)
    BY DEF Holds, Placed
  <2>2. Undisturbed(h, handler[h])'
    BY <1>1, <2>1 DEF Undisturbed, HasDeleted
  <2>3. ASSUME NEW g \in Handlers \ {h} PROVE Undisturbed(g, handler[g])'
    <3>1. Undisturbed(g, handler[g])
      BY DEF Inv, DeletersInv
    <3> QED
      BY <1>1, <2>1, <3>1 DEF Undisturbed, HasDeleted
  <2> QED
    BY <2>2, <2>3 DEF DeletersInv
<1> QED
  BY <1>2, <1>5, <1>6, <1>7 DEF Inv

(* A request that begins or goes on and has written no row of filestree.   *)
LEMMA UnplacedStep ==
  ASSUME Inv, NEW h \in Handlers, NEW r, Begin(h, r), Shape(r), Relies(r),
         UNCHANGED <<tables, history>>, ~Placed(r), Calm(h, r)
  PROVE  Calmly(h)
<1>1. handler'[h] = r
  BY DEF Begin, Inv, RequestsInv
<1> QED
  BY <1>1, QuietStep DEF history, Calmly, Calm

LEMMA PlacedStep ==
  ASSUME Inv, NEW h \in Handlers, NEW r, Begin(h, r), Shape(r), Relies(r),
         UNCHANGED <<tables, history>>, Alone(h, r.node, r.to, r.name), Calm(h, r)
  PROVE  Calmly(h)
<1>1. handler'[h] = r
  BY DEF Begin, Inv, RequestsInv
<1> QED
  BY <1>1, QuietStep DEF history, Calmly, Calm

LEMMA IdleShape ==
  Shape(Idle) /\ Relies(Idle) /\ ~Placed(Idle) /\ \A h : Calm(h, Idle)
BY ConstantsAssumption
DEF Shape, Relies, Placed, Idle, Requests, NewOps, Sizes, Calm, Undisturbed, Holds

(* The constants, as the steps need them.                                  *)
LEMMA NoneFacts ==
  /\ None \notin Nodes /\ None \notin Parents /\ None \notin Names /\ None \notin Entries
  /\ None \notin Rows /\ Root \notin Nodes /\ Nodes \subseteq Parents
  /\ Root \in Parents
  /\ Files \cap Folders = {} /\ Files \subseteq Nodes /\ Folders \subseteq Nodes
  /\ 0 \in Sizes /\ 1 .. MaxUploadSize \subseteq Sizes \ {0}
BY ConstantsAssumption DEF Nodes, Parents, Rows, Sizes

(* The request that begins getFileByID keeps what it was given.            *)
LEMMA ClimbRequest ==
  ASSUME NEW q \in Requests, NEW n, NEW r, r = GetFileByIDAfter(q, n)
  PROVE  r = Request("climb", q.op, q.node, q.to, q.name, q.size, n, q.id, q.gone)
BY SteppedRequests DEF GetFileByIDAfter

LEMMA InsertStep ==
  ASSUME Inv, NEW h \in Handlers, NEW q \in Requests, Insert(h, q),
         q.op \in NewOps, q.node \in Nodes, q.name \in Names,
         q.op = "createFile" =>
           q.node \in Files /\ q.size \in 1 .. MaxUploadSize /\ q.id \in Entries,
         q.op = "createFolder" => q.node \in Folders
  PROVE  Calmly(h)
<1> DEFINE r == GetFileByIDAfter(q, q.node)
<1>1. r = Request("climb", q.op, q.node, q.to, q.name, q.size, q.node, q.id, q.gone)
  BY ClimbRequest
<1> HIDE DEF r
<1>2. /\ q.node \notin files \cup deleted
      /\ \A g \in Handlers : handler[g].node # q.node
      /\ q.to \in files \cup {Root}
      /\ KeyFree(q.node, q.to, q.name)
      /\ Begin(h, r)
      /\ UNCHANGED <<tables, history>>
  BY DEF Insert, Fresh, CreateFileNameID, r
<1>3. q.to \in Parents /\ q.to # q.node /\ q.to # None
  BY <1>2, NoneFacts DEF Inv, TablesInv
<1>4. Shape(r)
  BY <1>1, <1>3, NoneFacts DEF Request, Shape, Requests, NewOps, Placed
<1>5. Relies(r)
  BY <1>1, <1>2 DEF Request, Relies, NewOps, Known
<1>6. Alone(h, q.node, q.to, q.name)
  BY <1>2 DEF Alone, KeyFree, ListFileIDsByName
<1> QED
  BY <1>1, <1>2, <1>4, <1>5, <1>6, PlacedStep
  DEF Request, Calm, NewOps, Undisturbed

LEMMA UpdateRowStep ==
  ASSUME Inv, NEW h \in Handlers, NEW q \in Requests, UpdateRow(h, q),
         UNCHANGED <<tables, history>>,
         q.op \in {"rename", "move"}, q.node \in Nodes, q.to \in Parents,
         q.to \in Known, q.name \in Names, filestree[q.node] # None,
         q.op = "rename" => filestree[q.node].parent = q.to,
         q.op = "move" => filestree[q.node].name = q.name /\ q.to # q.node
  PROVE  Calmly(h)
<1> DEFINE r == GetFileByIDAfter(q, q.node)
<1>1. r = Request("climb", q.op, q.node, q.to, q.name, q.size, q.node, q.id, q.gone)
  BY ClimbRequest
<1> HIDE DEF r
<1>2. /\ ~TreeRowLocked(q.node)
      /\ KeyFree(q.node, q.to, q.name)
      /\ Begin(h, r)
  BY DEF UpdateRow, r
<1>3. Shape(r)
  BY <1>1, NoneFacts DEF Request, Shape, Requests, NewOps, Placed
<1>4. Relies(r)
  BY <1>1, <1>2 DEF Request, Relies, NewOps
<1>5. Alone(h, q.node, q.to, q.name)
  BY <1>2 DEF Alone, KeyFree, ListFileIDsByName, TreeRowLocked
<1> QED
  BY <1>1, <1>2, <1>3, <1>4, <1>5, PlacedStep
  DEF Request, Calm, Undisturbed, TreeRowLocked

LEMMA CreateFileStep ==
  ASSUME Inv, NEW h \in Handlers, NEW n \in Nodes, NEW p \in Parents,
         NEW nm \in NamesGiven, NEW s \in Sizes, NEW e \in Entries,
         create(h, n, p, nm, s, e)
  PROVE  Calmly(h)
<1> DEFINE a == [Idle EXCEPT !.op = "createFile", !.node = n, !.to = p, !.name = nm]
           b == [a EXCEPT !.size = s]
           c == [b EXCEPT !.id = e]
<1>1. a = Request("idle", "createFile", n, p, nm, 0, None, None, {})
  BY PlacingRequest
<1> HIDE DEF a
<1>2. b = Request("idle", "createFile", n, p, nm, s, None, None, {})
  BY <1>1 DEF Request
<1> HIDE DEF b
<1>3. c = Request("idle", "createFile", n, p, nm, s, None, e, {})
  BY <1>2 DEF Request
<1> HIDE DEF c
<1>4. /\ nm \in Names /\ s \in 1 .. MaxUploadSize /\ n \in Files
      /\ Insert(h, c)
  BY DEF create, CreateFile, processAndReadFileUpload, NamesGiven, a, b, c
<1>5. c \in Requests
  BY <1>3, <1>4 DEF Request, Requests
<1> QED
  BY <1>3, <1>4, <1>5, InsertStep DEF Request, NewOps

LEMMA CreateFolderStep ==
  ASSUME Inv, NEW h \in Handlers, NEW n \in Nodes, NEW p \in Parents,
         NEW nm \in NamesGiven, createFolder(h, n, p, nm)
  PROVE  Calmly(h)
<1> DEFINE a == [Idle EXCEPT !.op = "createFolder", !.node = n, !.to = p, !.name = nm]
<1>1. a = Request("idle", "createFolder", n, p, nm, 0, None, None, {})
  BY PlacingRequest
<1>2. nm \in Names /\ n \in Folders /\ Insert(h, a)
  BY DEF createFolder, CreateFolder, NamesGiven
<1> HIDE DEF a
<1>3. a \in Requests
  BY <1>1, <1>2, NoneFacts DEF Request, Requests
<1> QED
  BY <1>1, <1>2, <1>3, InsertStep DEF Request, NewOps

LEMMA RenameStep ==
  ASSUME Inv, NEW h \in Handlers, NEW n \in Nodes, NEW nm \in Names, Rename(h, n, nm)
  PROVE  Calmly(h)
<1> DEFINE p == filestree[n].parent
           q == [Idle EXCEPT !.op = "rename", !.node = n, !.to = p, !.name = nm]
<1>1. q = Request("idle", "rename", n, p, nm, 0, None, None, {})
  BY PlacingRequest
<1>2. filestree[n] # None /\ UpdateRow(h, q) /\ UNCHANGED <<tables, history>>
  BY DEF Rename
<1>3. p \in Parents /\ p \in Known
  BY <1>2 DEF Inv, TablesInv, Rows, ParentsKnown
<1> HIDE DEF q
<1>4. q \in Requests
  BY <1>1, <1>3, NoneFacts DEF Request, Requests
<1> QED
  BY <1>1, <1>2, <1>3, <1>4, UpdateRowStep DEF Request

(* UpdateFileParentID, at the end of either move.                          *)
LEMMA MoveStep ==
  ASSUME Inv, NEW h \in Handlers, NEW n \in Nodes, NEW p \in Parents, p # n,
         p \in Known, UpdateFileParentID(h, n, p)
  PROVE  Calmly(h)
<1> DEFINE nm == filestree[n].name
<1>1. filestree[n] # None /\ filestree[n] \in Rows /\ UNCHANGED <<tables, history>>
  BY DEF UpdateFileParentID, Inv, TablesInv
<1>2. CASE filestree[n].parent = p
  <2> DEFINE q == [Idle EXCEPT !.op = "move", !.node = n]
             r == GetFileByIDAfter(q, n)
  <2>1. q = Request("idle", "move", n, None, None, 0, None, None, {})
    BY NodeRequest
  <2>2. Begin(h, r)
    BY <1>2 DEF UpdateFileParentID
  <2> HIDE DEF q
  <2>3. q \in Requests
    BY <2>1, NoneFacts DEF Request, Requests
  <2>4. r = Request("climb", "move", n, None, None, 0, n, None, {})
    BY <2>1, <2>3, ClimbRequest DEF Request
  <2> HIDE DEF r
  <2>5. Shape(r) /\ Relies(r) /\ ~Placed(r) /\ Calm(h, r)
    BY <2>4, NoneFacts DEF Request, Shape, Relies, Placed, Requests, NewOps, Calm,
        Undisturbed, Holds
  <2> QED
    BY <1>1, <2>2, <2>5, UnplacedStep
<1>3. CASE filestree[n].parent # p
  <2> DEFINE q == [Idle EXCEPT !.op = "move", !.node = n, !.to = p, !.name = nm]
  <2>1. q = Request("idle", "move", n, p, nm, 0, None, None, {})
    BY PlacingRequest
  <2>2. UpdateRow(h, q)
    BY <1>3 DEF UpdateFileParentID
  <2> HIDE DEF q
  <2>3. nm \in Names
    BY <1>1 DEF Rows
  <2>4. q \in Requests
    BY <2>1, <2>3, NoneFacts DEF Request, Requests
  <2> QED
    BY <1>1, <2>1, <2>2, <2>3, <2>4, UpdateRowStep DEF Request
<1> QED
  BY <1>2, <1>3

(* Requests that begin without having written anything.                    *)
LEMMA BeginStep ==
  ASSUME Inv, NEW h \in Handlers, NEW n \in Nodes,
         \/ \E p \in Parents : MoveFolder(h, n, p)
         \/ \E s \in Sizes : update(h, n, s)
         \/ DeleteFile(h, n)
         \/ DeleteFolder(h, n)
         \/ GetFileByID(h, n)
         \/ \E e \in Entries : CreateEntry(h, e, n) \/ UpdateEntry(h, e, n)
  PROVE  Calmly(h)
<1>1. ASSUME NEW p \in Parents, MoveFolder(h, n, p)
      PROVE  Calmly(h)
  <2> DEFINE pc == IF p = Root THEN "move" ELSE "descendant"
             r == [Idle EXCEPT !.op = "move", !.node = n, !.to = p, !.at = p, !.pc = pc]
  <2>1. r = Request(pc, "move", n, p, None, 0, p, None, {})
    BY MovingRequest
  <2>2. /\ n \in Folders /\ p \in Folders \cup {Root} /\ p # n /\ p \in Known
        /\ Begin(h, r) /\ UNCHANGED <<tables, history>>
    BY <1>1 DEF MoveFolder, TargetIsFolder, Known
  <2>3. pc \in {"move", "descendant"} /\ (pc = "descendant" => p \in Nodes)
    BY <2>2, NoneFacts
  <2> HIDE DEF pc, r
  <2>4. Shape(r) /\ Relies(r) /\ ~Placed(r) /\ Calm(h, r)
    BY <2>1, <2>2, <2>3, NoneFacts
    DEF Request, Shape, Relies, Placed, Requests, NewOps, Calm,
        Undisturbed, Holds
  <2> QED
    BY <2>2, <2>4, UnplacedStep
<1>2. ASSUME NEW s \in Sizes, update(h, n, s)
      PROVE  Calmly(h)
  <2> DEFINE a == [Idle EXCEPT !.op = "update", !.node = n]
             b == [a EXCEPT !.size = s]
             r == [b EXCEPT !.pc = "upload"]
  <2>1. a = Request("idle", "update", n, None, None, 0, None, None, {})
    BY NodeRequest
  <2>2. n \in Files /\ s \in 1 .. MaxUploadSize /\ Begin(h, r)
        /\ UNCHANGED <<tables, history>>
    BY <1>2 DEF update, UpdateFile, processAndReadFileUpload
  <2> HIDE DEF a
  <2>3. b = Request("idle", "update", n, None, None, s, None, None, {})
    BY <2>1 DEF Request
  <2> HIDE DEF b
  <2>4. r = Request("upload", "update", n, None, None, s, None, None, {})
    BY <2>3 DEF Request
  <2> HIDE DEF r
  <2>5. Shape(r) /\ Relies(r) /\ ~Placed(r) /\ Calm(h, r)
    BY <2>2, <2>4, NoneFacts DEF Request, Shape, Relies, Placed, Requests, NewOps, Calm,
        Undisturbed, Holds
  <2> QED
    BY <2>2, <2>5, UnplacedStep
<1>3. CASE DeleteFile(h, n) \/ DeleteFolder(h, n)
  <2>1. PICK op \in {"deleteFile", "deleteFolder"} :
          /\ op = "deleteFile" => n \in Files
          /\ op = "deleteFolder" => n \in Folders /\ DeleteFolder(h, n)
          /\ Begin(h, [Idle EXCEPT !.op = op, !.node = n, !.pc = "delete"])
          /\ UNCHANGED <<tables, history>>
    BY <1>3 DEF DeleteFile, DeleteFolder
  <2> DEFINE r == [Idle EXCEPT !.op = op, !.node = n, !.pc = "delete"]
  <2>2. r = Request("delete", op, n, None, None, 0, None, None, {})
    BY NodeRequestAt
  <2> HIDE DEF r
  <2>3. Shape(r) /\ Relies(r) /\ ~Placed(r) /\ Calm(h, r)
    BY <2>1, <2>2, NoneFacts DEF Request, Shape, Relies, Placed, Requests, NewOps, Calm,
        Undisturbed, Holds
  <2>4. Begin(h, r)
    BY <2>1 DEF r
  <2> QED
    BY <2>1, <2>3, <2>4, UnplacedStep
<1>4. CASE GetFileByID(h, n)
  <2> DEFINE q == [Idle EXCEPT !.op = "get", !.node = n]
             r == GetFileByIDAfter(q, n)
  <2>1. q = Request("idle", "get", n, None, None, 0, None, None, {})
    BY NodeRequest
  <2>2. Begin(h, r) /\ UNCHANGED <<tables, history>>
    BY <1>4 DEF GetFileByID
  <2> HIDE DEF q
  <2>3. q \in Requests
    BY <2>1, NoneFacts DEF Request, Requests
  <2>4. r = Request("climb", "get", n, None, None, 0, n, None, {})
    BY <2>1, <2>3, ClimbRequest DEF Request
  <2> HIDE DEF r
  <2>5. Shape(r) /\ Relies(r) /\ ~Placed(r) /\ Calm(h, r)
    BY <2>4, NoneFacts DEF Request, Shape, Relies, Placed, Requests, NewOps, Calm,
        Undisturbed, Holds
  <2> QED
    BY <2>2, <2>5, UnplacedStep
<1>5. ASSUME NEW e \in Entries, CreateEntry(h, e, n) \/ UpdateEntry(h, e, n)
      PROVE  Calmly(h)
  <2>1. PICK op \in {"grant", "regrant"} :
          /\ Begin(h, [Idle EXCEPT !.op = op, !.node = n, !.id = e, !.pc = "entry"])
          /\ UNCHANGED <<tables, history>>
    BY <1>5 DEF CreateEntry, UpdateEntry
  <2> DEFINE a == [Idle EXCEPT !.op = op, !.node = n]
             b == [a EXCEPT !.id = e]
             r == [b EXCEPT !.pc = "entry"]
  <2>2. a = Request("idle", op, n, None, None, 0, None, None, {})
    BY NodeRequest
  <2>3. Begin(h, r)
    BY <2>1
  <2> HIDE DEF a
  <2>4. b = Request("idle", op, n, None, None, 0, None, e, {})
    BY <2>2 DEF Request
  <2> HIDE DEF b
  <2>5. r = Request("entry", op, n, None, None, 0, None, e, {})
    BY <2>4 DEF Request
  <2> HIDE DEF r
  <2>6. Shape(r) /\ Relies(r) /\ ~Placed(r) /\ Calm(h, r)
    BY <2>1, <2>5, NoneFacts DEF Request, Shape, Relies, Placed, Requests, NewOps, Calm,
        Undisturbed, Holds
  <2> QED
    BY <2>1, <2>3, <2>6, UnplacedStep
<1> QED
  BY <1>1, <1>2, <1>3, <1>4, <1>5

LEMMA StartsStep ==
  ASSUME Inv, NEW h \in Handlers, Starts(h)
  PROVE  Calmly(h)
<1>1. PICK n \in Nodes :
      \/ \E p \in Parents, nm \in NamesGiven :
           \/ \E s \in Sizes, e \in Entries : create(h, n, p, nm, s, e)
           \/ createFolder(h, n, p, nm)
      \/ \E nm \in Names : Rename(h, n, nm)
      \/ \E p \in Parents : p # n /\ p \in Known /\ UpdateFileParentID(h, n, p)
      \/ \E p \in Parents : MoveFolder(h, n, p)
      \/ \E s \in Sizes : update(h, n, s)
      \/ DeleteFile(h, n)
      \/ DeleteFolder(h, n)
      \/ GetFileByID(h, n)
      \/ \E e \in Entries : CreateEntry(h, e, n) \/ UpdateEntry(h, e, n)
  <2>1. \A n \in Nodes, p \in Parents :
          moveFile(h, n, p) => p # n /\ p \in Known /\ UpdateFileParentID(h, n, p)
    BY NoneFacts DEF moveFile, MoveFile, TargetIsFolder, Known
  <2>2. \A n \in Nodes, nm \in NamesGiven :
          renameFile(h, n, nm) \/ renameFolder(h, n, nm) =>
            nm \in Names /\ Rename(h, n, nm)
    BY DEF renameFile, renameFolder, RenameFile, RenameFolder, NamesGiven
  <2> QED
    BY <2>1, <2>2 DEF Starts, moveFolder, deleteFile, deleteFolder, download
<1>2. ASSUME NEW p \in Parents, NEW nm \in NamesGiven, NEW s \in Sizes,
             NEW e \in Entries, create(h, n, p, nm, s, e)
      PROVE  Calmly(h)
  BY <1>2, CreateFileStep
<1>3. ASSUME NEW p \in Parents, NEW nm \in NamesGiven, createFolder(h, n, p, nm)
      PROVE  Calmly(h)
  BY <1>3, CreateFolderStep
<1> QED
  BY <1>1, <1>2, <1>3, RenameStep, MoveStep, BeginStep

(* Requests that read a row, or end.                                       *)
LEMMA ReadsStep ==
  ASSUME Inv, NEW h \in Handlers,
         \/ GetFilesByPath(h)
         \/ \E nm \in Names : ResolveSegment(h, nm)
         \/ ListEntries(h)
         \/ isDescendantOrSelf(h)
         \/ MoveFolderRow(h)
         \/ ReplaceBlob(h)
         \/ HandlerFails(h)
  PROVE  Calmly(h)
<1>1. handler[h] \in Requests /\ Shape(handler[h]) /\ Relies(handler[h])
  BY DEF Inv, RequestsInv
<1>2. CASE GetFilesByPath(h)
  <2> DEFINE a == [Idle EXCEPT !.op = "list"]
             b == [a EXCEPT !.at = Root]
             r == [b EXCEPT !.pc = "resolve"]
  <2>1. Begin(h, r) /\ UNCHANGED <<tables, history>>
    BY <1>2 DEF GetFilesByPath
  <2>2. a = Request("idle", "list", None, None, None, 0, None, None, {})
    BY DEF Idle, Request
  <2> HIDE DEF a
  <2>3. b = Request("idle", "list", None, None, None, 0, Root, None, {})
    BY <2>2 DEF Request
  <2> HIDE DEF b
  <2>4. r = Request("resolve", "list", None, None, None, 0, Root, None, {})
    BY <2>3 DEF Request
  <2> HIDE DEF r
  <2>5. Shape(r) /\ Relies(r) /\ ~Placed(r) /\ Calm(h, r)
    BY <2>4, NoneFacts DEF Request, Shape, Relies, Placed, Requests, NewOps, Calm,
        Undisturbed, Holds
  <2> QED
    BY <2>1, <2>5, UnplacedStep
<1>3. ASSUME Begin(h, Idle), UNCHANGED <<tables, history>>
      PROVE  Calmly(h)
  BY <1>3, IdleShape, UnplacedStep
<1>4. ASSUME NEW at \in Parents, handler[h].pc = "resolve",
             Begin(h, [handler[h] EXCEPT !.at = at]), UNCHANGED <<tables, history>>
      PROVE  Calmly(h)
  <2> DEFINE q == handler[h]
             r == [q EXCEPT !.at = at]
  <2>1. r = Request("resolve", q.op, q.node, q.to, q.name, q.size, at, q.id, q.gone)
    BY <1>1, <1>4, SteppedRequests
  <2> HIDE DEF r
  <2>2. Shape(r) /\ Relies(r) /\ ~Placed(r) /\ Calm(h, r)
    BY <1>1, <1>4, <2>1 DEF Request, Shape, Relies, Placed, Requests, NewOps, Calm,
        Undisturbed, Holds
  <2>3. Begin(h, r)
    BY <1>4 DEF r
  <2> QED
    BY <1>4, <2>2, <2>3, UnplacedStep
<1>5. CASE \E nm \in Names : ResolveSegment(h, nm)
  BY <1>3, <1>4, <1>5, NoneFacts DEF ResolveSegment, ListFileIDsByName
<1>6. CASE ListEntries(h)
  <2>1. ASSUME NEW n \in Nodes, UNCHANGED <<tables, history>>,
               Begin(h, GetFileByIDAfter([Idle EXCEPT !.op = "get", !.node = n], n))
        PROVE  Calmly(h)
    <3> DEFINE q == [Idle EXCEPT !.op = "get", !.node = n]
               r == GetFileByIDAfter(q, n)
    <3>1. q = Request("idle", "get", n, None, None, 0, None, None, {})
      BY NodeRequest
    <3>2. Begin(h, r)
      BY <2>1
    <3> HIDE DEF q
    <3>3. q \in Requests
      BY <3>1, NoneFacts DEF Request, Requests
    <3>4. r = Request("climb", "get", n, None, None, 0, n, None, {})
      BY <3>1, <3>3, ClimbRequest DEF Request
    <3> HIDE DEF r
    <3>5. Shape(r) /\ Relies(r) /\ ~Placed(r) /\ Calm(h, r)
      BY <3>4, NoneFacts DEF Request, Shape, Relies, Placed, Requests, NewOps, Calm,
        Undisturbed, Holds
    <3> QED
      BY <2>1, <3>2, <3>5, UnplacedStep
  <2>2. ResolvedEntries(h) \subseteq Nodes
    BY DEF ResolvedEntries, ListFileIDsByParentID, Inv, TablesInv
  <2> QED
    BY <1>3, <1>6, <2>1, <2>2 DEF ListEntries
<1>7. CASE isDescendantOrSelf(h)
  <2> DEFINE q == handler[h]
             row == filestree[q.at]
  <2>1. q.pc = "descendant" /\ q.at \in Nodes /\ UNCHANGED <<tables, history>>
    BY <1>1, <1>7 DEF isDescendantOrSelf, Shape
  <2>2. CASE Begin(h, Step(h, "move"))
    <3> DEFINE r == Step(h, "move")
    <3>1. r = Request("move", q.op, q.node, q.to, q.name, q.size, q.at, q.id, q.gone)
      BY <1>1, SteppedRequests DEF Step
    <3> HIDE DEF r
    <3>2. Shape(r) /\ Relies(r) /\ ~Placed(r) /\ Calm(h, r)
      BY <1>1, <2>1, <3>1 DEF Request, Shape, Relies, Placed, Requests, NewOps, Calm,
        Undisturbed, Holds
    <3>3. Begin(h, r)
      BY <2>2 DEF r
    <3> QED
      BY <2>1, <3>2, <3>3, UnplacedStep
  <2>3. CASE row # None /\ row.parent # Root /\ Begin(h, [q EXCEPT !.at = row.parent])
    <3> DEFINE at == row.parent
               r == [q EXCEPT !.at = at]
    <3>1. at \in Nodes
      BY <2>1, <2>3 DEF Inv, TablesInv, Rows, Parents
    <3> HIDE DEF at
    <3>2. r = Request("descendant", q.op, q.node, q.to, q.name, q.size, at, q.id, q.gone)
      BY <1>1, <2>1, SteppedRequests
    <3>3. Begin(h, r)
      BY <2>3 DEF at
    <3> HIDE DEF r
    <3>4. Shape(r) /\ Relies(r) /\ ~Placed(r) /\ Calm(h, r)
      BY <1>1, <2>1, <3>1, <3>2, NoneFacts
      DEF Request, Shape, Relies, Placed, Requests, NewOps, Calm,
        Undisturbed, Holds
    <3> QED
      BY <2>1, <3>3, <3>4, UnplacedStep
  <2> QED
    BY <1>3, <1>7, <2>1, <2>2, <2>3 DEF isDescendantOrSelf
<1>8. CASE MoveFolderRow(h)
  <2>1. /\ handler[h].node \in Nodes /\ handler[h].to \in Parents
        /\ handler[h].to # handler[h].node /\ handler[h].to \in Known
    BY <1>1, <1>8, NoneFacts DEF MoveFolderRow, Shape, Relies
  <2> QED
    BY <1>3, <1>8, <2>1, MoveStep DEF MoveFolderRow
<1>9. CASE ReplaceBlob(h)
  <2> DEFINE q == handler[h]
             r == GetFileByIDAfter(q, q.node)
  <2>1. q.pc = "upload" /\ UNCHANGED <<tables, history>> /\ ~BlobLocked(q.node)
    BY <1>9 DEF ReplaceBlob
  <2>2. CASE blobs[q.node] # 0
    <3>1. r = Request("climb", q.op, q.node, q.to, q.name, q.size, q.node, q.id, q.gone)
      BY <1>1, ClimbRequest
    <3>2. Begin(h, r)
      BY <1>9, <2>2 DEF ReplaceBlob
    <3> HIDE DEF r
    <3>3. Shape(r) /\ Relies(r) /\ ~Placed(r)
      BY <1>1, <2>1, <2>2, <3>1, NoneFacts
      DEF Request, Shape, Relies, Placed, Requests, NewOps
    <3>4. Calm(h, r)
      BY <1>1, <2>1, <3>1 DEF Request, Shape, Calm, Undisturbed, BlobLocked
    <3> QED
      BY <2>1, <3>2, <3>3, <3>4, UnplacedStep
  <2> QED
    BY <1>3, <1>9, <2>1, <2>2 DEF ReplaceBlob
<1>10. CASE HandlerFails(h)
  BY <1>3, <1>10 DEF HandlerFails
<1> QED
  BY <1>2, <1>5, <1>6, <1>7, <1>8, <1>9, <1>10

(* A row of the climb.                                                     *)
LEMMA ClimbStep ==
  ASSUME Inv, NEW h \in Handlers, getFileByID(h)
  PROVE  Inv'
<1> DEFINE q == handler[h]
           row == RowFor(h, q.at)
<1>1. /\ q \in Requests /\ Shape(q) /\ Relies(q)
      /\ q.pc = "climb" /\ UNCHANGED <<tables, history>>
  BY DEF Inv, RequestsInv, getFileByID
<1>5. Undisturbed(h, q)
  BY DEF Inv, DeletersInv
<1>2. CASE Begin(h, Idle)
  BY <1>1, <1>2, IdleShape, UnplacedStep DEF Calmly
<1>3. CASE Begin(h, TopReached(h))
  <2>1. CASE q.op = "get"
    BY <1>2, <1>3, <2>1 DEF TopReached
  <2>2. CASE q.op # "get"
    <3> DEFINE r == [Step(h, "commit") EXCEPT !.at = None]
    <3>1. r = Request("commit", q.op, q.node, q.to, q.name, q.size, None, q.id, q.gone)
      BY <1>1, SteppedRequests DEF Step
    <3>2. Begin(h, r)
      BY <1>3, <2>2 DEF TopReached
    <3> HIDE DEF r
    <3>3. Shape(r) /\ Relies(r)
      BY <1>1, <2>2, <3>1 DEF Request, Shape, Relies, Placed, Requests, NewOps
    <3>4. Placed(r) => HasPlaced(h)
      BY <1>1, <3>1 DEF Request, Placed, HasPlaced
    <3>5. r.node = q.node /\ r.to = q.to /\ r.name = q.name
      BY <3>1 DEF Request
    <3>6. Undisturbed(h, r)
      BY <1>1, <1>5, <3>1 DEF Request, Undisturbed, Holds, Placed
    <3> QED
      BY <1>1, <3>2, <3>3, <3>4, <3>5, <3>6, QuietStep DEF history
  <2> QED
    BY <2>1, <2>2
<1>4. CASE row # None /\ row.parent # Root /\ Begin(h, [q EXCEPT !.at = row.parent])
  <2> DEFINE at == row.parent
             r == [q EXCEPT !.at = at]
  <2>1. at \in Nodes
    BY <1>1, <1>4 DEF RowFor, HasPlaced, Written, Place, Shape, Placed, Inv, TablesInv,
                      Rows, Parents
  <2> HIDE DEF at
  <2>2. r = Request("climb", q.op, q.node, q.to, q.name, q.size, at, q.id, q.gone)
    BY <1>1, SteppedRequests
  <2>3. Begin(h, r)
    BY <1>4 DEF at
  <2> HIDE DEF r
  <2>4. Shape(r) /\ Relies(r)
    BY <1>1, <2>1, <2>2, NoneFacts
    DEF Request, Shape, Relies, Placed, Requests, NewOps
  <2>5. Placed(r) => HasPlaced(h)
    BY <1>1, <2>2 DEF Request, Placed, HasPlaced
  <2>6. r.node = q.node /\ r.to = q.to /\ r.name = q.name
    BY <2>2 DEF Request
  <2>7. Undisturbed(h, r)
    BY <1>1, <1>5, <2>2 DEF Request, Undisturbed, Holds, Placed
  <2> QED
    BY <1>1, <2>3, <2>4, <2>5, <2>6, <2>7, QuietStep DEF history
<1> QED
  BY <1>2, <1>3, <1>4 DEF getFileByID

-----------------------------------------------------------------------------
(* The steps that change tables.                                           *)

(* A request has ended, and the others find in the tables what they rely   *)
(* on.                                                                     *)
LEMMA EndStep ==
  ASSUME Inv, NEW h \in Handlers, Begin(h, Idle), TablesInv',
         \A g \in Handlers \ {h} : Relies(handler[g])',
         \A g \in Handlers \ {h} : HasPlaced(g) =>
           \A m \in Nodes \ {handler[g].node} : filestree'[m] # Written(g)
  PROVE  Inv'
<1>1. /\ handler' \in [Handlers -> Requests]
      /\ handler'[h] = Idle
      /\ \A g \in Handlers \ {h} : handler'[g] = handler[g]
  BY IdleShape DEF Inv, RequestsInv, Begin, Shape
<1>2. Relies(Idle)'
  BY DEF Relies, Idle, NewOps, Placed
<1>3. \A g \in Handlers : Relies(handler[g])'
  BY <1>1, <1>2 DEF Relies
<1>4. \A g \in Handlers : Shape(handler[g])'
  BY <1>1, IdleShape DEF Inv, RequestsInv, Shape
<1>5. RequestsInv'
  BY <1>1, <1>3, <1>4 DEF RequestsInv
<1>6. ASSUME NEW g \in Handlers, HasPlaced(g)'
      PROVE  Alone(g, handler[g].node, handler[g].to, handler[g].name)'
  <2>1. g # h /\ handler'[g] = handler[g] /\ HasPlaced(g)
    BY <1>1, <1>6 DEF HasPlaced, Idle
  <2>2. Alone(g, handler[g].node, handler[g].to, handler[g].name)
    BY <2>1 DEF Inv, LocksInv
  <2>3. \A m \in Nodes \ {handler'[g].node} :
          filestree'[m] # Place(handler'[g].to, handler'[g].name)
    BY <2>1 DEF Written
  <2>4. ASSUME NEW f \in Handlers \ {g}, HasPlaced(f)'
        PROVE  handler'[f].node # handler'[g].node
               /\ Written(f)' # Place(handler'[g].to, handler'[g].name)
    <3>1. f # h /\ handler'[f] = handler[f] /\ HasPlaced(f)
      BY <1>1, <2>4 DEF HasPlaced, Idle
    <3> QED
      BY <2>1, <2>2, <3>1 DEF Alone, Written
  <2> QED
    BY <2>3, <2>4 DEF Alone
<1>7. DeletersInv'
  <2>1. \A q : Holds(q)' <=> Holds(q)
    BY DEF Holds, Placed
  <2>2. Undisturbed(h, handler[h])'
    BY <1>1, <2>1 DEF Undisturbed, HasDeleted, Holds, Placed, Idle
  <2>3. ASSUME NEW g \in Handlers \ {h} PROVE Undisturbed(g, handler[g])'
    <3>1. Undisturbed(g, handler[g])
      BY DEF Inv, DeletersInv
    <3> QED
      BY <1>1, <2>1, <3>1 DEF Undisturbed, HasDeleted, Holds, Placed, Idle
  <2> QED
    BY <2>2, <2>3 DEF DeletersInv
<1> QED
  BY <1>5, <1>6, <1>7 DEF Inv, LocksInv

(* What a commit does to the tables.                                       *)
LEMMA CommitFacts ==
  ASSUME Inv, NEW h \in Handlers, Commit(h)
  PROVE  LET n == handler[h].node IN
         /\ n \in Nodes
         /\ filestree' = [filestree EXCEPT ![n] = RowFor(h, n)]
         /\ HasPlaced(h) => RowFor(h, n) = Written(h) /\ Written(h) \in Rows
         /\ ~HasPlaced(h) => RowFor(h, n) = filestree[n] /\ ~Creates(h)
         /\ Creates(h) => HasPlaced(h) /\ n \notin files \cup deleted
         /\ HasPlaced(h) /\ ~Creates(h) => filestree[n] # None
         /\ files' = IF Creates(h) THEN files \cup {n} ELSE files
         /\ Uploads(h) => /\ n \in Files /\ handler[h].size \in 1 .. MaxUploadSize
                          /\ meta' = [meta EXCEPT ![n] = handler[h].size]
                          /\ blobs' = [blobs EXCEPT ![n] = handler[h].size]
         /\ ~Uploads(h) => UNCHANGED <<meta, blobs>>
         /\ Uploads(h) /\ ~Creates(h) => blobs[n] # 0
         /\ Creates(h) /\ ~Uploads(h) => n \in Folders
         /\ entry' \in [Entries -> Nodes \cup {None}]
         /\ deleted' = deleted
         /\ Begin(h, Idle)
<1> DEFINE q == handler[h]
           n == q.node
<1>1. /\ q \in Requests /\ Shape(q) /\ Relies(q) /\ q.pc = "commit"
      /\ n \in Nodes
  BY DEF Inv, RequestsInv, Commit, Shape
<1>2. HasPlaced(h) <=> Placed(q)
  BY DEF HasPlaced, Placed
<1>3. HasPlaced(h) => RowFor(h, n) = Written(h) /\ Written(h) \in Rows
  BY <1>1, <1>2 DEF RowFor, Written, Place, Rows, Shape
<1>4. Creates(h) => HasPlaced(h) /\ n \notin files \cup deleted
  BY <1>1, <1>2, NoneFacts DEF Creates, Shape, Relies, Placed, NewOps
<1>5. HasPlaced(h) /\ ~Creates(h) => filestree[n] # None
  BY <1>1, <1>2 DEF Creates, Shape, Relies, NewOps
<1>6. Uploads(h) => n \in Files /\ q.size \in 1 .. MaxUploadSize
  BY <1>1 DEF Uploads, Shape
<1>7. Uploads(h) /\ ~Creates(h) => blobs[n] # 0
  BY <1>1 DEF Uploads, Creates, Relies
<1>8. Creates(h) /\ ~Uploads(h) => n \in Folders
  BY <1>1 DEF Uploads, Creates, Shape
<1>9. entry' \in [Entries -> Nodes \cup {None}]
  BY <1>1 DEF Commit, CreateAccessEntry, Inv, TablesInv
<1>10. ~HasPlaced(h) => RowFor(h, n) = filestree[n]
  BY DEF RowFor
<1> QED
  BY <1>1, <1>3, <1>4, <1>5, <1>6, <1>7, <1>8, <1>9, <1>10
  DEF Commit, CreateFileRow, UpdateFileRow, CreateBlob

LEMMA CommitStep ==
  ASSUME Inv, NEW h \in Handlers, Commit(h)
  PROVE  Inv'
<1> DEFINE n == handler[h].node
<1> USE CommitFacts
<1>1. HasPlaced(h) => Alone(h, n, handler[h].to, handler[h].name)
  BY DEF Inv, LocksInv
<1>2. \A m \in Nodes \ {n} : filestree'[m] = filestree[m]
  BY DEF Inv, TablesInv
<1>3. filestree'[n] = IF HasPlaced(h) THEN Written(h) ELSE filestree[n]
  BY DEF Inv, TablesInv
<1>4. TablesInv'
  <2>1. filestree' \in [Nodes -> Rows \cup {None}] /\ files' \subseteq Nodes
    BY DEF Inv, TablesInv
  <2>2. meta' \in [Nodes -> Sizes] /\ blobs' \in [Nodes -> Sizes]
    BY NoneFacts DEF Inv, TablesInv
  <2>3. RowsAgree'
    <3>1. ASSUME NEW m \in Nodes, m # n
          PROVE  /\ m \in files' <=> filestree'[m] # None
                 /\ m \in files' \cap Files <=> blobs'[m] # 0
                 /\ meta'[m] = blobs'[m]
      BY <1>2, <3>1 DEF Inv, TablesInv, RowsAgree
    <3>2. n \in files' <=> filestree'[n] # None
      BY <1>3, NoneFacts DEF Inv, TablesInv, RowsAgree
    <3>3. n \in files' \cap Files <=> blobs'[n] # 0
      BY NoneFacts DEF Inv, TablesInv, RowsAgree
    <3>4. meta'[n] = blobs'[n]
      BY DEF Inv, TablesInv, RowsAgree
    <3> QED
      BY <3>1, <3>2, <3>3, <3>4 DEF RowsAgree
  <2>4. DistinctPlaces'
    <3>1. HasPlaced(h) => \A m \in Nodes \ {n} : filestree[m] # Written(h)
      BY <1>1 DEF Alone, Written
    <3> QED
      BY <1>2, <1>3, <3>1 DEF Inv, TablesInv, DistinctPlaces
  <2>5. Known \subseteq Known'
    BY DEF Known
  <2>6. ParentsKnown'
    <3>1. HasPlaced(h) => Written(h).parent \in Known
      <4>1. HasPlaced(h) => handler[h].to \in Known
        BY DEF HasPlaced, Inv, RequestsInv, Relies
      <4> QED
        BY <4>1 DEF Written, Place
    <3> QED
      BY <1>2, <1>3, <2>5, <3>1 DEF ParentsKnown, Inv, TablesInv
  <2> QED
    BY <2>1, <2>2, <2>3, <2>4, <2>6 DEF Inv, TablesInv
<1>5. ASSUME NEW g \in Handlers \ {h} PROVE Relies(handler[g])'
  <2>1. g # h /\ Relies(handler[g]) /\ Shape(handler[g])
    BY DEF Inv, RequestsInv
  <2>2. handler'[g] = handler[g]
    BY DEF Begin, Inv, RequestsInv
  <2> DEFINE r == handler[g]
  <2>3. Placed(r) => HasPlaced(g)
    BY DEF Placed, HasPlaced
  <2>4. HasPlaced(h) /\ Placed(r) => r.node # n
    BY <1>1, <2>3 DEF Alone
  <2>5. Placed(r) => filestree'[r.node] = filestree[r.node]
    BY <1>3, <2>1, <2>4 DEF Shape, Placed, Inv, TablesInv
  <2>6. r.op \in NewOps => Placed(r) /\ r.node \notin files' \cup deleted'
    BY <2>1, <2>4, NoneFacts DEF Shape, Relies, Placed
  <2>7. r.op = "update" /\ r.pc # "upload" => blobs'[r.node] # 0
    BY <2>1, NoneFacts DEF Shape, Relies, Inv, TablesInv
  <2>8. r.to \in Known' \cup {None}
    BY <2>1 DEF Relies, Known
  <2>9. r.pc = "deleted" => r.node \in files'
    BY <2>1 DEF Relies
  <2> QED
    BY <2>1, <2>2, <2>5, <2>6, <2>7, <2>8, <2>9 DEF Relies, Placed
<1>6. ASSUME NEW g \in Handlers \ {h}, HasPlaced(g), NEW m \in Nodes \ {handler[g].node}
      PROVE  filestree'[m] # Written(g)
  <2>1. Alone(g, handler[g].node, handler[g].to, handler[g].name)
    BY <1>6 DEF Inv, LocksInv
  <2> QED
    BY <1>2, <1>3, <1>6, <2>1 DEF Alone, Written
<1> QED
  BY <1>4, <1>5, <1>6, EndStep

(* The rows are locked, and the deletion is seen by nobody yet.            *)
LEMMA DeleteRowsStep ==
  ASSUME Inv, NEW h \in Handlers, DeleteRows(h)
  PROVE  Inv' /\ UNCHANGED <<tables, history, stray>> /\ Begin(h, handler'[h])
         /\ \/ handler'[h] = Idle
            \/ /\ handler'[h].pc = "deleted"
               /\ handler'[h].op = handler[h].op
               /\ handler'[h].node = handler[h].node
               /\ handler'[h].gone = EntriesOf(handler[h].node)
<1> DEFINE q == handler[h]
           n == q.node
           G == EntriesOf(n)
           a == [q EXCEPT !.pc = "deleted"]
           r == [a EXCEPT !.gone = G]
<1>1. /\ q \in Requests /\ Shape(q) /\ Relies(q) /\ q.pc = "delete"
      /\ UNCHANGED <<tables, history, stray>>
      /\ ~TreeRowLocked(n) /\ ~BlobLocked(n)
  BY DEF Inv, RequestsInv, DeleteRows
<1>2. CASE Begin(h, Idle)
  <2>1. handler'[h] = Idle
    BY <1>2 DEF Begin, Inv, RequestsInv
  <2> QED
    BY <1>1, <1>2, <2>1, IdleShape, UnplacedStep DEF Calmly
<1>3. CASE n \in files /\ Begin(h, r)
  <2>1. a = Request("deleted", q.op, q.node, q.to, q.name, q.size, q.at, q.id, q.gone)
    BY <1>1, SteppedRequests
  <2>2. G \subseteq Entries
    BY DEF EntriesOf
  <2> HIDE DEF a, G
  <2>3. r = Request("deleted", q.op, q.node, q.to, q.name, q.size, q.at, q.id, G)
    BY <2>1 DEF Request
  <2>4. Begin(h, r)
    BY <1>3
  <2> HIDE DEF r
  <2>5. Shape(r) /\ Relies(r) /\ ~Placed(r)
    BY <1>1, <1>3, <2>2, <2>3, NoneFacts
    DEF Request, Shape, Relies, Placed, Requests, NewOps
  <2>6. Undisturbed(h, r)
    BY <1>1, <2>3
    DEF Request, Undisturbed, Holds, Placed, TreeRowLocked, BlobLocked, HasPlaced, HasUploaded
  <2>7. handler'[h] = r
    BY <2>4 DEF Begin, Inv, RequestsInv
  <2>8. Inv'
    BY <1>1, <2>4, <2>5, <2>6, QuietStep DEF history
  <2>9. r.pc = "deleted" /\ r.op = q.op /\ r.node = n /\ r.gone = G
    BY <2>3 DEF Request
  <2> QED
    BY <1>1, <2>4, <2>7, <2>8, <2>9 DEF G
<1>4. Deletable(h, n) => n \in files
  BY DEF Deletable
<1>5. Begin(h, IF Deletable(h, n)
                THEN [q EXCEPT !.pc = "deleted", !.gone = DeleteAccessEntriesByResource(n)]
                ELSE Idle)
  BY DEF DeleteRows
<1>6. [q EXCEPT !.pc = "deleted", !.gone = DeleteAccessEntriesByResource(n)] = r
  BY Zenon DEF DeleteAccessEntriesByResource
<1> HIDE DEF r
<1> QED
  BY <1>2, <1>3, <1>4, <1>5, <1>6

(* What the commit of a deletion does to the tables.                       *)
LEMMA DeletionFacts ==
  ASSUME Inv, NEW h \in Handlers, CommitDeletion(h)
  PROVE  LET n == handler[h].node IN
         /\ Shape(handler[h]) /\ handler[h].pc = "deleted" /\ Begin(h, Idle)
         /\ n \in files /\ n \in Nodes /\ filestree[n] # None
         /\ filestree' = [filestree EXCEPT ![n] = None]
         /\ files' = files \ {n}
         /\ meta' = [meta EXCEPT ![n] = 0]
         /\ blobs' = [blobs EXCEPT ![n] = 0]
         /\ entry' \in [Entries -> Nodes \cup {None}]
         /\ deleted' = deleted \cup {n}
         /\ \A g \in Handlers \ {h} :
              HasPlaced(g) \/ HasUploaded(g) \/ HasDeleted(g) => handler[g].node # n
<1> DEFINE n == handler[h].node
<1>1. Shape(handler[h]) /\ Relies(handler[h]) /\ handler[h].pc = "deleted" /\ Begin(h, Idle)
  BY DEF CommitDeletion, HasDeleted, Inv, RequestsInv
<1>2. n \in files /\ n \in Nodes /\ filestree[n] # None
  BY <1>1 DEF Relies, Inv, TablesInv, RowsAgree
<1>3. entry' \in [Entries -> Nodes \cup {None}]
  BY DEF CommitDeletion, Inv, TablesInv
<1>4. \A g \in Handlers \ {h} :
        HasPlaced(g) \/ HasUploaded(g) \/ HasDeleted(g) => handler[g].node # n
  <2>1. Undisturbed(h, handler[h])
    BY DEF Inv, DeletersInv
  <2> QED
    BY <1>1, <2>1 DEF Undisturbed, Holds, Placed, HasPlaced, HasUploaded
<1> QED
  BY <1>1, <1>2, <1>3, <1>4
  DEF CommitDeletion, DeleteFileNameID, DeleteFileRow, DeleteBlob

LEMMA CommitDeletionStep ==
  ASSUME Inv, NEW h \in Handlers, CommitDeletion(h)
  PROVE  Inv'
<1> DEFINE n == handler[h].node
<1> USE DeletionFacts
<1>2. TablesInv'
  <2>1. /\ filestree' \in [Nodes -> Rows \cup {None}] /\ files' \subseteq Nodes
        /\ meta' \in [Nodes -> Sizes] /\ blobs' \in [Nodes -> Sizes]
        /\ deleted' \subseteq Nodes
    BY NoneFacts DEF Inv, TablesInv
  <2>2. RowsAgree'
    BY DEF Inv, TablesInv, RowsAgree
  <2>3. DistinctPlaces'
    BY NoneFacts DEF Inv, TablesInv, DistinctPlaces
  <2>4. ParentsKnown'
    BY NoneFacts DEF Inv, TablesInv, ParentsKnown, Known
  <2> QED
    BY <2>1, <2>2, <2>3, <2>4 DEF TablesInv
<1>3. ASSUME NEW g \in Handlers \ {h} PROVE Relies(handler[g])'
  <2> DEFINE r == handler[g]
  <2>1. Relies(r) /\ Shape(r) /\ handler'[g] = r
    BY DEF Inv, RequestsInv, Begin
  <2>2. Placed(r) => r.node # n /\ r.node \in Nodes
    BY <2>1 DEF Placed, HasPlaced, Shape
  <2>3. r.op = "update" /\ r.pc # "upload" => r.node # n /\ r.node \in Nodes
    BY <2>1, NoneFacts DEF HasUploaded, Shape
  <2>4. r.op \in NewOps => r.node # n
    BY <2>1 DEF Relies
  <2>5. r.to \in Known' \cup {None}
    BY <2>1 DEF Relies, Known
  <2>6. r.pc = "deleted" => r.node \in files'
    BY <2>1 DEF Relies, HasDeleted
  <2> QED
    BY <2>1, <2>2, <2>3, <2>4, <2>5, <2>6 DEF Relies, Inv, TablesInv, Placed
<1>4. ASSUME NEW g \in Handlers \ {h}, HasPlaced(g),
             NEW m \in Nodes \ {handler[g].node}
      PROVE  filestree'[m] # Written(g)
  <2>1. Alone(g, handler[g].node, handler[g].to, handler[g].name)
    BY <1>4 DEF Inv, LocksInv
  <2>2. Written(g) \in Rows
    BY <1>4 DEF Inv, RequestsInv, Shape, Placed, HasPlaced, Written, Place, Rows
  <2> QED
    BY <1>4, <2>1, <2>2, NoneFacts DEF Alone, Written, Inv, TablesInv
<1> QED
  BY <1>2, <1>3, <1>4, EndStep

LEMMA WriteEntryStep ==
  ASSUME Inv, NEW h \in Handlers, WriteEntry(h)
  PROVE  Inv'
<1>1. /\ Begin(h, Idle) /\ UNCHANGED <<filestree, files, meta, blobs, history>>
      /\ entry' \in [Entries -> Nodes \cup {None}]
  <2>1. handler[h].node \in Nodes /\ handler[h].id \in Entries
    BY DEF WriteEntry, Inv, RequestsInv, Shape
  <2> QED
    BY <2>1 DEF WriteEntry, Inv, TablesInv
<1>2. TablesInv'
  BY <1>1 DEF Inv, TablesInv, RowsAgree, DistinctPlaces, ParentsKnown, Known, history
<1>3. \A g \in Handlers \ {h} : Relies(handler[g])'
  BY <1>1 DEF Inv, RequestsInv, Relies, Known, history, Begin
<1>4. \A g \in Handlers \ {h} : HasPlaced(g) =>
        \A m \in Nodes \ {handler[g].node} : filestree'[m] # Written(g)
  BY <1>1 DEF Inv, LocksInv, Alone, Written
<1> QED
  BY <1>1, <1>2, <1>3, <1>4, EndStep

LEMMA SameHandlers ==
  ASSUME Inv, UNCHANGED <<filestree, files, meta, blobs, handler, deleted>>,
         entry' \in [Entries -> Nodes \cup {None}]
  PROVE  Inv'
<1>1. TablesInv'
  BY DEF Inv, TablesInv, RowsAgree, DistinctPlaces, ParentsKnown, Known
<1>2. RequestsInv'
  BY DEF Inv, RequestsInv, Shape, Relies, Known
<1>3. LocksInv'
  BY DEF Inv, LocksInv, Alone, HasPlaced, Written
<1>4. DeletersInv'
  BY DEF Inv, DeletersInv, Undisturbed, HasDeleted, Holds, Placed
<1> QED
  BY <1>1, <1>2, <1>3, <1>4 DEF Inv

LEMMA InvInit == Init => Inv
<1> SUFFICES ASSUME Init PROVE Inv
  OBVIOUS
<1>1. TablesInv
  BY NoneFacts DEF Init, TablesInv, RowsAgree, DistinctPlaces, ParentsKnown
<1>2. RequestsInv
  BY IdleShape DEF Init, RequestsInv, Shape
<1>3. LocksInv
  BY DEF Init, LocksInv, HasPlaced, Idle
<1>4. DeletersInv
  BY DEF Init, DeletersInv, Undisturbed, HasDeleted, Holds, Placed, Idle
<1> QED
  BY <1>1, <1>2, <1>3, <1>4 DEF Inv

(* The steps, by what they do to the tables.                               *)
LEMMA StepKinds ==
  ASSUME Inv, [Next]_vars
  PROVE  \/ /\ UNCHANGED <<filestree, files, meta, blobs, handler, history>>
            /\ UNCHANGED <<entry, stray>> \/ \E e \in Entries : DeleteEntry(e)
         \/ \E h \in Handlers : /\ Calmly(h) /\ UNCHANGED <<tables, history>>
                                /\ stray' \in {stray, StillStray(stray)}
                                /\ \E r : Begin(h, r)
         \/ \E h \in Handlers : \/ getFileByID(h) \/ Commit(h) \/ DeleteRows(h)
                                \/ CommitDeletion(h) \/ WriteEntry(h)
<1>1. ASSUME NEW h \in Handlers,
             \/ Starts(h) \/ GetFilesByPath(h)
             \/ isDescendantOrSelf(h) \/ MoveFolderRow(h) \/ ReplaceBlob(h)
             \/ \E nm \in Names : ResolveSegment(h, nm)
             \/ ListEntries(h) \/ HandlerFails(h)
      PROVE  /\ Calmly(h) /\ UNCHANGED <<tables, history>>
             /\ stray' \in {stray, StillStray(stray)}
             /\ \E r : Begin(h, r)
  <2>1. Calmly(h)
    BY <1>1, StartsStep, ReadsStep
  <2> DEFINE Quiet == /\ UNCHANGED <<tables, history>>
                      /\ stray' \in {stray, StillStray(stray)}
                      /\ \E r : Begin(h, r)
  <2>2. ASSUME NEW n \in Nodes, NEW p \in Parents, NEW nm \in NamesGiven,
               NEW s \in Sizes, NEW e \in Entries, create(h, n, p, nm, s, e)
        PROVE  Quiet
    BY <2>2 DEF create, CreateFile, Insert, CreateFileNameID
  <2>3. ASSUME NEW n \in Nodes, NEW p \in Parents, NEW nm \in NamesGiven,
               createFolder(h, n, p, nm)
        PROVE  Quiet
    BY <2>3 DEF createFolder, CreateFolder, Insert, CreateFileNameID
  <2>4. ASSUME NEW n \in Nodes, NEW nm \in NamesGiven,
               renameFile(h, n, nm) \/ renameFolder(h, n, nm)
        PROVE  Quiet
    BY <2>4 DEF renameFile, renameFolder, RenameFile, RenameFolder, Rename, UpdateRow
  <2>5. ASSUME NEW n \in Nodes, NEW p \in Parents, UpdateFileParentID(h, n, p)
        PROVE  Quiet
    BY <2>5 DEF UpdateFileParentID, UpdateRow
  <2>6. ASSUME NEW n \in Nodes, NEW p \in Parents,
               moveFile(h, n, p) \/ moveFolder(h, n, p)
        PROVE  Quiet
    BY <2>5, <2>6 DEF moveFile, moveFolder, MoveFile, MoveFolder
  <2>7. ASSUME NEW n \in Nodes,
               \/ \E s \in Sizes : update(h, n, s)
               \/ deleteFile(h, n) \/ deleteFolder(h, n) \/ download(h, n)
               \/ \E e \in Entries : CreateEntry(h, e, n) \/ UpdateEntry(h, e, n)
        PROVE  Quiet
    BY <2>7 DEF update, UpdateFile, deleteFile, DeleteFile, deleteFolder, DeleteFolder,
                download, GetFileByID, CreateEntry, UpdateEntry
  <2>8. GetFilesByPath(h) => Quiet
    BY DEF GetFilesByPath
  <2>9. isDescendantOrSelf(h) => Quiet
    BY DEF isDescendantOrSelf
  <2>10. ReplaceBlob(h) => Quiet
    BY DEF ReplaceBlob
  <2>11. HandlerFails(h) => Quiet
    BY DEF HandlerFails
  <2>12. ASSUME NEW nm \in Names, ResolveSegment(h, nm) PROVE Quiet
    <3>1. (\E r : Begin(h, r)) /\ UNCHANGED <<tables, history, stray>>
      BY <2>12, Zenon DEF ResolveSegment
    <3> QED
      BY <3>1
  <2>13. ListEntries(h) => Quiet
    <3>1. SUFFICES ASSUME ListEntries(h) PROVE Quiet
      OBVIOUS
    <3>2. (\E r : Begin(h, r)) /\ UNCHANGED <<tables, history, stray>>
      BY <3>1, Zenon DEF ListEntries
    <3> QED
      BY <3>2
  <2>14. ASSUME NEW n, NEW p, UpdateFileParentID(h, n, p) PROVE Quiet
    BY <2>14 DEF UpdateFileParentID, UpdateRow
  <2>15. MoveFolderRow(h) => Quiet
    BY <2>14 DEF MoveFolderRow
  <2>16. Starts(h) => Quiet
    BY <2>2, <2>3, <2>4, <2>6, <2>7 DEF Starts
  <2> QED
    BY <1>1, <2>1, <2>8, <2>9, <2>10, <2>11, <2>12, <2>13, <2>15, <2>16
<1>2. CASE \E e \in Entries : DeleteEntry(e)
  BY <1>2 DEF DeleteEntry
<1>3. CASE UNCHANGED vars
  BY <1>3 DEF vars, tables
<1> QED
  BY <1>1, <1>2, <1>3 DEF Next, Proceeds

LEMMA InvStep ==
  ASSUME Inv, [Next]_vars
  PROVE  Inv'
<1>1. CASE \E h \in Handlers : Calmly(h)
  BY <1>1 DEF Calmly
<1>2. CASE /\ UNCHANGED <<filestree, files, meta, blobs, handler, history>>
           /\ UNCHANGED <<entry, stray>> \/ \E e \in Entries : DeleteEntry(e)
  <2>1. entry' \in [Entries -> Nodes \cup {None}]
    BY <1>2 DEF DeleteEntry, Inv, TablesInv
  <2> QED
    BY <1>2, <2>1, SameHandlers DEF history
<1> QED
  BY <1>1, <1>2, StepKinds, ClimbStep, CommitStep, DeleteRowsStep,
     CommitDeletionStep, WriteEntryStep

LEMMA InvCorrect == Spec => []Inv
BY InvInit, InvStep, PTL DEF Spec

(* What a step of one request leaves as it was.                            *)
LEMMA OthersStay ==
  ASSUME Inv, NEW h \in Handlers, NEW r, Begin(h, r)
  PROVE  /\ handler'[h] = r
         /\ \A g \in Handlers \ {h} : /\ handler'[g] = handler[g]
                                      /\ Arrives(g)' <=> Arrives(g)
         /\ \A p : DeletersOf(p)' # {} =>
              DeletersOf(p) # {} \/ (r.op = "deleteFolder" /\ r.node = p)
<1>1. handler'[h] = r /\ \A g \in Handlers \ {h} : handler'[g] = handler[g]
  BY DEF Begin, Inv, RequestsInv
<1>2. ASSUME NEW g \in Handlers \ {h} PROVE Arrives(g)' <=> Arrives(g)
  BY <1>1 DEF Arrives, HasPlaced
<1>3. ASSUME NEW p, DeletersOf(p)' # {}
      PROVE  DeletersOf(p) # {} \/ (r.op = "deleteFolder" /\ r.node = p)
  <2>1. PICK g \in Handlers : handler'[g].op = "deleteFolder" /\ handler'[g].node = p
    BY <1>3 DEF DeletersOf
  <2>2. CASE g = h
    BY <1>1, <2>1, <2>2
  <2>3. CASE g # h
    <3>1. handler[g].op = "deleteFolder" /\ handler[g].node = p
      BY <1>1, <2>1, <2>3
    <3> QED
      BY <3>1 DEF DeletersOf
  <2> QED
    BY <2>2, <2>3
<1> QED
  BY <1>1, <1>2, <1>3

(* What a row of the climb leads to: an error, the end, or the next row.   *)
LEMMA ClimbOutcome ==
  ASSUME Inv, NEW h \in Handlers, getFileByID(h)
  PROVE  LET q == handler[h]
             row == RowFor(h, q.at)
             r == handler'[h]
         IN /\ q.pc = "climb" /\ UNCHANGED <<tables, history>> /\ Begin(h, r)
            /\ \/ r = Idle
               \/ /\ r.op = q.op /\ r.node = q.node /\ r.to = q.to /\ r.name = q.name
                  /\ row # None
                  /\ \/ row.parent = Root /\ r.pc = "commit"
                     \/ row.parent # Root /\ r.pc = "climb" /\ r.at = row.parent
<1> DEFINE q == handler[h]
           row == RowFor(h, q.at)
           r == IF ~FileRowThere(h) \/ row = None THEN Idle
                ELSE IF row.parent = Root THEN TopReached(h)
                ELSE [q EXCEPT !.at = row.parent]
<1>1. /\ q \in Requests /\ Shape(q) /\ q.pc = "climb" /\ UNCHANGED <<tables, history>>
      /\ Begin(h, r)
  BY DEF Inv, RequestsInv, getFileByID
<1> DEFINE top == [Step(h, "commit") EXCEPT !.at = None]
           up == [q EXCEPT !.at = row.parent]
<1>2. top = Request("commit", q.op, q.node, q.to, q.name, q.size, None, q.id, q.gone)
  BY <1>1, SteppedRequests DEF Step
<1>3. up = Request(q.pc, q.op, q.node, q.to, q.name, q.size, row.parent, q.id, q.gone)
  BY <1>1, SteppedRequests
<1>4. r \in {Idle, top, up}
  BY DEF TopReached
<1>5. r = top => row # None /\ row.parent = Root
  <2>1. Idle.pc # "commit" /\ top.pc = "commit" /\ up.pc = "climb"
    BY <1>1, <1>2, <1>3 DEF Idle, Request
  <2> QED
    BY <2>1
<1>6. r = up => row # None /\ row.parent # Root
  <2>1. Idle.pc = "idle" /\ top.pc = "commit" /\ up.pc = "climb"
    BY <1>1, <1>2, <1>3 DEF Idle, Request
  <2> QED
    BY <2>1 DEF TopReached
<1>7. \/ r = Idle
      \/ /\ r.op = q.op /\ r.node = q.node /\ r.to = q.to /\ r.name = q.name
         /\ row # None
         /\ \/ row.parent = Root /\ r.pc = "commit"
            \/ row.parent # Root /\ r.pc = "climb" /\ r.at = row.parent
  BY <1>1, <1>2, <1>3, <1>4, <1>5, <1>6 DEF Request
<1> HIDE DEF r, top, up
<1>8. handler'[h] = r
  BY <1>1, OthersStay
<1> QED
  BY <1>1, <1>7, <1>8

-----------------------------------------------------------------------------
(* Theorems.                                                               *)

(* The rows of files, filestree and blobs that belong together come and go *)
(* together, and the metadata is that of the blob, under any overlap of    *)
(* uploads, moves and deletions.                                           *)
THEOREM RowsAgreeCorrect == Spec => []RowsAgree
<1>1. Inv => RowsAgree
  BY DEF Inv, TablesInv
<1> QED
  BY <1>1, InvCorrect, PTL

(* The histories name nodes and entries.                                   *)
HistoryTyped ==
  crossed \subseteq Nodes /\ raced \subseteq Nodes \X Nodes /\ stray \subseteq Entries

LEMMA HistoryStep ==
  ASSUME Inv, HistoryTyped, [Next]_vars
  PROVE  HistoryTyped'
<1>1. ASSUME UNCHANGED history, stray' \subseteq Entries PROVE HistoryTyped'
  BY <1>1 DEF history, HistoryTyped
<1>2. ASSUME NEW h \in Handlers, HasPlaced(h) PROVE handler[h].node \in Nodes
  BY <1>2 DEF Inv, RequestsInv, HasPlaced, Shape
<1>3. ASSUME NEW h \in Handlers, Commit(h) PROVE HistoryTyped'
  <2>1. CrossedBy(h) \subseteq Nodes
    BY <1>2 DEF CrossedBy, OpenMoves
  <2>2. RacedBy(h) \subseteq Nodes \X Nodes
    <3>1. \A g \in DeletersOf(handler[h].to) : handler[h].to \in Nodes
      BY NoneFacts DEF DeletersOf, Inv, RequestsInv, Shape
    <3> QED
      BY <1>2, <3>1 DEF RacedBy, Arrives
  <2> QED
    BY <1>3, <2>1, <2>2 DEF Commit, HistoryTyped
<1>4. StillStray(stray) \subseteq Entries
  BY DEF StillStray, HistoryTyped
<1>5. ASSUME NEW h \in Handlers, CommitDeletion(h) PROVE HistoryTyped'
  <2>1. handler[h].node \in Nodes
    BY <1>5, DeletionFacts
  <2> QED
    BY <1>2, <1>4, <1>5, <2>1 DEF CommitDeletion, HistoryTyped, Arrives
<1>6. ASSUME NEW h \in Handlers, WriteEntry(h) PROVE HistoryTyped'
  <2>1. handler[h].id \in Entries
    BY <1>6 DEF WriteEntry, Inv, RequestsInv, Shape
  <2>2. StillStray(stray \cup {handler[h].id}) \subseteq Entries
    BY <2>1 DEF StillStray, HistoryTyped
  <2> QED
    BY <1>1, <1>6, <2>2 DEF WriteEntry, HistoryTyped
<1>7. ASSUME NEW h \in Handlers, DeleteRows(h) PROVE HistoryTyped'
  BY <1>1, <1>7, DeleteRowsStep DEF HistoryTyped
<1>8. ASSUME NEW h \in Handlers, getFileByID(h) PROVE HistoryTyped'
  BY <1>1, <1>8 DEF getFileByID, HistoryTyped
<1>9. ASSUME NEW e \in Entries, DeleteEntry(e) PROVE HistoryTyped'
  BY <1>1, <1>9 DEF DeleteEntry, HistoryTyped
<1>10. ASSUME UNCHANGED history, stray' \in {stray, StillStray(stray)} PROVE HistoryTyped'
  BY <1>1, <1>4, <1>10 DEF HistoryTyped
<1> QED
  BY <1>3, <1>5, <1>6, <1>7, <1>8, <1>9, <1>10, StepKinds

(* Every variable stays in its type.                                       *)
THEOREM TypeCorrect == Spec => []TypeOK
<1>1. Init => HistoryTyped
  BY DEF Init, HistoryTyped
<1>2. Inv /\ HistoryTyped => TypeOK
  BY DEF Inv, TablesInv, RequestsInv, HistoryTyped, TypeOK, Rows
<1> QED
  BY <1>1, <1>2, InvCorrect, HistoryStep, PTL DEF Spec

(* A deletion that has had its statements has deleted the entries of its   *)
(* node, or they were written since.                                       *)
EntriesFound(h) ==
  HasDeleted(h) => \A e \in Entries :
    entry[e] = handler[h].node => e \in handler[h].gone \cup stray

EntriesInv ==
  /\ EntriesExplained
  /\ \A h \in Handlers : EntriesFound(h)

(* No entry changes, nor do the files and the deletions under way but h's. *)
LEMMA EntriesQuiet ==
  ASSUME Inv, EntriesInv, NEW h \in Handlers, NEW r, Begin(h, r),
         UNCHANGED <<files, entry>>,
         stray' \in {stray, StillStray(stray)},
         EntriesFound(h)'
  PROVE  EntriesInv'
<1>1. \A g \in Handlers \ {h} : handler'[g] = handler[g]
  BY DEF Begin, Inv, RequestsInv
<1>2. ASSUME NEW e \in stray, entry'[e] # None,
             \/ entry'[e] \notin files'
             \/ \E g \in Handlers : HasDeleted(g)' /\ handler'[g].node = entry'[e]
      PROVE  e \in stray'
  BY <1>2, Zenon DEF StillStray
<1>3. EntriesExplained'
  BY <1>2 DEF EntriesInv, EntriesExplained
<1>4. ASSUME NEW g \in Handlers \ {h} PROVE EntriesFound(g)'
  <2>1. HasDeleted(g)' <=> HasDeleted(g)
    BY <1>1 DEF HasDeleted
  <2>2. SUFFICES ASSUME HasDeleted(g), NEW e \in Entries, entry[e] = handler[g].node
                 PROVE  e \in handler[g].gone \cup stray'
    BY <1>1, <2>1 DEF EntriesFound
  <2>3. e \in handler[g].gone \cup stray
    BY <2>2 DEF EntriesInv, EntriesFound
  <2>4. entry[e] # None
    BY <2>2, NoneFacts DEF HasDeleted, Inv, RequestsInv, Relies, TablesInv
  <2>5. HasDeleted(g)' /\ handler'[g].node = entry'[e]
    BY <1>1, <2>1, <2>2
  <2> QED
    BY <1>2, <2>3, <2>4, <2>5
<1> QED
  BY <1>3, <1>4 DEF EntriesInv

(* A file that is created is not one that is being deleted.                *)
LEMMA EntriesCommit ==
  ASSUME Inv, EntriesInv, NEW h \in Handlers, Commit(h)
  PROVE  EntriesInv'
<1> DEFINE n == handler[h].node
<1>1. /\ handler'[h] = Idle /\ \A g \in Handlers \ {h} : handler'[g] = handler[g]
      /\ files \subseteq files' /\ stray' = stray
  BY CommitFacts DEF Begin, Inv, RequestsInv, Commit
<1>2. ASSUME NEW e \in Entries
      PROVE  entry'[e] = entry[e] \/ (entry'[e] = n /\ n \in files' \ files)
  <2>1. CASE handler[h].op = "createFile"
    <3>1. n \in files' \ files
      BY <2>1, CommitFacts DEF Creates
    <3>2. entry' = [entry EXCEPT ![handler[h].id] = n]
      BY <2>1 DEF Commit, CreateAccessEntry
    <3> QED
      BY <3>1, <3>2 DEF Inv, TablesInv
  <2>2. CASE handler[h].op # "createFile"
    BY <2>2 DEF Commit, CreateAccessEntry
  <2> QED
    BY <2>1, <2>2
<1>3. EntriesExplained'
  BY <1>1, <1>2 DEF EntriesInv, EntriesExplained
<1>4. ASSUME NEW g \in Handlers PROVE EntriesFound(g)'
  <2>1. SUFFICES ASSUME HasDeleted(g)', NEW e \in Entries, entry'[e] = handler'[g].node
                 PROVE  e \in handler'[g].gone \cup stray
    BY <1>1 DEF EntriesFound
  <2>2. g # h /\ handler'[g] = handler[g] /\ HasDeleted(g)
    BY <1>1, <2>1 DEF HasDeleted, Idle
  <2>3. handler[g].node \in files
    BY <2>2 DEF HasDeleted, Inv, RequestsInv, Relies
  <2>4. entry[e] = handler[g].node
    BY <1>2, <2>1, <2>2, <2>3
  <2> QED
    BY <2>2, <2>4 DEF EntriesInv, EntriesFound
<1> QED
  BY <1>3, <1>4 DEF EntriesInv

(* What is left of the entries of the node was written after the statement *)
(* that deleted the others.                                                *)
LEMMA EntriesDeletion ==
  ASSUME Inv, EntriesInv, NEW h \in Handlers, CommitDeletion(h)
  PROVE  EntriesInv'
<1> DEFINE n == handler[h].node
<1>1. /\ handler'[h] = Idle /\ \A g \in Handlers \ {h} : handler'[g] = handler[g]
      /\ files' = files \ {n} /\ stray' = StillStray(stray)
      /\ HasDeleted(h)
      /\ entry' = [e \in Entries |-> IF e \in handler[h].gone THEN None ELSE entry[e]]
  BY DeletionFacts DEF Begin, Inv, RequestsInv, CommitDeletion
<1>2. ASSUME NEW e \in stray, entry'[e] # None,
             \/ entry'[e] \notin files'
             \/ \E g \in Handlers : HasDeleted(g)' /\ handler'[g].node = entry'[e]
      PROVE  e \in stray'
  BY <1>1, <1>2, Zenon DEF StillStray
<1>3. ASSUME NEW e \in Entries, entry'[e] # None, entry'[e] \notin files'
      PROVE  e \in stray'
  <2>1. e \notin handler[h].gone /\ entry'[e] = entry[e]
    BY <1>1, <1>3
  <2>2. e \in stray
    <3>1. CASE entry[e] = n
      BY <1>1, <2>1, <3>1 DEF EntriesInv, EntriesFound
    <3>2. CASE entry[e] # n
      BY <1>1, <1>3, <2>1, <3>2 DEF EntriesInv, EntriesExplained
    <3> QED
      BY <3>1, <3>2
  <2> QED
    BY <1>2, <1>3, <2>2
<1>4. ASSUME NEW g \in Handlers PROVE EntriesFound(g)'
  <2>1. SUFFICES ASSUME HasDeleted(g)', NEW e \in Entries, entry'[e] = handler'[g].node
                 PROVE  e \in handler'[g].gone \cup stray'
    BY DEF EntriesFound
  <2>2. g # h /\ handler'[g] = handler[g] /\ HasDeleted(g)
    BY <1>1, <2>1 DEF HasDeleted, Idle
  <2>3. handler[g].node # None
    BY <2>2, NoneFacts DEF HasDeleted, Inv, RequestsInv, Relies, TablesInv
  <2>4. entry[e] = handler[g].node
    BY <1>1, <2>1, <2>2, <2>3
  <2>5. e \in handler[g].gone \cup stray
    BY <2>2, <2>4 DEF EntriesInv, EntriesFound
  <2>6. e \in stray => e \in stray'
    BY <1>2, <2>1, <2>2, <2>3
  <2> QED
    BY <2>2, <2>5, <2>6
<1> QED
  BY <1>3, <1>4 DEF EntriesInv, EntriesExplained

(* An entry that is written is noted, and one that a deletion has deleted  *)
(* cannot be written.                                                      *)
LEMMA EntriesWritten ==
  ASSUME Inv, EntriesInv, NEW h \in Handlers, WriteEntry(h)
  PROVE  EntriesInv'
<1> DEFINE w == handler[h].id
<1>1. Begin(h, Idle) /\ UNCHANGED files /\ ~EntryLocked(w)
      /\ handler[h].pc = "entry" /\ w \in Entries
  BY DEF WriteEntry, Inv, RequestsInv, Shape
<1>2. handler'[h] = Idle /\ \A g \in Handlers \ {h} : handler'[g] = handler[g]
  BY <1>1 DEF Begin, Inv, RequestsInv
<1>3. EntriesFound(h)'
  BY <1>2 DEF EntriesFound, HasDeleted, Idle
<1>4. CASE UNCHANGED <<entry, stray>>
  BY <1>1, <1>3, <1>4, EntriesQuiet
<1>5. CASE /\ entry' = [entry EXCEPT ![w] = handler[h].node]
           /\ stray' = StillStray(stray \cup {w})
  <2>1. /\ entry'[w] = handler[h].node
        /\ \A e \in Entries \ {w} : entry'[e] = entry[e]
    BY <1>1, <1>5 DEF Inv, TablesInv
  <2>2. ASSUME NEW e \in stray \cup {w}, entry'[e] # None,
               \/ entry'[e] \notin files'
               \/ \E g \in Handlers : HasDeleted(g)' /\ handler'[g].node = entry'[e]
        PROVE  e \in stray'
    BY <1>5, <2>2, Zenon DEF StillStray
  <2>3. EntriesExplained'
    BY <1>1, <2>1, <2>2 DEF EntriesInv, EntriesExplained
  <2>4. ASSUME NEW g \in Handlers PROVE EntriesFound(g)'
    <3>1. SUFFICES ASSUME HasDeleted(g)', NEW e \in Entries,
                          entry'[e] = handler'[g].node
                   PROVE  e \in handler'[g].gone \cup stray'
      BY DEF EntriesFound
    <3>2. g # h /\ handler'[g] = handler[g] /\ HasDeleted(g)
      BY <1>2, <3>1 DEF HasDeleted, Idle
    <3>3. entry'[e] # None
      BY <3>1, <3>2, NoneFacts DEF HasDeleted, Inv, RequestsInv, Relies, TablesInv
    <3>4. e = w => e \in stray'
      BY <2>2, <3>1, <3>3
    <3>5. e # w => e \in handler[g].gone \cup stray
      BY <2>1, <3>1, <3>2 DEF EntriesInv, EntriesFound
    <3>6. e \in stray => e \in stray'
      BY <2>2, <3>1, <3>3
    <3> QED
      BY <3>2, <3>4, <3>5, <3>6
  <2> QED
    BY <2>3, <2>4 DEF EntriesInv
<1> QED
  BY <1>4, <1>5 DEF WriteEntry

LEMMA EntriesStep ==
  ASSUME Inv, EntriesInv, [Next]_vars
  PROVE  EntriesInv'
<1>1. ASSUME UNCHANGED <<files, entry, handler, stray>> PROVE EntriesInv'
  BY <1>1 DEF EntriesInv, EntriesExplained, EntriesFound, HasDeleted
<1>2. ASSUME UNCHANGED <<files, handler>>, NEW e \in Entries, DeleteEntry(e)
      PROVE  EntriesInv'
  <2>1. entry' = [entry EXCEPT ![e] = None] /\ stray' = stray \ {e}
    BY <1>2 DEF DeleteEntry
  <2>2. EntriesExplained'
    BY <1>2, <2>1 DEF EntriesInv, EntriesExplained, Inv, TablesInv
  <2>3. ASSUME NEW g \in Handlers PROVE EntriesFound(g)'
    <3>1. HasDeleted(g) => handler[g].node # None
      BY NoneFacts DEF HasDeleted, Inv, RequestsInv, Relies, TablesInv
    <3> QED
      BY <1>2, <2>1, <3>1 DEF EntriesInv, EntriesFound, HasDeleted, Inv, TablesInv
  <2> QED
    BY <2>2, <2>3 DEF EntriesInv
<1>3. ASSUME NEW h \in Handlers, Calmly(h), UNCHANGED <<tables, history>>,
             stray' \in {stray, StillStray(stray)}, NEW r, Begin(h, r)
      PROVE  EntriesInv'
  <2>1. EntriesFound(h)'
    BY <1>3 DEF EntriesFound, HasDeleted, Calmly, Calm
  <2> QED
    BY <1>3, <2>1, EntriesQuiet DEF tables
<1>4. ASSUME NEW h \in Handlers, getFileByID(h) PROVE EntriesInv'
  <2>1. UNCHANGED <<tables, stray>> /\ Begin(h, handler'[h]) /\ ~HasDeleted(h)'
    BY <1>4, ClimbOutcome DEF getFileByID, HasDeleted, Idle
  <2> QED
    BY <2>1, EntriesQuiet DEF tables, EntriesFound
<1>5. ASSUME NEW h \in Handlers, DeleteRows(h) PROVE EntriesInv'
  <2>1. UNCHANGED <<tables, stray>> /\ Begin(h, handler'[h])
    BY <1>5, DeleteRowsStep
  <2>2. EntriesFound(h)'
    BY <1>5, <2>1, DeleteRowsStep DEF EntriesFound, HasDeleted, Idle, EntriesOf, tables
  <2> QED
    BY <2>1, <2>2, EntriesQuiet DEF tables
<1> QED
  BY <1>1, <1>2, <1>3, <1>4, <1>5, StepKinds, EntriesCommit, EntriesDeletion,
     EntriesWritten

(* An entry of a node that is gone was written by a request that had found *)
(* the node, after the deletion's statement: the deletion took all others. *)
THEOREM EntriesExplainedCorrect == Spec => []EntriesExplained
<1>1. Init => EntriesInv
  BY DEF Init, EntriesInv, EntriesExplained, EntriesFound, HasDeleted, Idle
<1>2. EntriesInv => EntriesExplained
  BY DEF EntriesInv
<1> QED
  BY <1>1, <1>2, InvCorrect, EntriesStep, PTL DEF Spec

(* The file service implements FileStore: whatever requests overlap, the   *)
(* tree changes by one request at a time, and names stay distinct.         *)
THEOREM ImplementsFileStoreCorrect == Spec => ImplementsFileStore
<1>1. Init => Store!Init
  BY DEF Init, Store!Init
<1>2. Inv /\ Inv' /\ [Next]_vars => [Store!Next]_(Store!vars)
  <2> SUFFICES ASSUME Inv, Inv', [Next]_vars, ~UNCHANGED Store!vars
               PROVE  Store!Next
    OBVIOUS
  <2>1. Store!Distinct'
    BY DEF Inv, TablesInv, DistinctPlaces, Store!Distinct
  <2>2. PICK h \in Handlers : Commit(h) \/ CommitDeletion(h)
    BY StepKinds DEF Store!vars, tables, history, getFileByID, DeleteRows, WriteEntry
  <2> DEFINE n == handler[h].node
  <2>3. CASE Commit(h)
    <3> USE <2>3, CommitFacts
    <3>1. Store!Only(n)
      BY DEF Store!Only, Inv, TablesInv
    <3>2. CASE Creates(h)
      <4>1. filestree[n] = None
        BY <3>2 DEF Inv, TablesInv, RowsAgree
      <4>2. filestree'[n] \in [parent : Store!Parents, name : Names]
        BY <3>2 DEF Inv, TablesInv, Rows, Parents, Store!Parents
      <4>3. meta'[n] \in Sizes /\ n \notin deleted
        BY <3>2 DEF Inv, TablesInv
      <4> QED
        BY <2>1, <3>1, <4>1, <4>2, <4>3 DEF Store!Next, Store!Add
    <3>3. CASE HasPlaced(h) /\ ~Creates(h)
      <4> DEFINE q == handler[h]
      <4>1. /\ Shape(q) /\ Relies(q) /\ Placed(q)
            /\ q.op \in {"rename", "move"}
        BY <3>3 DEF Inv, RequestsInv, Placed, HasPlaced, Shape, Creates, NewOps
      <4>2. /\ ~Uploads(h)
            /\ filestree'[n] = Place(q.to, q.name) /\ filestree'[n] # None
            /\ filestree[n] # None
        BY <3>3, <4>1, NoneFacts DEF Uploads, Written, Inv, TablesInv
      <4>3. CASE q.op = "rename"
        <5>1. Store!Rename(n)
          BY <4>1, <4>2, <4>3 DEF Store!Rename, Place, Shape, Relies
        <5> QED
          BY <2>1, <3>1, <5>1 DEF Store!Next
      <4>4. CASE q.op = "move"
        <5>1. Store!Move(n)
          BY <4>1, <4>2, <4>4 DEF Store!Move, Place, Shape, Relies, Parents, Store!Parents
        <5> QED
          BY <2>1, <3>1, <5>1 DEF Store!Next
      <4> QED
        BY <4>1, <4>3, <4>4
    <3>4. CASE ~HasPlaced(h) /\ Uploads(h)
      <4>1. Store!Replace(n)
        BY <3>4 DEF Store!Replace, Inv, TablesInv, RowsAgree
      <4> QED
        BY <2>1, <3>1, <4>1 DEF Store!Next
    <3>5. CASE ~HasPlaced(h) /\ ~Uploads(h)
      BY <3>5 DEF Store!vars, Inv, TablesInv
    <3> QED
      BY <3>2, <3>3, <3>4, <3>5
  <2>4. CASE CommitDeletion(h)
    <3>1. /\ n \in Nodes /\ filestree[n] # None
          /\ filestree' = [filestree EXCEPT ![n] = None]
          /\ meta' = [meta EXCEPT ![n] = 0]
          /\ deleted' = deleted \cup {n}
      BY <2>4, DeletionFacts
    <3>2. Store!Remove(n) /\ Store!Only(n)
      BY <3>1 DEF Store!Remove, Store!Only, Inv, TablesInv
    <3> QED
      BY <2>1, <3>1, <3>2 DEF Store!Next
  <2> QED
    BY <2>2, <2>3, <2>4
<1> QED
  BY <1>1, <1>2, InvCorrect, PTL DEF Spec, ImplementsFileStore, Store!Spec

(* Who is left in a folder that goes or is gone is in the history, and a   *)
(* request that has read the row of the folder it puts its node in either  *)
(* finds that row at its commit, or its arrival is in the history.         *)
ChildrenInv ==
  \A n \in Nodes, p \in Folders :
    /\ filestree[n] # None /\ filestree[n].parent = p
    /\ filestree[p] = None \/ DeletersOf(p) # {}
    => <<n, p>> \in raced

ArriversInv ==
  \A h \in Handlers :
    /\ Arrives(h) /\ handler[h].to \in Folders
    /\ handler[h].at \notin {handler[h].node, handler[h].to}
    => filestree[handler[h].to] # None \/ <<handler[h].node, handler[h].to>> \in raced

OrphansInv == ChildrenInv /\ ArriversInv

(* A request that begins a deletion has found the folder empty, and one    *)
(* that begins to climb has its own row to read.                           *)
LEMMA OrphansCalm ==
  ASSUME Inv, OrphansInv, NEW h \in Handlers, Calmly(h), UNCHANGED <<tables, history>>,
         NEW r, Begin(h, r)
  PROVE  OrphansInv'
<1> USE OthersStay
<1>1. ChildrenInv'
  <2> SUFFICES ASSUME NEW n \in Nodes, NEW p \in Folders,
                      filestree[n] # None, filestree[n].parent = p,
                      filestree[p] = None \/ DeletersOf(p)' # {}
               PROVE  <<n, p>> \in raced
    BY DEF ChildrenInv, tables, history
  <2>1. CASE r.op = "deleteFolder" /\ r.node = p
    <3>1. ListFileIDsByParentID(p) = {}
      BY <2>1 DEF Calmly, Calm, DeleteFolder
    <3> QED
      BY <3>1 DEF ListFileIDsByParentID
  <2>2. CASE filestree[p] = None \/ DeletersOf(p) # {}
    BY <2>2 DEF OrphansInv, ChildrenInv
  <2> QED
    BY <2>1, <2>2
<1>2. ArriversInv'
  <2>1. Arrives(h)' => handler'[h].at = handler'[h].node
    BY DEF Calmly, Calm, Arrives, HasPlaced
  <2> QED
    BY <2>1 DEF OrphansInv, ArriversInv, tables, history
<1> QED
  BY <1>1, <1>2 DEF OrphansInv

LEMMA OrphansClimb ==
  ASSUME Inv, OrphansInv, NEW h \in Handlers, getFileByID(h)
  PROVE  OrphansInv'
<1> DEFINE q == handler[h]
           row == RowFor(h, q.at)
           r == handler'[h]
<1> USE ClimbOutcome
<1>1. UNCHANGED <<tables, history>> /\ Shape(q)
  BY DEF Inv, RequestsInv
<1>7. Begin(h, r)
  OBVIOUS
<1>9. r.op # "deleteFolder"
  BY <1>1 DEF Idle, Shape
<1>10. ChildrenInv'
  BY <1>1, <1>7, <1>9, OthersStay DEF OrphansInv, ChildrenInv, tables, history
<1>11. ASSUME Arrives(h)', r.to \in Folders, r.at \notin {r.node, r.to}
       PROVE  filestree[r.to] # None \/ <<r.node, r.to>> \in raced
  <2>1. /\ r # Idle /\ r.op = q.op /\ r.node = q.node /\ r.to = q.to
        /\ row # None
        /\ row.parent = Root \/ r.at = row.parent
    BY <1>11 DEF Arrives, HasPlaced, Idle
  <2>2. Arrives(h)
    BY <1>1, <1>11, <2>1 DEF Arrives, HasPlaced
  <2>3. CASE q.at = q.node
    <3>1. row = Place(q.to, q.name)
      BY <2>2, <2>3 DEF RowFor, Arrives, Written
    <3>2. row.parent = q.to /\ q.to # Root
      BY <1>11, <2>1, <3>1, NoneFacts DEF Place
    <3> QED
      BY <1>11, <2>1, <3>2
  <2>4. CASE q.at = q.to /\ q.at # q.node
    BY <2>1, <2>4 DEF RowFor
  <2>5. CASE q.at \notin {q.node, q.to}
    BY <1>11, <2>1, <2>2, <2>5 DEF OrphansInv, ArriversInv
  <2> QED
    BY <2>3, <2>4, <2>5
<1>12. ArriversInv'
  BY <1>1, <1>7, <1>11, OthersStay DEF OrphansInv, ArriversInv, tables, history
<1> QED
  BY <1>10, <1>12 DEF OrphansInv

(* What a commit adds to the history, and keeps of it.                     *)
LEMMA OrphansCommit ==
  ASSUME Inv, OrphansInv, NEW h \in Handlers, Commit(h)
  PROVE  OrphansInv'
<1> DEFINE q == handler[h]
           c == q.node
<1>1. Begin(h, Idle) /\ c \in Nodes
  BY CommitFacts
<1>2. /\ \A m \in Nodes \ {c} : filestree'[m] = filestree[m]
      /\ filestree'[c] = IF HasPlaced(h) THEN Written(h) ELSE filestree[c]
      /\ HasPlaced(h) => Written(h) \in Rows
  BY CommitFacts DEF Inv, TablesInv
<1>3. \A m \in Nodes : filestree[m] # None => filestree'[m] # None
  BY <1>2, NoneFacts
<1>4. /\ \A g \in Handlers \ {h} : /\ handler'[g] = handler[g]
                                   /\ Arrives(g)' <=> Arrives(g)
      /\ \A p : DeletersOf(p)' # {} => DeletersOf(p) # {}
      /\ ~Arrives(h)'
  BY <1>1, OthersStay DEF Arrives, HasPlaced, Idle
<1>5. raced' = {r \in raced \cup RacedBy(h) :
                 \/ ArriversTo(r) \ {h} # {}
                 \/ /\ filestree'[r[1]] # None /\ filestree'[r[1]].parent = r[2]
                    /\ filestree'[r[2]] = None \/ DeletersOf(r[2]) # {}}
  BY DEF Commit
<1>6. ChildrenInv'
  <2> SUFFICES ASSUME NEW n \in Nodes, NEW p \in Folders,
                      filestree'[n] # None, filestree'[n].parent = p,
                      filestree'[p] = None \/ DeletersOf(p)' # {}
               PROVE  <<n, p>> \in raced'
    BY DEF ChildrenInv
  <2>1. filestree[p] = None \/ DeletersOf(p) # {}
    BY <1>3, <1>4, NoneFacts
  <2>2. <<n, p>> \in raced \cup RacedBy(h)
    <3>1. CASE filestree[n] # None /\ filestree[n].parent = p
      BY <2>1, <3>1 DEF OrphansInv, ChildrenInv
    <3>2. CASE ~(filestree[n] # None /\ filestree[n].parent = p)
      <4>1. n = c /\ HasPlaced(h) /\ filestree'[n] = Place(q.to, q.name)
        BY <1>2, <3>2 DEF Written
      <4>2. q.to = p
        BY <4>1 DEF Place
      <4>3. q.pc = "commit" /\ Shape(q) /\ Relies(q)
        BY DEF Commit, Inv, RequestsInv
      <4>4. q.op # "rename"
        BY <3>2, <4>1, <4>2, <4>3 DEF Relies, Placed, HasPlaced
      <4>5. Arrives(h) /\ p # n
        BY <4>1, <4>2, <4>3, <4>4 DEF Arrives, Shape, Placed, HasPlaced
      <4>6. CASE DeletersOf(p) # {}
        BY <4>1, <4>2, <4>5, <4>6 DEF RacedBy
      <4>7. CASE DeletersOf(p) = {}
        <5>1. filestree[p] = None
          BY <2>1, <4>7
        <5>2. q.at \notin {q.node, q.to}
          BY <1>1, <4>2, <4>3, NoneFacts DEF Shape
        <5> QED
          BY <4>1, <4>2, <4>5, <5>1, <5>2 DEF OrphansInv, ArriversInv
      <4> QED
        BY <4>6, <4>7
    <3> QED
      BY <3>1, <3>2
  <2>3. filestree'[p] = None \/ DeletersOf(p) # {}
    BY <1>4
  <2> QED
    BY <1>5, <2>2, <2>3
<1>7. ArriversInv'
  <2> SUFFICES ASSUME NEW g \in Handlers, Arrives(g)', handler'[g].to \in Folders,
                      handler'[g].at \notin {handler'[g].node, handler'[g].to},
                      filestree'[handler'[g].to] = None
               PROVE  <<handler'[g].node, handler'[g].to>> \in raced'
    BY DEF ArriversInv
  <2>1. g # h /\ Arrives(g) /\ handler'[g] = handler[g]
    BY <1>4
  <2>2. filestree[handler[g].to] = None
    BY <1>3, <2>1, NoneFacts
  <2>3. <<handler[g].node, handler[g].to>> \in raced
    BY <2>1, <2>2 DEF OrphansInv, ArriversInv
  <2>4. g \in ArriversTo(<<handler[g].node, handler[g].to>>) \ {h}
    BY <2>1 DEF ArriversTo
  <2> QED
    BY <1>5, <2>1, <2>3, <2>4
<1> QED
  BY <1>6, <1>7 DEF OrphansInv

LEMMA OrphansDelete ==
  ASSUME Inv, OrphansInv, NEW h \in Handlers, CommitDeletion(h)
  PROVE  OrphansInv'
<1> DEFINE d == handler[h].node
<1>1. Begin(h, Idle) /\ Shape(handler[h]) /\ handler[h].pc = "deleted"
  BY DeletionFacts
<1>2. /\ \A g \in Handlers \ {h} : /\ handler'[g] = handler[g]
                                   /\ Arrives(g)' <=> Arrives(g)
      /\ \A p : DeletersOf(p)' # {} => DeletersOf(p) # {}
      /\ ~Arrives(h)'
  BY <1>1, OthersStay DEF Arrives, HasPlaced, Idle
<1> DEFINE arrivals == {<<handler[g].node, d>> : g \in
                  {f \in Handlers : Arrives(f) /\ handler[f].to = d}}
<1>3. /\ d \in Nodes
      /\ \A m \in Nodes \ {d} : filestree'[m] = filestree[m]
      /\ filestree'[d] = None
      /\ raced' = {r \in raced : r[1] # d} \cup arrivals
  <2>1. raced' = {r \in raced : r[1] # d} \cup arrivals
    BY DEF CommitDeletion
  <2> HIDE DEF arrivals
  <2> QED
    BY <2>1, DeletionFacts DEF Inv, TablesInv
<1>4. ChildrenInv'
  <2> SUFFICES ASSUME NEW n \in Nodes, NEW p \in Folders,
                      filestree'[n] # None, filestree'[n].parent = p,
                      filestree'[p] = None \/ DeletersOf(p)' # {}
               PROVE  <<n, p>> \in raced'
    BY DEF ChildrenInv
  <2>1. n # d /\ filestree[n] # None /\ filestree[n].parent = p
    BY <1>3
  <2>2. filestree[p] = None \/ DeletersOf(p) # {}
    <3>1. CASE p = d
      <4>1. handler[h].op = "deleteFolder"
        BY <1>1, <3>1, NoneFacts DEF Shape
      <4> QED
        BY <3>1, <4>1 DEF DeletersOf
    <3>2. CASE p # d
      BY <1>2, <1>3, <3>2, NoneFacts
    <3> QED
      BY <3>1, <3>2
  <2>3. <<n, p>> \in raced
    BY <2>1, <2>2 DEF OrphansInv, ChildrenInv
  <2> QED
    BY <1>3, <2>1, <2>3
<1>5. ArriversInv'
  <2> SUFFICES ASSUME NEW g \in Handlers, Arrives(g)', handler'[g].to \in Folders,
                      handler'[g].at \notin {handler'[g].node, handler'[g].to},
                      filestree'[handler'[g].to] = None
               PROVE  <<handler'[g].node, handler'[g].to>> \in raced'
    BY DEF ArriversInv
  <2>1. g # h /\ Arrives(g) /\ handler'[g] = handler[g]
    BY <1>2
  <2>2. handler[g].node # d
    BY <2>1, DeletionFacts DEF Arrives
  <2>3. CASE handler[g].to = d
    BY <1>3, <2>1, <2>3
  <2>4. CASE handler[g].to # d
    <3>1. filestree[handler[g].to] = None
      BY <1>3, <2>1, <2>4, NoneFacts
    <3>2. <<handler[g].node, handler[g].to>> \in raced
      BY <2>1, <3>1 DEF OrphansInv, ArriversInv
    <3> QED
      BY <1>3, <2>1, <2>2, <3>2
  <2> QED
    BY <2>3, <2>4
<1> QED
  BY <1>4, <1>5 DEF OrphansInv

(* The folder is still being deleted.                                      *)
LEMMA OrphansDeleteRows ==
  ASSUME Inv, OrphansInv, NEW h \in Handlers, DeleteRows(h)
  PROVE  OrphansInv'
<1>1. UNCHANGED <<tables, history>> /\ Begin(h, handler'[h])
  BY DeleteRowsStep
<1>2. \A g \in Handlers : Arrives(g)' => g # h
  BY DeleteRowsStep DEF Arrives, HasPlaced, Idle
<1>3. \A p : DeletersOf(p)' # {} => DeletersOf(p) # {}
  BY <1>1, OthersStay, DeleteRowsStep DEF DeletersOf, Idle
<1>4. ChildrenInv'
  BY <1>1, <1>3 DEF OrphansInv, ChildrenInv, tables, history
<1>5. ArriversInv'
  BY <1>1, <1>2, OthersStay DEF OrphansInv, ArriversInv, tables, history
<1> QED
  BY <1>4, <1>5 DEF OrphansInv

LEMMA OrphansStep ==
  ASSUME Inv, OrphansInv, [Next]_vars
  PROVE  OrphansInv'
<1>1. ASSUME UNCHANGED <<filestree, raced, handler>> PROVE OrphansInv'
  BY <1>1 DEF OrphansInv, ChildrenInv, ArriversInv, DeletersOf, Arrives, HasPlaced
<1>2. ASSUME NEW h \in Handlers, WriteEntry(h) PROVE OrphansInv'
  <2>1. Begin(h, Idle) /\ UNCHANGED <<filestree, raced>>
    BY <1>2 DEF WriteEntry, history
  <2>2. /\ \A g \in Handlers \ {h} : /\ handler'[g] = handler[g]
                                     /\ Arrives(g)' <=> Arrives(g)
        /\ \A p : DeletersOf(p)' # {} => DeletersOf(p) # {}
        /\ ~Arrives(h)'
    BY <2>1, OthersStay DEF Arrives, HasPlaced, Idle
  <2>3. ChildrenInv'
    BY <2>1, <2>2 DEF OrphansInv, ChildrenInv
  <2>4. ArriversInv'
    BY <2>1, <2>2 DEF OrphansInv, ArriversInv
  <2> QED
    BY <2>3, <2>4 DEF OrphansInv
<1> QED
  BY <1>1, <1>2, StepKinds, OrphansCalm, OrphansClimb, OrphansCommit, OrphansDelete,
     OrphansDeleteRows
  DEF history

(* Whoever is in a folder that is no more was put there while the folder   *)
(* was being deleted, or under a file.                                     *)
THEOREM OrphansExplainedCorrect == Spec => []OrphansExplained
<1>1. Init => OrphansInv
  <2> SUFFICES ASSUME Init PROVE OrphansInv
    OBVIOUS
  <2>1. ChildrenInv
    BY DEF Init, ChildrenInv
  <2>2. ArriversInv
    BY DEF Init, ArriversInv, Arrives, HasPlaced, Idle
  <2> QED
    BY <2>1, <2>2 DEF OrphansInv
<1>2. Inv /\ OrphansInv => OrphansExplained
  BY DEF Inv, TablesInv, Rows, Parents, Nodes, OrphansInv, ChildrenInv, OrphansExplained
<1> QED
  BY <1>1, <1>2, InvCorrect, OrphansStep, PTL DEF Spec

-----------------------------------------------------------------------------
(* What is above a node, in any table filestree may be.                    *)

Trees == [Nodes -> Rows \cup {None}]

LEMMA AboveClosed ==
  ASSUME NEW tree \in Trees, NEW n \in Nodes, NEW k \in AboveIn(tree, n) \cup {n}
  PROVE  HoldsParent(tree, AboveIn(tree, n), k)
<1> DEFINE p == tree[k].parent
<1> SUFFICES ASSUME tree[k] # None, p # Root PROVE p \in AboveIn(tree, n)
  BY DEF HoldsParent
<1>1. k \in Nodes /\ p \in Nodes
  BY DEF AboveIn, Trees, Rows, Parents
<1>2. ASSUME NEW C \in SUBSET (Nodes \ {p}), HoldsParent(tree, C, n)
      PROVE  \E j \in C : ~HoldsParent(tree, C, j)
  <2>1. ~HoldsParent(tree, C, k)
    BY DEF HoldsParent
  <2>2. k \in AboveIn(tree, n)
    BY <1>2, <2>1
  <2>3. CASE k \in C
    BY <2>1, <2>3
  <2>4. CASE k \notin C
    BY <1>2, <2>2, <2>4 DEF AboveIn
  <2> QED
    BY <2>3, <2>4
<1> QED
  BY <1>1, <1>2 DEF AboveIn

LEMMA AboveLeast ==
  ASSUME NEW tree, NEW n \in Nodes, NEW C \in SUBSET Nodes,
         \A k \in C \cup {n} : HoldsParent(tree, C, k)
  PROVE  AboveIn(tree, n) \subseteq C
BY DEF AboveIn

(* Only what lies on the way up counts.                                    *)
SameParent(tree, other, m) ==
  /\ tree[m] = None <=> other[m] = None
  /\ tree[m] # None => tree[m].parent = other[m].parent

LEMMA AboveKept ==
  ASSUME NEW tree \in Trees, NEW other \in Trees, NEW n \in Nodes,
         \A m \in AboveIn(tree, n) \cup {n} : SameParent(tree, other, m)
  PROVE  AboveIn(other, n) = AboveIn(tree, n)
<1> DEFINE A == AboveIn(tree, n)
           B == AboveIn(other, n)
<1>1. A \subseteq Nodes /\ B \subseteq Nodes
  BY DEF AboveIn
<1>2. ASSUME NEW C, NEW m \in A \cup {n}
      PROVE  HoldsParent(tree, C, m) <=> HoldsParent(other, C, m)
  BY DEF HoldsParent, SameParent
<1>3. B \subseteq A
  BY <1>1, <1>2, AboveClosed, AboveLeast
<1>4. A \subseteq B
  <2>1. \A k \in B \cup {n} : HoldsParent(tree, B, k)
    BY <1>2, <1>3, AboveClosed
  <2> QED
    BY <1>1, <2>1, AboveLeast
<1> QED
  BY <1>3, <1>4

(* A row on the way up that changes stays on it.                           *)
LEMMA AboveStill ==
  ASSUME NEW tree \in Trees, NEW other \in Trees, NEW n \in Nodes, NEW k \in Nodes \ {n},
         \A m \in Nodes \ {k} : other[m] = tree[m],
         k \in AboveIn(tree, n)
  PROVE  k \in AboveIn(other, n)
<1> SUFFICES ASSUME k \notin AboveIn(other, n) PROVE FALSE
  OBVIOUS
<1>1. AboveIn(other, n) \subseteq Nodes
  BY DEF AboveIn
<1>2. \A m \in AboveIn(other, n) \cup {n} : SameParent(other, tree, m)
  BY <1>1 DEF SameParent
<1> QED
  BY <1>2, AboveKept

(* Whatever is above a node that is above itself has the same above it.    *)
LEMMA AboveCycle ==
  ASSUME NEW tree \in Trees, NEW n \in Nodes, n \in AboveIn(tree, n),
         NEW m \in AboveIn(tree, n)
  PROVE  AboveIn(tree, m) = AboveIn(tree, n)
<1> DEFINE D == {k \in Nodes : n \in AboveIn(tree, k)}
<1>1. \A k \in Nodes : AboveIn(tree, k) \subseteq Nodes
  BY DEF AboveIn
<1>2. ASSUME NEW k \in D PROVE HoldsParent(tree, D, k)
  <2> DEFINE p == tree[k].parent
             C == {p} \cup AboveIn(tree, p)
  <2> SUFFICES ASSUME tree[k] # None, p # Root PROVE p \in D
    BY DEF HoldsParent
  <2>1. p \in Nodes
    BY DEF Trees, Rows, Parents
  <2>2. \A j \in C \cup {k} : HoldsParent(tree, C, j)
    BY <2>1, AboveClosed DEF HoldsParent
  <2>3. C \in SUBSET Nodes /\ k \in Nodes
    BY <1>1, <2>1
  <2> HIDE DEF C
  <2>4. AboveIn(tree, k) \subseteq C
    BY <2>2, <2>3, AboveLeast
  <2> USE DEF C
  <2> QED
    BY <2>1, <2>4
<1>3. n \in D
  OBVIOUS
<1>4. AboveIn(tree, n) \subseteq D
  <2>1. D \in SUBSET Nodes /\ \A k \in D \cup {n} : HoldsParent(tree, D, k)
    BY <1>2, <1>3
  <2> HIDE DEF D
  <2> QED
    BY <2>1, AboveLeast
<1>5. AboveIn(tree, m) \subseteq AboveIn(tree, n)
  BY <1>1, AboveClosed, AboveLeast
<1>6. AboveIn(tree, n) \subseteq AboveIn(tree, m)
  BY <1>1, <1>4, AboveClosed, AboveLeast
<1> QED
  BY <1>5, <1>6

LEMMA AboveNothing ==
  ASSUME NEW tree, NEW n \in Nodes, tree[n] = None \/ tree[n].parent = Root
  PROVE  AboveIn(tree, n) = {}
<1>1. \A k \in {} \cup {n} : HoldsParent(tree, {}, k)
  BY DEF HoldsParent
<1>2. AboveIn(tree, n) \subseteq {}
  BY <1>1, AboveLeast
<1> QED
  BY <1>2

(* No node is above another that is yet to be created.                     *)
LEMMA AboveKnown ==
  ASSUME NEW tree \in Trees, NEW n \in Nodes, NEW K,
         \A m \in Nodes : tree[m] # None => tree[m].parent \in K \cup {Root}
  PROVE  AboveIn(tree, n) \subseteq K
<1>1. \A k \in (K \cap Nodes) \cup {n} : HoldsParent(tree, K \cap Nodes, k)
  BY DEF HoldsParent, Trees, Rows, Parents
<1> QED
  BY <1>1, AboveLeast


-----------------------------------------------------------------------------
(* A move that is written and not committed has the table before it that   *)
(* its commit would leave, if nothing else changed.  As long as it climbs  *)
(* it is somewhere on the way up from its node; once at the top, its node  *)
(* is not above itself; or another move has changed a row on the way       *)
(* meanwhile, and both nodes have crossed.                                 *)
TreeWith(h) == [filestree EXCEPT ![handler[h].node] = Written(h)]
Behind(h) == AboveIn(TreeWith(h), handler[h].node)

ClimbExplained(h) ==
  LET n == handler[h].node IN
  \/ n \notin Behind(h)
  \/ handler[h].pc = "climb" /\ handler[h].at \in Behind(h) \cup {n}
  \/ n \in crossed /\ \E m \in Behind(h) \cap crossed : m # n

CyclesInv ==
  /\ \A h \in OpenMoves : ClimbExplained(h)
  /\ CyclesExplained

LEMMA OpenMoveFacts ==
  ASSUME Inv, NEW h \in Handlers, HasPlaced(h)
  PROVE  LET n == handler[h].node IN
         /\ n \in Nodes
         /\ filestree \in Trees /\ TreeWith(h) \in Trees
         /\ TreeWith(h)[n] = Written(h)
         /\ \A m \in Nodes \ {n} : TreeWith(h)[m] = filestree[m]
         /\ \A m \in Nodes : TreeWith(h)[m] # None => TreeWith(h)[m].parent \in Known
         /\ \A g \in Handlers \ {h} : HasPlaced(g) => handler[g].node # n
<1> DEFINE n == handler[h].node
<1>1. Shape(handler[h]) /\ Relies(handler[h])
  BY DEF Inv, RequestsInv
<1>2. n \in Nodes /\ Written(h) \in Rows
  BY <1>1 DEF HasPlaced, Shape, Placed, Written, Place, Rows
<1>3. Written(h).parent \in Known
  BY <1>1 DEF HasPlaced, Relies, Written, Place
<1>4. filestree \in Trees /\ ParentsKnown
  BY DEF Inv, TablesInv, Trees
<1>5. \A g \in Handlers \ {h} : HasPlaced(g) => handler[g].node # n
  BY DEF Inv, LocksInv, Alone
<1>6. /\ TreeWith(h) \in Trees /\ TreeWith(h)[n] = Written(h)
      /\ \A m \in Nodes \ {n} : TreeWith(h)[m] = filestree[m]
  BY <1>2, <1>4 DEF TreeWith, Trees
<1> QED
  BY <1>2, <1>3, <1>4, <1>5, <1>6 DEF ParentsKnown

(* Another request changed neither the table nor h, and took nothing from  *)
(* the history.                                                            *)
LEMMA ClimbStays ==
  ASSUME NEW h, ClimbExplained(h), handler'[h] = handler[h],
         filestree' = filestree, crossed \subseteq crossed'
  PROVE  ClimbExplained(h)'
<1>1. Behind(h)' = Behind(h)
  BY DEF Behind, TreeWith, Written
<1> QED
  BY <1>1 DEF ClimbExplained

(* The step of one request that changes neither the table nor the history. *)
LEMMA CyclesQuiet ==
  ASSUME Inv, CyclesInv, NEW h \in Handlers, NEW r, Begin(h, r),
         UNCHANGED <<filestree, crossed>>,
         h \in OpenMoves' => ClimbExplained(h)'
  PROVE  CyclesInv'
<1>1. \A g \in Handlers \ {h} : handler'[g] = handler[g]
  BY OthersStay
<1>2. ASSUME NEW g \in OpenMoves', g # h PROVE ClimbExplained(g)'
  <2>1. g \in OpenMoves /\ handler'[g] = handler[g]
    BY <1>1, <1>2 DEF OpenMoves, HasPlaced
  <2> QED
    BY <2>1, ClimbStays DEF CyclesInv
<1>3. CyclesExplained'
  BY DEF CyclesInv, CyclesExplained, Above
<1> QED
  BY <1>2, <1>3 DEF CyclesInv

LEMMA CyclesClimb ==
  ASSUME Inv, CyclesInv, NEW h \in Handlers, getFileByID(h)
  PROVE  CyclesInv'
<1> DEFINE q == handler[h]
           row == RowFor(h, q.at)
           r == handler'[h]
           n == q.node
<1>1. Begin(h, r) /\ UNCHANGED <<filestree, crossed>> /\ q.pc = "climb"
  BY ClimbOutcome DEF tables, history
<1>2. ASSUME h \in OpenMoves' PROVE ClimbExplained(h)'
  <2>1. /\ r.op = q.op /\ r.node = n /\ r.to = q.to /\ r.name = q.name
        /\ row # None
        /\ \/ row.parent = Root /\ r.pc = "commit"
           \/ row.parent # Root /\ r.pc = "climb" /\ r.at = row.parent
    BY <1>2, ClimbOutcome DEF OpenMoves, HasPlaced, Idle
  <2>2. h \in OpenMoves /\ HasPlaced(h)
    BY <1>1, <1>2, <2>1 DEF OpenMoves, HasPlaced
  <2>3. n \in Nodes /\ TreeWith(h) \in Trees /\ TreeWith(h)[n] = Written(h)
    BY <2>2, OpenMoveFacts
  <2>4. Behind(h)' = Behind(h)
    BY <1>1, <2>1 DEF Behind, TreeWith, Written
  <2>5. CASE q.at \in Behind(h) \cup {n}
    <3>1. q.at \in Nodes
      BY <2>3, <2>5 DEF Behind, AboveIn
    <3>2. row = TreeWith(h)[q.at]
      BY <2>2, <2>3, <3>1, OpenMoveFacts DEF RowFor
    <3>3. CASE row.parent = Root /\ r.pc = "commit"
      <4>1. AboveIn(TreeWith(h), q.at) = {}
        BY <3>1, <3>2, <3>3, AboveNothing
      <4>2. n \notin Behind(h)
        BY <2>3, <2>5, <4>1, AboveCycle DEF Behind
      <4> QED
        BY <2>1, <2>4, <4>2 DEF ClimbExplained
    <3>4. CASE row.parent # Root /\ r.pc = "climb" /\ r.at = row.parent
      <4>1. HoldsParent(TreeWith(h), Behind(h), q.at)
        BY <2>3, <2>5, AboveClosed DEF Behind
      <4>2. r.at \in Behind(h)
        BY <2>1, <3>2, <3>4, <4>1 DEF HoldsParent
      <4> QED
        BY <2>1, <2>4, <3>4, <4>2 DEF ClimbExplained
    <3> QED
      BY <2>1, <3>3, <3>4
  <2>6. CASE q.at \notin Behind(h) \cup {n}
    <3>1. ClimbExplained(h)
      BY <2>2 DEF CyclesInv
    <3> QED
      BY <1>1, <2>1, <2>4, <2>6, <3>1 DEF ClimbExplained
  <2> QED
    BY <2>5, <2>6
<1> QED
  BY <1>1, <1>2, CyclesQuiet


(* A commit that changes the way up of a move that is still open is that   *)
(* of another move, and both nodes have crossed.                           *)
LEMMA ClimbCommit ==
  ASSUME Inv, CyclesInv, NEW h \in Handlers, Commit(h),
         NEW g \in Handlers \ {h}, g \in OpenMoves
  PROVE  ClimbExplained(g)'
<1> DEFINE c == handler[h].node
           n == handler[g].node
<1>1. /\ handler'[g] = handler[g] /\ HasPlaced(g)
      /\ n \in Nodes /\ TreeWith(g) \in Trees /\ filestree \in Trees
      /\ TreeWith(g)[n] = Written(g)
      /\ c \in Nodes
  BY OpenMoveFacts, CommitFacts, OthersStay DEF OpenMoves
<1>2. /\ \A m \in Nodes \ {c} : filestree'[m] = filestree[m]
      /\ filestree'[c] = IF HasPlaced(h) THEN Written(h) ELSE filestree[c]
      /\ filestree' \in Trees
  BY CommitFacts, CommitStep DEF Inv, TablesInv, Trees
<1>3. HasPlaced(h) => c # n
  BY <1>1, OpenMoveFacts
<1>4. /\ TreeWith(g)' \in Trees
      /\ TreeWith(g)'[n] = TreeWith(g)[n]
      /\ \A m \in Nodes \ {n} : TreeWith(g)'[m] = filestree'[m]
      /\ \A m \in Nodes \ {n} : TreeWith(g)[m] = filestree[m]
  <2>1. Written(g)' = Written(g)
    BY <1>1 DEF Written
  <2> QED
    BY <1>1, <1>2, <2>1, OpenMoveFacts DEF TreeWith, Trees
<1>5. \A m \in Nodes \ {c} : TreeWith(g)'[m] = TreeWith(g)[m]
  BY <1>2, <1>4
<1>6. crossed \cup CrossedBy(h) \subseteq crossed'
  BY DEF Commit
<1>7. ASSUME \/ SameParent(TreeWith(g), TreeWith(g)', c)
             \/ c \notin Behind(g) \cup {n}
      PROVE  ClimbExplained(g)'
  <2>1. \A m \in Behind(g) \cup {n} : SameParent(TreeWith(g), TreeWith(g)', m)
    BY <1>1, <1>5, <1>7 DEF SameParent, Behind, AboveIn
  <2>2. Behind(g)' = Behind(g)
    BY <1>1, <1>4, <2>1, AboveKept DEF Behind
  <2>3. ClimbExplained(g)
    BY DEF CyclesInv
  <2> QED
    BY <1>1, <1>6, <2>2, <2>3 DEF ClimbExplained
<1>8. CASE ~HasPlaced(h) \/ handler[h].op = "rename"
  <2>1. SameParent(filestree, filestree', c)
    <3>1. CASE ~HasPlaced(h)
      BY <1>2, <3>1 DEF SameParent
    <3>2. CASE HasPlaced(h) /\ handler[h].op = "rename"
      <4>1. filestree[c] # None /\ filestree[c].parent = handler[h].to
        BY <3>2 DEF Inv, RequestsInv, Relies, Placed, HasPlaced
      <4>2. filestree'[c] # None /\ filestree'[c].parent = handler[h].to
        BY <1>2, <3>2, CommitFacts, NoneFacts DEF Written, Place
      <4> QED
        BY <4>1, <4>2 DEF SameParent
    <3> QED
      BY <1>8, <3>1, <3>2
  <2>2. SameParent(TreeWith(g), TreeWith(g)', c)
    <3>1. CASE c = n
      BY <1>4, <3>1 DEF SameParent
    <3>2. CASE c # n
      BY <1>1, <1>4, <2>1, <3>2 DEF SameParent
    <3> QED
      BY <3>1, <3>2
  <2> QED
    BY <1>7, <2>2
<1>9. CASE HasPlaced(h) /\ Creates(h)
  <2>1. c \notin Known
    BY <1>1, <1>9, CommitFacts, NoneFacts DEF Known
  <2>2. Behind(g) \subseteq Known
    <3>1. \A m \in Nodes : TreeWith(g)[m] # None => TreeWith(g)[m].parent \in Known \cup {Root}
      BY <1>1, OpenMoveFacts
    <3> QED
      BY <1>1, <3>1, AboveKnown DEF Behind
  <2> QED
    BY <1>3, <1>7, <1>9, <2>1, <2>2
<1>10. CASE HasPlaced(h) /\ handler[h].op = "move"
  <2>1. CASE c \in Behind(g)
    <3>1. {c, n} \subseteq crossed'
      BY <1>1, <1>6, <1>10 DEF CrossedBy, OpenMoves
    <3>2. c \in Behind(g)'
      BY <1>1, <1>3, <1>4, <1>5, <1>10, <2>1, AboveStill DEF Behind
    <3> QED
      BY <1>1, <1>3, <1>10, <3>1, <3>2 DEF ClimbExplained
  <2> QED
    BY <1>3, <1>7, <1>10, <2>1
<1>11. HasPlaced(h) => Creates(h) \/ handler[h].op \in {"rename", "move"}
  BY DEF HasPlaced, Placed, Inv, RequestsInv, Shape, Creates, NewOps
<1> QED
  BY <1>8, <1>9, <1>10, <1>11


(* A cycle that a commit closes goes through the node it moves.            *)
LEMMA CyclesCommit ==
  ASSUME Inv, CyclesInv, NEW h \in Handlers, Commit(h)
  PROVE  CyclesInv'
<1> DEFINE c == handler[h].node
<1>1. /\ c \in Nodes /\ filestree \in Trees
      /\ \A m \in Nodes \ {c} : filestree'[m] = filestree[m]
      /\ filestree'[c] = IF HasPlaced(h) THEN Written(h) ELSE filestree[c]
      /\ filestree' \in Trees
  BY CommitFacts, CommitStep DEF Inv, TablesInv, Trees
<1>2. ASSUME NEW g \in OpenMoves' PROVE ClimbExplained(g)'
  <2>1. g \in Handlers \ {h} /\ g \in OpenMoves
    BY CommitFacts, OthersStay, <1>2 DEF OpenMoves, HasPlaced, Idle
  <2> QED
    BY <2>1, ClimbCommit
<1>3. ASSUME NEW n \in Nodes, n \in Above(n)'
      PROVE  \E m, k \in Above(n)' \cap crossed' : m # k
  <2> DEFINE A == Above(n)'
  <2>1. A = AboveIn(filestree', n) /\ A \subseteq Nodes
    BY DEF Above, AboveIn
  <2>2. \A m \in A : Above(m)' = A
    BY <1>1, <1>3, <2>1, AboveCycle DEF Above
  <2>3. A \cap (crossed \cup CrossedBy(h)) \subseteq crossed'
    BY <2>2 DEF Commit
  <2>4. ASSUME SameParent(filestree', filestree, c) \/ c \notin A
        PROVE  \E m, k \in A \cap crossed' : m # k
    <3>1. \A m \in A \cup {n} : SameParent(filestree', filestree, m)
      BY <1>1, <1>3, <2>1, <2>4 DEF SameParent
    <3>2. Above(n) = A
      BY <1>1, <2>1, <3>1, AboveKept DEF Above
    <3>3. \E m, k \in A \cap crossed : m # k
      BY <1>3, <3>2 DEF CyclesInv, CyclesExplained
    <3> QED
      BY <2>3, <3>3
  <2>5. CASE ~HasPlaced(h) \/ handler[h].op = "rename"
    <3>1. CASE ~HasPlaced(h)
      BY <1>1, <2>4, <3>1 DEF SameParent
    <3>2. CASE HasPlaced(h) /\ handler[h].op = "rename"
      <4>1. filestree[c] # None /\ filestree[c].parent = handler[h].to
        BY <3>2 DEF Inv, RequestsInv, Relies, Placed, HasPlaced
      <4>2. filestree'[c] # None /\ filestree'[c].parent = handler[h].to
        BY <1>1, <3>2, CommitFacts, NoneFacts DEF Written, Place
      <4> QED
        BY <2>4, <4>1, <4>2 DEF SameParent
    <3> QED
      BY <2>5, <3>1, <3>2
  <2>6. CASE HasPlaced(h) /\ Creates(h)
    <3>1. c \notin Known
      BY <1>1, <2>6, CommitFacts, NoneFacts DEF Known
    <3>2. \A m \in Nodes : filestree'[m] # None => filestree'[m].parent \in Known \cup {Root}
      BY <1>1, <2>6, OpenMoveFacts
    <3>3. A \subseteq Known
      BY <1>1, <2>1, <3>2, AboveKnown
    <3> QED
      BY <2>4, <3>1, <3>3
  <2>7. CASE HasPlaced(h) /\ handler[h].op = "move" /\ c \in A
    <3>1. TreeWith(h) = filestree'
      BY <1>1, <2>7, OpenMoveFacts DEF Trees
    <3>2. Behind(h) = A
      BY <2>1, <2>2, <2>7, <3>1 DEF Behind, Above
    <3>3. ClimbExplained(h) /\ handler[h].pc = "commit"
      BY <2>7 DEF CyclesInv, OpenMoves, Commit
    <3>4. c \in crossed /\ \E m \in A \cap crossed : m # c
      BY <2>7, <3>2, <3>3 DEF ClimbExplained
    <3> QED
      BY <2>3, <2>7, <3>4
  <2>8. HasPlaced(h) => Creates(h) \/ handler[h].op \in {"rename", "move"}
    BY DEF HasPlaced, Placed, Inv, RequestsInv, Shape, Creates, NewOps
  <2> QED
    BY <2>4, <2>5, <2>6, <2>7, <2>8
<1> QED
  BY <1>2, <1>3 DEF CyclesInv, CyclesExplained

(* A deletion opens the way up it is on.                                   *)
LEMMA CyclesDelete ==
  ASSUME Inv, CyclesInv, NEW h \in Handlers, CommitDeletion(h)
  PROVE  CyclesInv'
<1> DEFINE d == handler[h].node
<1>1. Begin(h, Idle)
  BY DeletionFacts
<1>2. ~(h \in OpenMoves') /\ \A g \in Handlers \ {h} :
        handler'[g] = handler[g] /\ (g \in OpenMoves' => g \in OpenMoves)
  BY <1>1, OthersStay DEF OpenMoves, HasPlaced, Idle
<1>3. /\ d \in Nodes /\ filestree \in Trees /\ filestree' \in Trees
      /\ \A m \in Nodes \ {d} : filestree'[m] = filestree[m]
      /\ filestree'[d] = None
      /\ crossed' = crossed \ {d}
  <2>1. crossed' = crossed \ {d}
    BY DEF CommitDeletion
  <2> QED
    BY <2>1, DeletionFacts DEF Inv, TablesInv, Trees
<1>4. ASSUME NEW g \in OpenMoves' PROVE ClimbExplained(g)'
  <2> DEFINE n == handler[g].node
  <2>1. g \in OpenMoves /\ handler'[g] = handler[g] /\ HasPlaced(g) /\ g \in Handlers
    BY <1>2, <1>4 DEF OpenMoves
  <2>2. n # d /\ n \in Nodes /\ TreeWith(g) \in Trees
    BY <1>2, <2>1, <1>4, OpenMoveFacts, DeletionFacts
  <2>3. /\ TreeWith(g)' \in Trees
        /\ TreeWith(g)'[n] = TreeWith(g)[n]
        /\ \A m \in Nodes \ {n} : TreeWith(g)'[m] = filestree'[m]
        /\ \A m \in Nodes \ {n} : TreeWith(g)[m] = filestree[m]
    <3>1. Written(g)' = Written(g) /\ Written(g) \in Rows \cup {None}
      BY <2>1, <2>2, OpenMoveFacts DEF Written, Trees
    <3> QED
      BY <1>3, <2>1, <2>2, <3>1, OpenMoveFacts DEF TreeWith, Trees
  <2>4. \A m \in Nodes \ {d} : TreeWith(g)'[m] = TreeWith(g)[m]
    BY <1>3, <2>3
  <2>5. CASE d \in Behind(g)
    <3>1. d \in Behind(g)'
      BY <1>3, <2>1, <2>2, <2>3, <2>4, <2>5, AboveStill DEF Behind
    <3>2. AboveIn(TreeWith(g)', d) = {}
      BY <1>3, <2>2, <2>3, AboveNothing
    <3>3. n \notin Behind(g)'
      BY <2>1, <2>2, <2>3, <3>1, <3>2, AboveCycle DEF Behind
    <3> QED
      BY <2>1, <3>3 DEF ClimbExplained
  <2>6. CASE d \notin Behind(g)
    <3>1. \A m \in Behind(g) \cup {n} : SameParent(TreeWith(g), TreeWith(g)', m)
      BY <2>2, <2>4, <2>6 DEF SameParent, Behind, AboveIn
    <3>2. Behind(g)' = Behind(g)
      BY <2>1, <2>2, <2>3, <3>1, AboveKept DEF Behind
    <3>3. ClimbExplained(g)
      BY <2>1 DEF CyclesInv
    <3> QED
      BY <1>3, <2>1, <2>2, <2>6, <3>2, <3>3 DEF ClimbExplained
  <2> QED
    BY <2>5, <2>6
<1>5. ASSUME NEW n \in Nodes, n \in Above(n)'
      PROVE  \E m, k \in Above(n)' \cap crossed' : m # k
  <2> DEFINE A == Above(n)'
  <2>1. A = AboveIn(filestree', n) /\ A \subseteq Nodes
    BY DEF Above, AboveIn
  <2>2. d \notin A
    <3>1. AboveIn(filestree', d) = {}
      BY <1>3, AboveNothing
    <3> QED
      BY <1>3, <1>5, <2>1, <3>1, AboveCycle
  <2>3. \A m \in A \cup {n} : SameParent(filestree', filestree, m)
    BY <1>3, <1>5, <2>1, <2>2 DEF SameParent
  <2>4. Above(n) = A
    BY <1>3, <2>1, <2>3, AboveKept DEF Above
  <2> QED
    BY <1>3, <1>5, <2>2, <2>4 DEF CyclesInv, CyclesExplained
<1> QED
  BY <1>4, <1>5 DEF CyclesInv, CyclesExplained

(* Until then nothing on it has changed.                                   *)
LEMMA CyclesDeleteRows ==
  ASSUME Inv, CyclesInv, NEW h \in Handlers, DeleteRows(h)
  PROVE  CyclesInv'
<1>1. UNCHANGED <<filestree, crossed>> /\ Begin(h, handler'[h])
  BY DeleteRowsStep DEF tables, history
<1>2. ~(h \in OpenMoves')
  BY DeleteRowsStep DEF OpenMoves, HasPlaced, Idle
<1> QED
  BY <1>1, <1>2, CyclesQuiet

LEMMA CyclesStep ==
  ASSUME Inv, CyclesInv, [Next]_vars
  PROVE  CyclesInv'
<1>1. ASSUME UNCHANGED <<filestree, crossed, handler>> PROVE CyclesInv'
  <2>1. OpenMoves' = OpenMoves
    BY <1>1 DEF OpenMoves, HasPlaced
  <2>2. \A h \in OpenMoves : ClimbExplained(h)'
    BY <1>1, ClimbStays DEF CyclesInv
  <2>3. CyclesExplained'
    BY <1>1 DEF CyclesInv, CyclesExplained, Above
  <2> QED
    BY <2>1, <2>2, <2>3 DEF CyclesInv
<1>2. ASSUME NEW h \in Handlers, WriteEntry(h) PROVE CyclesInv'
  <2>1. Begin(h, Idle) /\ UNCHANGED <<filestree, crossed>>
    BY <1>2 DEF WriteEntry, history
  <2>2. ~(h \in OpenMoves')
    BY <2>1, OthersStay DEF OpenMoves, HasPlaced, Idle
  <2> QED
    BY <2>1, <2>2, CyclesQuiet
<1>3. ASSUME NEW h \in Handlers, Calmly(h), UNCHANGED <<tables, history>>,
             NEW r, Begin(h, r)
      PROVE  CyclesInv'
  <2>1. h \in OpenMoves' => ClimbExplained(h)'
    BY <1>3 DEF Calmly, Calm, OpenMoves, HasPlaced, ClimbExplained
  <2> QED
    BY <1>3, <2>1, CyclesQuiet DEF tables, history
<1> QED
  BY <1>1, <1>2, <1>3, StepKinds, CyclesClimb, CyclesCommit, CyclesDelete,
     CyclesDeleteRows
  DEF history

(* The tree stays a tree but for cycles that moves close which were open   *)
(* together, two at least, of which none saw all that the others wrote:    *)
(* whatever else overlaps, a move that would put a folder below itself     *)
(* fails.                                                                  *)
THEOREM CyclesExplainedCorrect == Spec => []CyclesExplained
<1>1. Init => CyclesInv
  <2> SUFFICES ASSUME Init PROVE CyclesInv
    OBVIOUS
  <2>1. OpenMoves = {}
    BY DEF Init, OpenMoves, HasPlaced, Idle
  <2>2. \A n \in Nodes : Above(n) = {}
    BY AboveNothing DEF Init, Above
  <2> QED
    BY <2>1, <2>2 DEF CyclesInv, CyclesExplained
<1>2. CyclesInv => CyclesExplained
  BY DEF CyclesInv
<1> QED
  BY <1>1, <1>2, InvCorrect, CyclesStep, PTL DEF Spec

=============================================================================
