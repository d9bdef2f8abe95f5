----------------------------- MODULE FileStore ------------------------------
(***************************************************************************)
(* What the file service promises of its tree: files and folders with one  *)
(* parent and one name each, changed by one request at a time and in one   *)
(* respect at a time, no two children of a folder with the same name, and  *)
(* ids that are never used again.                                          *)
(***************************************************************************)

CONSTANTS
  Nodes,     (* Ids of files and folders.                                  *)
  Names,     (* Names.                                                     *)
  Root,      (* The parent of what lies at the top.                        *)
  None,      (* No place.                                                  *)
  Sizes      (* Sizes of contents, 0 among them.                           *)

VARIABLES
  place,     (* For each node its parent and name, or None.                *)
  size,      (* For each node the size of its content; a folder has none, 0. *)
  removed    (* The nodes that were there and are not.                     *)

vars == <<place, size, removed>>

Parents == Nodes \cup {Root}

Init ==
  /\ place = [n \in Nodes |-> None]
  /\ size = [n \in Nodes |-> 0]
  /\ removed = {}

(* No two children of a parent have the same name.                         *)
Distinct ==
  \A m, n \in Nodes : m # n /\ place[m] # None => place[m] # place[n]

(* Only n's place or size changes.                                         *)
Only(n) ==
  /\ place' = [place EXCEPT ![n] = place'[n]]
  /\ size' = [size EXCEPT ![n] = size'[n]]

Add(n) ==
  /\ place[n] = None
  /\ place'[n] \in [parent : Parents, name : Names]
  /\ size'[n] \in Sizes
  /\ n \notin removed
  /\ UNCHANGED removed

Rename(n) ==
  /\ place[n] # None /\ place'[n] # None
  /\ place'[n].name \in Names
  /\ place'[n].parent = place[n].parent
  /\ UNCHANGED <<size, removed>>

Move(n) ==
  /\ place[n] # None /\ place'[n] # None
  /\ place'[n].parent \in Parents
  /\ place'[n].name = place[n].name
  /\ UNCHANGED <<size, removed>>

Replace(n) ==
  /\ place[n] # None
  /\ size'[n] \in Sizes
  /\ UNCHANGED <<place, removed>>

Remove(n) ==
  /\ place[n] # None
  /\ place'[n] = None
  /\ size'[n] = 0
  /\ removed' = removed \cup {n}

Next ==
  /\ \E n \in Nodes :
       /\ Add(n) \/ Rename(n) \/ Move(n) \/ Replace(n) \/ Remove(n)
       /\ Only(n)
  /\ Distinct'

Spec == Init /\ [][Next]_vars
=============================================================================
