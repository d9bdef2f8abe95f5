----------------------------- MODULE MCFileTree -----------------------------
(***************************************************************************)
(* A small instance of FileTree for TLC.                                   *)
(***************************************************************************)
EXTENDS FileTree, TLC

MCSymmetry ==
  Permutations(Files) \cup Permutations(Folders) \cup Permutations(Names)
    \cup Permutations(Entries) \cup Permutations(Handlers)

(* A second entry, made or about to be, is only followed while a deletion  *)
(* has had its statements and has not been committed.                      *)
SpareEntries ==
  \/ Cardinality({e \in Entries : ~FreshEntry(e)}) <= 1
  \/ \E h \in Handlers : HasDeleted(h)
=============================================================================
