---------------------------- MODULE MCRoutinePool ----------------------------
(***************************************************************************)
(* Small instances of RoutinePool for TLC.                                 *)
(***************************************************************************)
EXTENDS RoutinePool, TLC

MCSymmetry == Permutations(Keys) \cup Permutations(Starts)
=============================================================================
