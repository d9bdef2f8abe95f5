------------------------------ MODULE MCRoutine ------------------------------
(***************************************************************************)
(* Small instances of Routine for TLC.                                     *)
(***************************************************************************)
EXTENDS Routine, TLC

MCSymmetry == Permutations(Callers)
=============================================================================
