---------------------------- MODULE MCJobDispatch ----------------------------
(***************************************************************************)
(* Small instances of JobDispatch for TLC.                                 *)
(***************************************************************************)
EXTENDS JobDispatch, TLC

(* Every set but the one of the singleton constants is interchangeable.    *)
MCSymmetry ==
  Permutations(Jobs) \cup Permutations(Files) \cup Permutations(Types)
    \cup Permutations(Leasers) \cup Permutations(Handlers)
    \cup Permutations(Calls)
=============================================================================
