--------------------------- MODULE MCVectorIndex ----------------------------
(***************************************************************************)
(* A small instance of VectorIndex for TLC.                                *)
(***************************************************************************)
EXTENDS VectorIndex, TLC
=============================================================================
