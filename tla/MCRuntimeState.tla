--------------------------- MODULE MCRuntimeState ---------------------------
(***************************************************************************)
(* Small instances of RuntimeState for TLC.  The embedding pool and model  *)
(* are singled out, so no set is symmetric.                                *)
(***************************************************************************)
EXTENDS RuntimeState, TLC
=============================================================================
