---------------------------- MODULE MCFixedPool ----------------------------
(***************************************************************************)
(* FixedPool for TLC.                                                      *)
(***************************************************************************)
EXTENDS FixedPool

============================================================================
