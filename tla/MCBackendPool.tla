--------------------------- MODULE MCBackendPool ---------------------------
(***************************************************************************)
(* BackendPool for TLC: callers are interchangeable, and so are the names  *)
(* of connections.                                                         *)
(***************************************************************************)
EXTENDS BackendPool, TLC

Symmetry == Permutations(Conn) \cup Permutations(User)

============================================================================
