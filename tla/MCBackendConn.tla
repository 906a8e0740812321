--------------------------- MODULE MCBackendConn ---------------------------
(***************************************************************************)
(* BackendConn for TLC: clients are interchangeable, and so are            *)
(* connections.                                                            *)
(***************************************************************************)
EXTENDS BackendConn, TLC

Symmetry == Permutations(Session) \cup Permutations(Conn)

============================================================================
