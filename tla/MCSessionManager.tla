-------------------------- MODULE MCSessionManager --------------------------
(***************************************************************************)
(* SessionManager for TLC: event loops and hash rings to choose from.      *)
(***************************************************************************)
EXTENDS SessionManager, TLC

(* One event loop (MultiCore off), or every session on a loop of its own.   *)
OneLoop == [s \in Session |-> 1]
LoopEach == [s \in Session |-> s]

(* Every session hashes to the same connection.                             *)
SameConn == [s \in Session |-> CHOOSE c \in Conn : TRUE]

(* Sessions are interchangeable under OneLoop and SameConn.                 *)
Symmetry == Permutations(Session)

=============================================================================
