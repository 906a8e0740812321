------------------------------ MODULE MCProxy ------------------------------
(***************************************************************************)
(* Proxy for TLC: instances i1 and i2 of cluster k1, owned by u1, and      *)
(* instance i3 of cluster k2, owned by u2; the local instance is the only  *)
(* one of its cluster and has no owner.                                    *)
(***************************************************************************)
EXTENDS Proxy

CONSTANTS i3, k1, k2, k3, u1, u2

MCKeyOf == [i \in Instance |-> IF i = Local THEN k3 ELSE IF i = i3 THEN k2 ELSE k1]
MCOwnerOf == [i \in Instance |-> IF i = Local THEN None ELSE IF i = i3 THEN u2 ELSE u1]

============================================================================
