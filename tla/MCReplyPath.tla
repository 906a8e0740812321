---------------------------- MODULE MCReplyPath ----------------------------
(***************************************************************************)
(* ReplyPath for TLC: clients are interchangeable, and so are packets      *)
(* other than NilPacket.                                                   *)
(***************************************************************************)
EXTENDS ReplyPath, TLC

Symmetry == Permutations(Client) \cup Permutations(Pkt \ {NilPacket})

============================================================================
