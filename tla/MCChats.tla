------------------------------ MODULE MCChats ------------------------------
(***************************************************************************)
(* Chats for TLC: the values of the constants are in Chats.cfg.            *)
(***************************************************************************)
EXTENDS Chats, TLC

CONSTANTS r1, r2, u1, u2

Symmetry == Permutations({r1, r2}) \cup Permutations({u1, u2})
=============================================================================
