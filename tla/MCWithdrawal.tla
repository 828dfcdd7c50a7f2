---------------------------- MODULE MCWithdrawal ----------------------------
(***************************************************************************)
(* Finite instances of Withdrawal for TLC.                                 *)
(***************************************************************************)
EXTENDS Withdrawal, TLC

CONSTANTS w1, w2, k1, k2, r1, r2

Symmetry == Permutations({w1, w2}) \cup Permutations({r1, r2}) \cup Permutations({k1, k2})
=============================================================================
