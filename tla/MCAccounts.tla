----------------------------- MODULE MCAccounts -----------------------------
(***************************************************************************)
(* Accounts for TLC: the values of the constants are in Accounts.cfg.      *)
(***************************************************************************)
EXTENDS Accounts, TLC

CONSTANTS r1, r2, u1, u2, c1, c2

Symmetry ==
    Permutations({r1, r2}) \cup Permutations({u1, u2}) \cup Permutations({c1, c2})
=============================================================================
