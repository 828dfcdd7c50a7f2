----------------------------- MODULE MCReferral -----------------------------
(***************************************************************************)
(* Finite instances of Referral for TLC.                                   *)
(***************************************************************************)
EXTENDS Referral, TLC

CONSTANTS i1, i2, t1, t2, k1, k2, r1, r2, w1, w2

Symmetry ==
    Permutations({i1, i2}) \cup Permutations({t1, t2})
        \cup Permutations({k1, k2}) \cup Permutations({r1, r2}) \cup Permutations({w1, w2})
=============================================================================
