----------------------------- MODULE MCSociety -----------------------------
(***************************************************************************)
(* Society for TLC: the values of the constants are in Society.cfg.        *)
(***************************************************************************)
EXTENDS Society, TLC

CONSTANTS r1, r2, u1, u2, l1, l2

Symmetry ==
    Permutations({r1, r2}) \cup Permutations({u1, u2}) \cup Permutations({l1, l2})
=============================================================================
