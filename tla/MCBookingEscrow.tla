--------------------------- MODULE MCBookingEscrow ---------------------------
(***************************************************************************)
(* Finite instances of BookingEscrow for TLC.                              *)
(***************************************************************************)
EXTENDS BookingEscrow, TLC

CONSTANTS c1, c2, b1, b2, r1, r2

\* One customer owns every booking: overlap on one wallet is the hard case,
\* and the wallet of another customer must not move at all.
OneCustomer == [b \in BookingIds |-> c1]

\* A booking at a negative price adds to the wallet what its refund takes away.
SignedPrices == {-1, 1, 2}

Symmetry == Permutations({b1, b2}) \cup Permutations({r1, r2})
=============================================================================
