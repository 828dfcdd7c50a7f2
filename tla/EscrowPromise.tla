---------------------------- MODULE EscrowPromise ----------------------------
(***************************************************************************)
(* What the booking escrow promises, without requests, rows or locks.      *)
(*                                                                         *)
(* BookingService.create_booking announces it in a comment                 *)
(* (apps/bookings/services.py:74): "is either the booking is created and   *)
(* user wallet deducted or everything fails"; refund_booking               *)
(* (apps/wallet/services.py:31) is the way back.  So, for each booking:    *)
(* its price leaves the customer's wallet once, in the step that locks it, *)
(* and the locked amount returns to the wallet at most once, whole.        *)
(***************************************************************************)
EXTENDS Integers

CONSTANTS
    Customers,       \* users with a wallet
    BookingIds,      \* primary keys a new booking may get
    CustomerOf,      \* the customer who creates each booking
    Prices,          \* prices customers ask for
    OpeningBalance   \* every wallet's balance at the start

VARIABLES
    balance,         \* balance[c] : Wallet.balance of customer c
    escrow           \* escrow[b]  : the amount set aside for booking b

vars == <<balance, escrow>>

Nothing == [state |-> "none", amount |-> 0]

Init ==
    /\ balance = [c \in Customers |-> OpeningBalance]
    /\ escrow = [b \in BookingIds |-> Nothing]

\* The price of b leaves its customer's wallet and is set aside.
Hold(b, price) ==
    /\ escrow[b] = Nothing
    /\ price <= balance[CustomerOf[b]]
    /\ balance' = [balance EXCEPT ![CustomerOf[b]] = @ - price]
    /\ escrow' = [escrow EXCEPT ![b] = [state |-> "held", amount |-> price]]

\* What was set aside for b returns to its customer's wallet, whole.
GiveBack(b) ==
    /\ escrow[b].state = "held"
    /\ balance' = [balance EXCEPT ![CustomerOf[b]] = @ + escrow[b].amount]
    /\ escrow' = [escrow EXCEPT ![b].state = "released"]

Next ==
    \E b \in BookingIds :
        \/ \E price \in Prices : Hold(b, price)
        \/ GiveBack(b)

Spec == Init /\ [][Next]_vars
=============================================================================
