---------------------------- MODULE BookingEscrow ----------------------------
(***************************************************************************)
(* Bookings and the money they hold (apps/bookings, apps/wallet/services). *)
(*                                                                         *)
(* A customer's POST creates a booking, takes its price from the wallet    *)
(* and locks it; the provider accepts; either side rejects, which cancels  *)
(* the booking and refunds the lock; the customer may PATCH or DELETE it.  *)
(*                                                                         *)
(* Requests run concurrently in server threads.  Outside an atomic block   *)
(* Django commits every statement on its own, so what a view has read is   *)
(* stale by the time its atomic block runs: each request keeps its copies  *)
(* in request[r].  A transaction.atomic block is one step (SQLite, the     *)
(* database of config/settings/dev.py and tests/settings.py, serialises    *)
(* writing transactions).  On PostgreSQL process_transaction's query       *)
(* (FOR UPDATE over the nullable joins of booking_transaction.py:20) is    *)
(* refused by the server, so there every create and reject is RequestFails.*)
(*                                                                         *)
(* Left out: who is staff, addresses, attachments, services, e-mail and    *)
(* notifications (a failing one is RequestFails when it undoes something), *)
(* platform_fee and mutable_amount (only payouts read them).               *)
(***************************************************************************)
EXTENDS Integers

CONSTANTS
    Customers,       \* users with a wallet who book
    BookingIds,      \* primary keys a new booking may get (bounds creations)
    CustomerOf,      \* the customer who creates each booking
    Prices,          \* prices customers ask for; nothing refuses a negative one
    OpeningBalance,  \* every wallet's balance at the start
    Requests         \* slots for requests in flight (bounds the overlap)

ASSUME EscrowAssumption ==
    /\ CustomerOf \in [BookingIds -> Customers]
    /\ Prices \subseteq Int
    /\ OpeningBalance \in Nat

VARIABLES
    balance,   \* balance[c] : Wallet.balance of customer c
    booking,   \* booking[b] : the Bookings row, or NoRow
    lock,      \* lock[b]    : the LockedWallet row of booking b, or NoLock
    ledger,    \* ledger[b]  : the kinds of BookingTransaction rows of b
    request,   \* request[r] : where request r is and what it has read
    repriced   \* the bookings whose price a PATCH has changed (history)

vars == <<balance, booking, lock, ledger, request, repriced>>

-----------------------------------------------------------------------------
(* The rows and what a request remembers.                                  *)

Statuses == {"Pending", "Funded", "In_progress", "Completed", "Cancelled"}

NoRow == [booking_status |-> "Absent", price |-> 0, is_active |-> FALSE]

Row == [booking_status : Statuses, price : Int, is_active : BOOLEAN]

NoLock == [state |-> "none", amount |-> 0]

LockedWallet == [state : {"none", "held", "released"}, amount : Int]

BookingTransaction ==
    [type : {"ESCROW_HOLD", "REFUND"},
     status : {"COMPLETED", "FAILED"},
     amount : Int]

Idle == [at |-> "idle"]

\* user.wallet was read by validate_price and stays cached on request.user.
Validated == [at : {"validated"}, customer : Customers, price : Int, balance : Int]

\* create_booking has committed; BookingCreateSerializer.create has not saved.
Created == [at : {"created"}, booking : BookingIds, price : Int]

\* The view holds its copy of the row and the checks on the copy passed.
Accepting == [at : {"accepting"}, booking : BookingIds]
Rejecting == [at : {"rejecting"}, booking : BookingIds, price : Int]

Exists(b) == booking[b].booking_status # "Absent"

Init ==
    /\ balance = [c \in Customers |-> OpeningBalance]
    /\ booking = [b \in BookingIds |-> NoRow]
    /\ lock = [b \in BookingIds |-> NoLock]
    /\ ledger = [b \in BookingIds |-> {}]
    /\ request = [r \in Requests |-> Idle]
    /\ repriced = {}

-----------------------------------------------------------------------------
(* The services the requests call, each as the new value of what it writes.*)
(* An operator marked "faulty" stands for a plausible bug: only the mutant *)
(* runs use it, in the place of the definition that follows it.            *)

\* Faulty: the wallet is read again.
DeductFresh(c, seen, amount) == [balance EXCEPT ![c] = @ - amount]

\* deduct_user_balance on a wallet object whose balance was read earlier.
DeductUserBalance(c, seen, amount) == [balance EXCEPT ![c] = seen - amount]

\* credit_user_wallet: the wallet is read inside the same atomic block.
CreditUserWallet(c, amount) == [balance EXCEPT ![c] = @ + amount]

\* Faulty: the lock is for less than was deducted.
LockBookingShort(b, amount) ==
    [lock EXCEPT ![b] = [state |-> "held",
                         amount |-> IF amount > 0 THEN amount - 1 ELSE 0]]

\* lock_booking: LockedWallet.objects.create; the lock is for the whole amount.
LockBooking(b, amount) ==
    [lock EXCEPT ![b] = [state |-> "held", amount |-> amount]]

\* Faulty: the outcome is ignored.
ProcessTransactionAlways(b, price, type, ok) ==
    [ledger EXCEPT ![b] = @ \cup
        {[type |-> type, status |-> "COMPLETED", amount |-> price]}]

\* process_transaction re-reads the booking: the amount is the row's price.
ProcessTransaction(b, price, type, ok) ==
    [ledger EXCEPT ![b] = @ \cup
        {[type |-> type, status |-> IF ok THEN "COMPLETED" ELSE "FAILED",
          amount |-> price]}]

\* Faulty: is_released is not looked at.
RefundableOnceReleased(b, amount) == lock[b].state # "none" /\ lock[b].amount = amount

\* refund_booking raises unless the lock is open and holds just this amount.
Refundable(b, amount) == lock[b].state = "held" /\ lock[b].amount = amount

-----------------------------------------------------------------------------
(* POST /bookings/                                                         *)

\* Faulty: what is locked already counts too, as in Wallet.get_total_balance.
CoversWithLocked(c, price) ==
    \/ balance[c] >= price
    \/ \E b \in BookingIds :
          /\ CustomerOf[b] = c /\ lock[b].state = "held"
          /\ balance[c] + lock[b].amount >= price

\* validate_price raises unless the wallet covers the price now.  It asks for
\* nothing else: every wallet that is not overdrawn covers a negative price.
Covers(c, price) == balance[c] >= price

CreateValidate(r, c, price) ==
    /\ request[r] = Idle
    /\ Covers(c, price)
    /\ request' = [request EXCEPT ![r] =
            [at |-> "validated", customer |-> c, price |-> price,
             balance |-> balance[c]]]
    /\ UNCHANGED <<balance, booking, lock, ledger>>

\* BookingService.create_booking: one atomic block.  FUNDED is only set on
\* the object in memory, the row stays Pending.
CreateCommit(r, b) ==
    LET me == request[r] IN
    /\ me.at = "validated"
    /\ ~ Exists(b)
    /\ CustomerOf[b] = me.customer
    /\ booking' = [booking EXCEPT ![b] =
            [booking_status |-> "Pending", price |-> me.price, is_active |-> TRUE]]
    /\ balance' = DeductUserBalance(me.customer, me.balance, me.price)
    /\ lock' = LockBooking(b, me.price)
    /\ ledger' = ProcessTransaction(b, me.price, "ESCROW_HOLD", TRUE)
    /\ request' = [request EXCEPT ![r] =
            [at |-> "created", booking |-> b, price |-> me.price]]

\* booking_instance.save() writes every field of the object in memory.
CreateSave(r) ==
    LET me == request[r] IN
    /\ me.at = "created"
    /\ booking' = [booking EXCEPT ![me.booking] =
            [booking_status |-> "Funded", price |-> me.price, is_active |-> TRUE]]
    /\ request' = [request EXCEPT ![r] = Idle]
    /\ UNCHANGED <<balance, lock, ledger>>

-----------------------------------------------------------------------------
(* PATCH /bookings/<id>/accept/ and /reject/                               *)

\* serializers.py:156 compares the URL's action, "accept", with 'ACCEPT'.
UrlAction == "accept"
FundedGuard(action, status) == ~ (action = "ACCEPT" /\ status # "Funded")

AcceptRead(r, b) ==
    /\ request[r] = Idle
    /\ Exists(b)
    /\ FundedGuard(UrlAction, booking[b].booking_status)
    /\ booking[b].booking_status # "In_progress"
    /\ request' = [request EXCEPT ![r] = [at |-> "accepting", booking |-> b]]
    /\ UNCHANGED <<balance, booking, lock, ledger>>

\* Bookings.accept_booking saves the status without reading it again.
AcceptWrite(r) ==
    LET me == request[r] IN
    /\ me.at = "accepting"
    /\ booking' = [booking EXCEPT ![me.booking].booking_status = "In_progress"]
    /\ request' = [request EXCEPT ![r] = Idle]
    /\ UNCHANGED <<balance, lock, ledger>>

RejectRead(r, b) ==
    /\ request[r] = Idle
    /\ Exists(b)
    /\ booking[b].booking_status # "Cancelled"
    /\ request' = [request EXCEPT ![r] =
            [at |-> "rejecting", booking |-> b, price |-> booking[b].price]]
    /\ UNCHANGED <<balance, booking, lock, ledger>>

\* BookingService.cancel_booking: one atomic block, in which a refund that
\* raises is logged and recorded as FAILED while the cancellation commits.
RejectCommit(r) ==
    LET me == request[r]
        b == me.booking
        refund == Refundable(b, me.price)
    IN
    /\ me.at = "rejecting"
    /\ booking' = [booking EXCEPT ![b].booking_status = "Cancelled",
                                  ![b].is_active = FALSE]
    /\ IF refund
       THEN /\ balance' = CreditUserWallet(CustomerOf[b], me.price)
            /\ lock' = [lock EXCEPT ![b].state = "released"]
       ELSE UNCHANGED <<balance, lock>>
    /\ ledger' = ProcessTransaction(b, booking[b].price, "REFUND", refund)
    /\ request' = [request EXCEPT ![r] = Idle]

-----------------------------------------------------------------------------
(* PATCH and DELETE /bookings/<id>/: the whole view is one atomic block.   *)

\* partial_update -> BookingCreateSerializer.update, with a price given.
PatchBooking(b, price) ==
    /\ Exists(b)
    /\ Covers(CustomerOf[b], price)
    /\ booking' = [booking EXCEPT ![b].price = price]
    /\ repriced' = IF price = booking[b].price THEN repriced ELSE repriced \cup {b}
    /\ UNCHANGED <<balance, lock, ledger, request>>

\* destroy -> Bookings.soft_delete: the lock is not touched.
DeleteBooking(b) ==
    /\ Exists(b)
    /\ booking' = [booking EXCEPT ![b].is_active = FALSE]
    /\ UNCHANGED <<balance, lock, ledger, request>>

\* The thread dies, or a statement or a notification raises: what its last
\* commit wrote stays, an atomic block that had not committed leaves nothing.
RequestFails(r) ==
    /\ request[r] # Idle
    /\ request' = [request EXCEPT ![r] = Idle]
    /\ UNCHANGED <<balance, booking, lock, ledger>>

-----------------------------------------------------------------------------

CreateStep(r) ==
    \/ \E c \in Customers, price \in Prices : CreateValidate(r, c, price)
    \/ \E b \in BookingIds : CreateCommit(r, b)
    \/ CreateSave(r)

AcceptStep(r) == AcceptWrite(r) \/ \E b \in BookingIds : AcceptRead(r, b)

RejectStep(r) == RejectCommit(r) \/ \E b \in BookingIds : RejectRead(r, b)

Next ==
    \/ /\ \/ \E r \in Requests :
              CreateStep(r) \/ AcceptStep(r) \/ RejectStep(r) \/ RequestFails(r)
          \/ \E b \in BookingIds : DeleteBooking(b)
       /\ UNCHANGED repriced
    \/ \E b \in BookingIds, price \in Prices : PatchBooking(b, price)

Spec == Init /\ [][Next]_vars

-----------------------------------------------------------------------------
(* Properties.                                                             *)

\* Every row, lock, ledger entry and request has the shape the code gives it.
TypeOK ==
    /\ balance \in [Customers -> Int]
    /\ booking \in [BookingIds -> {NoRow} \cup Row]
    /\ lock \in [BookingIds -> LockedWallet]
    /\ ledger \in [BookingIds -> SUBSET BookingTransaction]
    /\ request \in
        [Requests -> {Idle} \cup Validated \cup Created \cup Accepting \cup Rejecting]
    /\ repriced \subseteq BookingIds

\* Nothing but the refund of a booking at a negative price can leave a wallet
\* overdrawn: its creation adds to the wallet what its rejection takes away
\* again, spent or not.  Stale reads cannot: validate_price checks one read of
\* the balance and deduct_user_balance writes from that same read in a later
\* transaction, whatever other requests did in between (wallet/services.py:56).
TakesBack(b) == lock[b].state = "released" /\ lock[b].amount < 0

NoOverdraft ==
    \A c \in Customers :
        balance[c] < 0 => \E b \in BookingIds : CustomerOf[b] = c /\ TakesBack(b)

\* The booking's ledger tells the truth about its money: a booking exists
\* with exactly one ESCROW_HOLD row, for what its lock holds, and has a
\* COMPLETED REFUND row exactly when the lock was released, whatever
\* requests overlapped or died on the way (bookings/services.py:67-130).
HoldRows(b) == {row \in ledger[b] : row.type = "ESCROW_HOLD"}

Refunded(b) ==
    \E row \in ledger[b] : row.type = "REFUND" /\ row.status = "COMPLETED"

TellsEscrow(b) ==
    /\ Exists(b) <=> lock[b].state # "none"
    /\ HoldRows(b) =
          IF Exists(b)
          THEN {[type |-> "ESCROW_HOLD", status |-> "COMPLETED",
                 amount |-> lock[b].amount]}
          ELSE {}
    /\ Refunded(b) <=> lock[b].state = "released"

LedgerTellsEscrow == \A b \in BookingIds : TellsEscrow(b)

\* A wallet moves only together with one of its locks: when a booking is
\* locked, down by the locked amount from a balance that its request read;
\* when a lock is released, up by exactly that amount.  No lock is released
\* twice, reopened or resized: overlapping rejects of one booking refund it
\* once (wallet/services.py:31-46).
Opens(b) ==
    /\ lock[b].state = "none"
    /\ lock'[b].state = "held"
    /\ \E r \in Requests :
        /\ request[r].at = "validated"
        /\ balance'[CustomerOf[b]] = request[r].balance - lock'[b].amount

Releases(b) ==
    /\ lock[b].state = "held"
    /\ lock'[b] = [lock[b] EXCEPT !.state = "released"]
    /\ balance'[CustomerOf[b]] = balance[CustomerOf[b]] + lock[b].amount

WalletMovesWithLock(c) ==
    balance'[c] # balance[c] =>
        \E b \in BookingIds : CustomerOf[b] = c /\ (Opens(b) \/ Releases(b))

LockMovesWithWallet(b) == lock'[b] # lock[b] => Opens(b) \/ Releases(b)

EachLockPaysOnce ==
    [][/\ \A c \in Customers : WalletMovesWithLock(c)
       /\ \A b \in BookingIds : LockMovesWithWallet(b)]_vars

\* What create_booking's comment promises (services.py:74), see EscrowPromise.
Promise == INSTANCE EscrowPromise WITH escrow <- lock
KeepsPromise == Promise!Spec

\* A cancelled booking has been refunded: the rejection e-mail always says
\* "refund_status": "full" (bookings/email_data.py:71).
CancelledMeansRefunded ==
    \A b \in BookingIds :
        booking[b].booking_status = "Cancelled" => lock[b].state = "released"

\* Only a PATCH of the price can cost the customer that refund: a refund asks
\* for the price its request has read, and refund_booking compares it with
\* what is locked (wallet/services.py:31), however requests overlap or die.
UnchangedPriceRefunded ==
    \A b \in BookingIds \ repriced :
        booking[b].booking_status = "Cancelled" => lock[b].state = "released"

\* "You can only update funded booking" (bookings/serializers.py:157): a
\* booking goes to In_progress from Funded only.
AcceptsOnlyFunded ==
    [][\A b \in BookingIds :
        \/ booking'[b].booking_status # "In_progress"
        \/ booking[b].booking_status \in {"Funded", "In_progress"}]_vars

=============================================================================
