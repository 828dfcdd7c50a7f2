------------------------- MODULE BookingEscrowProofs -------------------------
(***************************************************************************)
(* What BookingEscrow guarantees for every number of customers, bookings   *)
(* and overlapping requests, every set of prices, negative ones included,  *)
(* and every opening balance.                                              *)
(***************************************************************************)
EXTENDS BookingEscrow, TLAPS

\* What a request remembers stays true while other requests run: the balance
\* it read covers its price, and the booking it works on keeps its row.
RequestsKnow ==
    \A r \in Requests :
        /\ request[r].at = "validated" => request[r].price <= request[r].balance
        /\ request[r].at \in {"created", "accepting", "rejecting"} =>
              Exists(request[r].booking)

\* The inductive invariant: NoOverdraft needs what the validated requests
\* remember, LedgerTellsEscrow needs that writes hit existing rows.
IInv == TypeOK /\ NoOverdraft /\ LedgerTellsEscrow /\ RequestsKnow

-----------------------------------------------------------------------------

\* Where a request stands determines which record it is.
LEMMA RequestShape ==
    ASSUME TypeOK, NEW r \in Requests
    PROVE  /\ request[r].at = "validated" => request[r] \in Validated
           /\ request[r].at = "created" => request[r] \in Created
           /\ request[r].at = "accepting" => request[r] \in Accepting
           /\ request[r].at = "rejecting" => request[r] \in Rejecting
BY DEF TypeOK, Idle, Validated, Created, Accepting, Rejecting

\* Whichever process moves, its action is one of these.
LEMMA NextCases ==
    ASSUME Next
    PROVE  \/ \E r \in Requests, c \in Customers, price \in Prices :
                  CreateValidate(r, c, price)
           \/ \E r \in Requests, b \in BookingIds : CreateCommit(r, b)
           \/ \E r \in Requests : CreateSave(r)
           \/ \E r \in Requests, b \in BookingIds : AcceptRead(r, b)
           \/ \E r \in Requests : AcceptWrite(r)
           \/ \E r \in Requests, b \in BookingIds : RejectRead(r, b)
           \/ \E r \in Requests : RejectCommit(r)
           \/ \E r \in Requests : RequestFails(r)
           \/ \E b \in BookingIds, price \in Prices : PatchBooking(b, price)
           \/ \E b \in BookingIds : DeleteBooking(b)
BY DEF Next, CreateStep, AcceptStep, RejectStep

\* Bookings become repriced and stay so.
LEMMA RepricedMoves ==
    ASSUME [Next]_vars
    PROVE  /\ repriced \subseteq repriced'
           /\ repriced \subseteq BookingIds => repriced' \subseteq BookingIds
<1>1. ASSUME NEW b \in BookingIds, NEW price \in Prices, PatchBooking(b, price)
      PROVE  repriced' = repriced \/ repriced' = repriced \cup {b}
  BY <1>1 DEF PatchBooking
<1>2. QED
  BY <1>1 DEF Next, vars

\* Writing a status, and is_active, into what booking[b] holds gives a row.
LEMMA RowUpdate ==
    ASSUME TypeOK, NEW b \in BookingIds, NEW s \in Statuses
    PROVE  /\ [booking[b] EXCEPT !.booking_status = s] \in Row
           /\ [booking[b] EXCEPT !.booking_status = s, !.is_active = FALSE] \in Row
<1> DEFINE Shape == [booking_status : Statuses \cup {"Absent"}, price : Int,
                     is_active : BOOLEAN]
<1>1. NoRow \in Shape
  BY DEF NoRow
<1>2. Row \subseteq Shape
  BY DEF Row
<1>3. booking[b] \in Shape
  BY <1>1, <1>2 DEF TypeOK
<1>4. QED
  BY <1>3 DEF Row

\* The shapes are right at the start.
LEMMA TypeInit == Init => TypeOK
BY EscrowAssumption DEF Init, TypeOK, NoLock, LockedWallet, Idle

\* Every step keeps the shapes.
LEMMA TypeStep == TypeOK /\ [Next]_vars => TypeOK'
<1> SUFFICES ASSUME TypeOK, [Next]_vars PROVE TypeOK'
  OBVIOUS
<1> USE EscrowAssumption
<1>a. repriced' \subseteq BookingIds
  BY RepricedMoves DEF TypeOK
<1>1. ASSUME NEW r \in Requests, NEW c \in Customers, NEW price \in Prices,
             CreateValidate(r, c, price)
      PROVE  TypeOK'
  <2>1. price \in Int
    OBVIOUS
  <2>2. balance[c] \in Int
    BY DEF TypeOK
  <2>3. [at |-> "validated", customer |-> c, price |-> price,
         balance |-> balance[c]] \in Validated
    BY <2>1, <2>2 DEF Validated
  <2>4. QED
    BY <1>a, <1>1, <2>3 DEF CreateValidate, TypeOK
<1>2. ASSUME NEW r \in Requests, NEW b \in BookingIds, CreateCommit(r, b)
      PROVE  TypeOK'
  <2>1. request[r] \in Validated
    BY <1>2, RequestShape DEF CreateCommit
  <2>2. booking' \in [BookingIds -> {NoRow} \cup Row]
    BY <1>2, <2>1 DEF CreateCommit, TypeOK, Validated, Row, Statuses
  <2>3. balance' \in [Customers -> Int]
    BY <1>2, <2>1 DEF CreateCommit, DeductUserBalance, TypeOK, Validated
  <2>4. lock' \in [BookingIds -> LockedWallet]
    BY <1>2, <2>1 DEF CreateCommit, LockBooking, LockedWallet, TypeOK, Validated
  <2>5. ledger' \in [BookingIds -> SUBSET BookingTransaction]
    BY <1>2, <2>1 DEF CreateCommit, ProcessTransaction, BookingTransaction,
                      TypeOK, Validated
  <2>6. [at |-> "created", booking |-> b, price |-> request[r].price] \in Created
    BY <2>1 DEF Created, Validated
  <2>7. QED
    BY <1>a, <1>2, <2>2, <2>3, <2>4, <2>5, <2>6 DEF CreateCommit, TypeOK
<1>3. ASSUME NEW r \in Requests, CreateSave(r)
      PROVE  TypeOK'
  <2>1. request[r] \in Created
    BY <1>3, RequestShape DEF CreateSave
  <2>2. QED
    BY <1>a, <1>3, <2>1 DEF CreateSave, TypeOK, Created, Row, Statuses
<1>4. ASSUME NEW r \in Requests, NEW b \in BookingIds, AcceptRead(r, b)
      PROVE  TypeOK'
  BY <1>a, <1>4 DEF AcceptRead, TypeOK, Accepting
<1>5. ASSUME NEW r \in Requests, AcceptWrite(r)
      PROVE  TypeOK'
  <2>1. request[r] \in Accepting
    BY <1>5, RequestShape DEF AcceptWrite
  <2>2. /\ request[r].booking \in BookingIds
        /\ [booking[request[r].booking] EXCEPT !.booking_status = "In_progress"] \in Row
    BY <2>1, RowUpdate DEF Accepting, Statuses
  <2>3. booking' \in [BookingIds -> {NoRow} \cup Row]
    BY <1>5, <2>2 DEF AcceptWrite, TypeOK
  <2>4. QED
    BY <1>a, <1>5, <2>3 DEF AcceptWrite, TypeOK
<1>6. ASSUME NEW r \in Requests, NEW b \in BookingIds, RejectRead(r, b)
      PROVE  TypeOK'
  <2>1. [at |-> "rejecting", booking |-> b, price |-> booking[b].price] \in Rejecting
    BY DEF TypeOK, Rejecting, Row, NoRow
  <2>2. QED
    BY <1>a, <1>6, <2>1 DEF RejectRead, TypeOK
<1>7. ASSUME NEW r \in Requests, RejectCommit(r)
      PROVE  TypeOK'
  <2>1. /\ request[r] \in Rejecting
        /\ request[r].booking \in BookingIds
        /\ request[r].price \in Int
        /\ booking[request[r].booking].price \in Int
    BY <1>7, RequestShape DEF RejectCommit, Rejecting, TypeOK, Row, NoRow
  <2>2. booking' \in [BookingIds -> {NoRow} \cup Row]
    <3>1. [booking[request[r].booking] EXCEPT !.booking_status = "Cancelled",
                                              !.is_active = FALSE] \in Row
      BY <2>1, RowUpdate DEF Statuses
    <3>2. QED
      BY <1>7, <2>1, <3>1 DEF RejectCommit, TypeOK
  <2>3. balance' \in [Customers -> Int]
    BY <1>7, <2>1 DEF RejectCommit, CreditUserWallet, TypeOK
  <2>4. lock' \in [BookingIds -> LockedWallet]
    <3> DEFINE released == [lock[request[r].booking] EXCEPT !.state = "released"]
    <3>1. lock \in [BookingIds -> LockedWallet] /\ lock[request[r].booking] \in LockedWallet
      BY <2>1 DEF TypeOK
    <3>2. released \in LockedWallet
      BY <3>1 DEF LockedWallet
    <3>3. lock' = lock \/ lock' = [lock EXCEPT ![request[r].booking] = released]
      BY <1>7 DEF RejectCommit
    <3> HIDE DEF released
    <3>4. QED
      BY <2>1, <3>1, <3>2, <3>3
  <2>5. ledger' \in [BookingIds -> SUBSET BookingTransaction]
    BY <1>7, <2>1 DEF RejectCommit, ProcessTransaction, BookingTransaction, TypeOK
  <2>6. QED
    BY <1>a, <1>7, <2>2, <2>3, <2>4, <2>5 DEF RejectCommit, TypeOK
<1>8. ASSUME NEW r \in Requests, RequestFails(r)
      PROVE  TypeOK'
  BY <1>a, <1>8 DEF RequestFails, TypeOK
<1>9. ASSUME NEW b \in BookingIds, NEW price \in Prices, PatchBooking(b, price)
      PROVE  TypeOK'
  BY <1>a, <1>9 DEF PatchBooking, TypeOK, Row, NoRow, Exists
<1>10. ASSUME NEW b \in BookingIds, DeleteBooking(b)
       PROVE  TypeOK'
  <2>1. booking[b] \in Row
    BY <1>10 DEF DeleteBooking, TypeOK, NoRow, Exists
  <2>2. [booking[b] EXCEPT !.is_active = FALSE] \in Row
    BY <2>1 DEF Row
  <2>3. QED
    BY <1>a, <1>10, <2>2 DEF DeleteBooking, TypeOK
<1>11. CASE UNCHANGED vars
  BY <1>a, <1>11 DEF vars, TypeOK
<1>12. QED
  BY <1>1, <1>2, <1>3, <1>4, <1>5, <1>6, <1>7, <1>8, <1>9, <1>10, <1>11, NextCases

\* Type correctness of every reachable state.
THEOREM TypeCorrect == Spec => []TypeOK
<1>1. QED
  BY TypeInit, TypeStep, PTL DEF Spec

-----------------------------------------------------------------------------

\* What requests remember is kept by every step.
LEMMA RequestsKnowStep == TypeOK /\ RequestsKnow /\ [Next]_vars => RequestsKnow'
<1> SUFFICES ASSUME TypeOK, RequestsKnow, [Next]_vars PROVE RequestsKnow'
  OBVIOUS
<1> USE EscrowAssumption
<1>1. ASSUME NEW r \in Requests, NEW c \in Customers, NEW price \in Prices,
             CreateValidate(r, c, price)
      PROVE  RequestsKnow'
  <2>1. price <= balance[c]
    BY <1>1 DEF CreateValidate, Covers, TypeOK
  <2>2. QED
    BY <1>1, <2>1 DEF CreateValidate, RequestsKnow, TypeOK, Exists
<1>2. ASSUME NEW r \in Requests, NEW b \in BookingIds, CreateCommit(r, b)
      PROVE  RequestsKnow'
  BY <1>2 DEF CreateCommit, RequestsKnow, TypeOK, Exists
<1>3. ASSUME NEW r \in Requests, CreateSave(r)
      PROVE  RequestsKnow'
  BY <1>3 DEF CreateSave, RequestsKnow, TypeOK, Exists, Idle
<1>4. ASSUME NEW r \in Requests, NEW b \in BookingIds, AcceptRead(r, b)
      PROVE  RequestsKnow'
  BY <1>4 DEF AcceptRead, RequestsKnow, TypeOK, Exists
<1>5. ASSUME NEW r \in Requests, AcceptWrite(r)
      PROVE  RequestsKnow'
  BY <1>5 DEF AcceptWrite, RequestsKnow, TypeOK, Exists, Idle
<1>6. ASSUME NEW r \in Requests, NEW b \in BookingIds, RejectRead(r, b)
      PROVE  RequestsKnow'
  BY <1>6 DEF RejectRead, RequestsKnow, TypeOK, Exists
<1>7. ASSUME NEW r \in Requests, RejectCommit(r)
      PROVE  RequestsKnow'
  <2>1. /\ request' = [request EXCEPT ![r] = Idle]
        /\ booking' = [booking EXCEPT ![request[r].booking].booking_status = "Cancelled",
                                      ![request[r].booking].is_active = FALSE]
    BY <1>7 DEF RejectCommit
  <2>2. \A b \in BookingIds : Exists(b) => Exists(b)'
    BY <2>1 DEF Exists, TypeOK, Row, NoRow
  <2>3. \A other \in Requests : other # r => request'[other] = request[other]
    BY <2>1 DEF TypeOK
  <2>4. request'[r] = Idle
    BY <2>1 DEF TypeOK
  <2>5. \A other \in Requests :
           request[other].at \in {"created", "accepting", "rejecting"} =>
              request[other].booking \in BookingIds
    BY RequestShape DEF Created, Accepting, Rejecting
  <2>6. QED
    BY <2>2, <2>3, <2>4, <2>5 DEF RequestsKnow, Idle
<1>8. ASSUME NEW r \in Requests, RequestFails(r)
      PROVE  RequestsKnow'
  BY <1>8 DEF RequestFails, RequestsKnow, TypeOK, Exists, Idle
<1>9. ASSUME NEW b \in BookingIds, NEW price \in Prices, PatchBooking(b, price)
      PROVE  RequestsKnow'
  BY <1>9 DEF PatchBooking, RequestsKnow, TypeOK, Exists
<1>10. ASSUME NEW b \in BookingIds, DeleteBooking(b)
       PROVE  RequestsKnow'
  BY <1>10 DEF DeleteBooking, RequestsKnow, TypeOK, Exists
<1>11. CASE UNCHANGED vars
  BY <1>11 DEF vars, RequestsKnow, Exists
<1>12. QED
  BY <1>1, <1>2, <1>3, <1>4, <1>5, <1>6, <1>7, <1>8, <1>9, <1>10, <1>11, NextCases

\* A lock that was released stays as it is: a new lock is only made for a
\* booking without a row, and a refund needs a lock that is held.
LEMMA ReleasedStays ==
    ASSUME TypeOK, RequestsKnow, LedgerTellsEscrow, [Next]_vars,
           NEW b \in BookingIds, lock[b].state = "released"
    PROVE  lock'[b] = lock[b]
<1>1. Exists(b)
  BY DEF LedgerTellsEscrow, TellsEscrow
<1>2. ASSUME NEW r \in Requests, NEW other \in BookingIds, CreateCommit(r, other)
      PROVE  lock'[b] = lock[b]
  <2>1. other # b
    BY <1>1, <1>2 DEF CreateCommit
  <2>2. QED
    BY <1>2, <2>1 DEF CreateCommit, LockBooking, TypeOK
<1>3. ASSUME NEW r \in Requests, RejectCommit(r)
      PROVE  lock'[b] = lock[b]
  <2>1. CASE Refundable(request[r].booking, request[r].price)
    <3>1. request[r].booking # b
      BY <2>1 DEF Refundable
    <3>2. QED
      BY <1>3, <2>1, <3>1 DEF RejectCommit, TypeOK
  <2>2. CASE ~ Refundable(request[r].booking, request[r].price)
    BY <1>3, <2>2 DEF RejectCommit
  <2>3. QED
    BY <2>1, <2>2
<1>4. CASE UNCHANGED lock
  BY <1>4
<1>5. QED
  BY <1>2, <1>3, <1>4, NextCases
     DEF CreateValidate, CreateSave, AcceptRead, AcceptWrite, RejectRead,
         RequestFails, PatchBooking, DeleteBooking, vars

\* Only CreateCommit and RejectCommit move a balance.  The former writes what
\* was read minus a price that it covered; the latter lowers the balance only
\* when it releases a lock of a negative amount.
LEMMA NoOverdraftStep ==
    TypeOK /\ RequestsKnow /\ LedgerTellsEscrow /\ NoOverdraft /\ [Next]_vars
        => NoOverdraft'
<1> SUFFICES ASSUME TypeOK, RequestsKnow, LedgerTellsEscrow, NoOverdraft, [Next]_vars,
                    NEW c \in Customers, balance'[c] < 0
             PROVE  \E b \in BookingIds : CustomerOf[b] = c /\ TakesBack(b)'
  BY DEF NoOverdraft
<1> USE EscrowAssumption
<1>a. ASSUME balance[c] < 0
      PROVE  \E b \in BookingIds : CustomerOf[b] = c /\ TakesBack(b)'
  <2>1. PICK b \in BookingIds : CustomerOf[b] = c /\ TakesBack(b)
    BY <1>a DEF NoOverdraft
  <2>2. lock'[b] = lock[b]
    BY <2>1, ReleasedStays DEF TakesBack
  <2>3. QED
    BY <2>1, <2>2 DEF TakesBack
<1>1. ASSUME NEW r \in Requests, NEW b \in BookingIds, CreateCommit(r, b)
      PROVE  balance[c] < 0
  <2>1. /\ request[r] \in Validated
        /\ request[r].price <= request[r].balance
    BY <1>1, RequestShape DEF CreateCommit, RequestsKnow
  <2>2. balance' = [balance EXCEPT ![request[r].customer] =
                        request[r].balance - request[r].price]
    BY <1>1 DEF CreateCommit, DeductUserBalance
  <2>3. /\ request[r].balance - request[r].price \in Int
        /\ request[r].balance - request[r].price >= 0
    BY <2>1 DEF Validated
  <2>4. c = request[r].customer => balance'[c] = request[r].balance - request[r].price
    BY <2>2 DEF TypeOK
  <2>5. c # request[r].customer
    BY <2>3, <2>4
  <2>6. QED
    BY <2>2, <2>5 DEF TypeOK
<1>2. ASSUME NEW r \in Requests, RejectCommit(r), ~ balance[c] < 0
      PROVE  \E b \in BookingIds : CustomerOf[b] = c /\ TakesBack(b)'
  <2>0. request[r].booking \in BookingIds /\ request[r].price \in Int
    BY <1>2, RequestShape DEF RejectCommit, Rejecting
  <2>1. PICK b \in BookingIds : b = request[r].booking
    BY <2>0
  <2>2. Refundable(b, request[r].price)
    BY <1>2, <2>1 DEF RejectCommit
  <2>3. balance' = [balance EXCEPT ![CustomerOf[b]] = @ + request[r].price]
    BY <1>2, <2>1, <2>2 DEF RejectCommit, CreditUserWallet
  <2>4. c = CustomerOf[b]
    BY <1>2, <2>1, <2>3 DEF TypeOK
  <2>5. balance'[c] = balance[c] + request[r].price
    BY <2>1, <2>3, <2>4 DEF TypeOK
  <2>6. request[r].price < 0
    BY <1>2, <2>0, <2>5 DEF TypeOK
  <2>7. lock'[b] = [lock[b] EXCEPT !.state = "released"]
    BY <1>2, <2>1, <2>2 DEF RejectCommit, TypeOK
  <2>8. lock[b] \in LockedWallet /\ lock[b].amount = request[r].price
    BY <2>1, <2>2 DEF Refundable, TypeOK
  <2>9. lock'[b].state = "released" /\ lock'[b].amount = request[r].price
    BY <2>7, <2>8 DEF LockedWallet
  <2>10. TakesBack(b)'
    BY <2>6, <2>9 DEF TakesBack
  <2>11. QED
    BY <2>1, <2>4, <2>10
<1>3. CASE UNCHANGED balance
  BY <1>a, <1>3
<1>4. QED
  BY <1>a, <1>1, <1>2, <1>3, NextCases
     DEF CreateValidate, CreateSave, AcceptRead, AcceptWrite, RejectRead,
         RequestFails, PatchBooking, DeleteBooking, vars

-----------------------------------------------------------------------------

\* A step that leaves a booking's row present or absent, and its lock and
\* ledger alone, leaves what the ledger tells about it alone.
LEMMA TellsEscrowKept ==
    ASSUME NEW b \in BookingIds, TellsEscrow(b),
           Exists(b)' <=> Exists(b), lock'[b] = lock[b], ledger'[b] = ledger[b]
    PROVE  TellsEscrow(b)'
BY DEF TellsEscrow, HoldRows, Refunded

\* Every step keeps the ledger telling where the money is.
LEMMA LedgerStep ==
    TypeOK /\ RequestsKnow /\ LedgerTellsEscrow /\ [Next]_vars
        => LedgerTellsEscrow'
<1> SUFFICES ASSUME TypeOK, RequestsKnow, LedgerTellsEscrow, [Next]_vars,
                    NEW b \in BookingIds
             PROVE  TellsEscrow(b)'
  BY DEF LedgerTellsEscrow
<1> TellsEscrow(b)
  BY DEF LedgerTellsEscrow
<1>1. ASSUME NEW r \in Requests, CreateCommit(r, b)
      PROVE  TellsEscrow(b)'
  <2> DEFINE price == request[r].price
             hold == [type |-> "ESCROW_HOLD", status |-> "COMPLETED", amount |-> price]
  <2>1. /\ lock'[b] = [state |-> "held", amount |-> price]
        /\ ledger'[b] = ledger[b] \cup {hold}
    BY <1>1 DEF CreateCommit, LockBooking, ProcessTransaction, TypeOK
  <2>2. Exists(b)'
    BY <1>1 DEF CreateCommit, Exists, TypeOK
  <2>3. HoldRows(b) = {} /\ ~ Refunded(b)
    BY <1>1 DEF CreateCommit, TellsEscrow
  <2>4. HoldRows(b)' = {hold}
    BY <2>1, <2>3 DEF HoldRows
  <2>5. ~ Refunded(b)'
    BY <2>1, <2>3 DEF Refunded
  <2>6. QED
    BY <2>1, <2>2, <2>4, <2>5 DEF TellsEscrow
<1>2. ASSUME NEW r \in Requests, RejectCommit(r), b = request[r].booking
      PROVE  TellsEscrow(b)'
  <2> DEFINE refund == Refundable(b, request[r].price)
             row == [type |-> "REFUND", status |-> IF refund THEN "COMPLETED" ELSE "FAILED",
                     amount |-> booking[b].price]
  <2>1. Exists(b) /\ Exists(b)'
    <3>1. Exists(b)
      BY <1>2 DEF RejectCommit, RequestsKnow
    <3>2. booking'[b].booking_status = "Cancelled"
      BY <1>2 DEF RejectCommit, TypeOK, Row, NoRow
    <3>3. QED
      BY <3>1, <3>2 DEF Exists
  <2>2. /\ ledger'[b] = ledger[b] \cup {row}
        /\ lock'[b].amount = lock[b].amount
        /\ lock'[b].state = IF refund THEN "released" ELSE lock[b].state
    BY <1>2 DEF RejectCommit, ProcessTransaction, TypeOK, LockedWallet
  <2>3. HoldRows(b)' = HoldRows(b)
    BY <2>2 DEF HoldRows
  <2>4. Refunded(b)' <=> Refunded(b) \/ refund
    <3>1. row.type = "REFUND" /\ (row.status = "COMPLETED" <=> refund)
      OBVIOUS
    <3>2. QED
      BY <2>2, <3>1 DEF Refunded
  <2>5. QED
    BY <2>1, <2>2, <2>3, <2>4 DEF TellsEscrow, Refundable
<1>3. ASSUME Exists(b)' <=> Exists(b), lock'[b] = lock[b], ledger'[b] = ledger[b]
      PROVE  TellsEscrow(b)'
  BY <1>3, TellsEscrowKept
<1>4. ASSUME NEW r \in Requests, NEW other \in BookingIds,
             CreateCommit(r, other), b # other
      PROVE  TellsEscrow(b)'
  BY <1>3, <1>4 DEF CreateCommit, LockBooking, ProcessTransaction, Exists, TypeOK
<1>5. ASSUME NEW r \in Requests, RejectCommit(r), b # request[r].booking
      PROVE  TellsEscrow(b)'
  BY <1>3, <1>5 DEF RejectCommit, ProcessTransaction, Exists, TypeOK
<1>6. ASSUME NEW r \in Requests, CreateSave(r)
      PROVE  TellsEscrow(b)'
  BY <1>3, <1>6 DEF CreateSave, RequestsKnow, Exists, TypeOK
<1>7. ASSUME NEW r \in Requests, AcceptWrite(r)
      PROVE  TellsEscrow(b)'
  <2>1. b = request[r].booking => Exists(b)
    BY <1>7 DEF AcceptWrite, RequestsKnow
  <2>2. b = request[r].booking => booking'[b].booking_status = "In_progress"
    BY <1>7 DEF AcceptWrite, TypeOK, Row, NoRow
  <2>3. b # request[r].booking => booking'[b] = booking[b]
    BY <1>7 DEF AcceptWrite, TypeOK
  <2>4. QED
    BY <1>3, <1>7, <2>1, <2>2, <2>3 DEF AcceptWrite, Exists
<1>8. ASSUME NEW other \in BookingIds, NEW price \in Prices, PatchBooking(other, price)
      PROVE  TellsEscrow(b)'
  BY <1>3, <1>8 DEF PatchBooking, Exists, TypeOK, Row, NoRow
<1>9. ASSUME NEW other \in BookingIds, DeleteBooking(other)
      PROVE  TellsEscrow(b)'
  BY <1>3, <1>9 DEF DeleteBooking, Exists, TypeOK, Row, NoRow
<1>10. CASE UNCHANGED <<booking, lock, ledger>>
  BY <1>3, <1>10 DEF Exists
<1>11. QED
  BY <1>1, <1>2, <1>4, <1>5, <1>6, <1>7, <1>8, <1>9, <1>10, NextCases
     DEF CreateValidate, AcceptRead, RejectRead, RequestFails, vars

-----------------------------------------------------------------------------

\* The invariant holds at the start.
LEMMA InvInit == Init => IInv
<1>1. Init => RequestsKnow /\ NoOverdraft
  BY EscrowAssumption DEF Init, RequestsKnow, NoOverdraft, Idle
<1>2. Init => LedgerTellsEscrow
  BY DEF Init, LedgerTellsEscrow, TellsEscrow, HoldRows, Refunded, Exists,
         NoRow, NoLock
<1>3. QED
  BY <1>1, <1>2, TypeInit DEF IInv

\* Every step keeps the invariant.
LEMMA InvStep == IInv /\ [Next]_vars => IInv'
BY TypeStep, RequestsKnowStep, NoOverdraftStep, LedgerStep DEF IInv

\* The inductive invariant holds in every reachable state.
THEOREM InvariantHolds == Spec => []IInv
<1>1. QED
  BY InvInit, InvStep, PTL DEF Spec

\* Whatever requests overlap, a wallet is overdrawn only after a booking at a
\* negative price was refunded.
THEOREM NeverOverdrawn == Spec => []NoOverdraft
<1>1. IInv => NoOverdraft
  BY DEF IInv
<1>2. QED
  BY <1>1, InvariantHolds, PTL

\* A booking's ledger rows always agree with its lock.
THEOREM LedgerAlwaysTellsEscrow == Spec => []LedgerTellsEscrow
<1>1. IInv => LedgerTellsEscrow
  BY DEF IInv
<1>2. QED
  BY <1>1, InvariantHolds, PTL

-----------------------------------------------------------------------------

\* Every step moves wallets and locks together.
LEMMA PaysOnceStep ==
    ASSUME TypeOK, LedgerTellsEscrow, [Next]_vars
    PROVE  /\ \A c \in Customers : WalletMovesWithLock(c)
           /\ \A b \in BookingIds : LockMovesWithWallet(b)
<1> USE EscrowAssumption
<1>1. ASSUME NEW r \in Requests, NEW b \in BookingIds, CreateCommit(r, b)
      PROVE  /\ \A c \in Customers : WalletMovesWithLock(c)
             /\ \A x \in BookingIds : LockMovesWithWallet(x)
  <2>1. request[r] \in Validated /\ CustomerOf[b] = request[r].customer
    BY <1>1, RequestShape DEF CreateCommit
  <2>2. lock[b].state = "none"
    BY <1>1 DEF CreateCommit, LedgerTellsEscrow, TellsEscrow
  <2>3. /\ lock'[b] = [state |-> "held", amount |-> request[r].price]
        /\ \A x \in BookingIds : x # b => lock'[x] = lock[x]
    BY <1>1 DEF CreateCommit, LockBooking, TypeOK
  <2>4. /\ balance'[CustomerOf[b]] = request[r].balance - request[r].price
        /\ \A c \in Customers : c # CustomerOf[b] => balance'[c] = balance[c]
    BY <1>1, <2>1 DEF CreateCommit, DeductUserBalance, TypeOK, Validated
  <2>5. Opens(b)
    BY <1>1, <2>2, <2>3, <2>4 DEF Opens, CreateCommit
  <2>6. QED
    BY <2>3, <2>4, <2>5 DEF WalletMovesWithLock, LockMovesWithWallet
<1>2. ASSUME NEW r \in Requests, RejectCommit(r)
      PROVE  /\ \A c \in Customers : WalletMovesWithLock(c)
             /\ \A x \in BookingIds : LockMovesWithWallet(x)
  <2> DEFINE b == request[r].booking
  <2>1. b \in BookingIds
    BY <1>2, RequestShape DEF RejectCommit, Rejecting
  <2>2. CASE Refundable(b, request[r].price)
    <3>1. lock[b].state = "held" /\ lock[b].amount = request[r].price
      BY <2>2 DEF Refundable
    <3>2. /\ lock'[b] = [lock[b] EXCEPT !.state = "released"]
          /\ \A x \in BookingIds : x # b => lock'[x] = lock[x]
      BY <1>2, <2>1, <2>2 DEF RejectCommit, TypeOK
    <3>3. /\ balance'[CustomerOf[b]] = balance[CustomerOf[b]] + lock[b].amount
          /\ \A c \in Customers : c # CustomerOf[b] => balance'[c] = balance[c]
      BY <1>2, <2>1, <2>2, <3>1 DEF RejectCommit, CreditUserWallet, TypeOK
    <3>4. Releases(b)
      BY <3>1, <3>2, <3>3 DEF Releases
    <3>5. QED
      BY <2>1, <3>2, <3>3, <3>4 DEF WalletMovesWithLock, LockMovesWithWallet
  <2>3. CASE ~ Refundable(b, request[r].price)
    BY <1>2, <2>3 DEF RejectCommit, WalletMovesWithLock, LockMovesWithWallet
  <2>4. QED
    BY <2>2, <2>3
<1>3. CASE UNCHANGED <<balance, lock>>
  BY <1>3 DEF WalletMovesWithLock, LockMovesWithWallet
<1>4. QED
  BY <1>1, <1>2, <1>3, NextCases
     DEF CreateValidate, CreateSave, AcceptRead, AcceptWrite, RejectRead,
         RequestFails, PatchBooking, DeleteBooking, vars

\* Each lock is paid in once and paid back at most once, for every overlap.
THEOREM EachLockAlwaysPaysOnce == Spec => EachLockPaysOnce
<1>1. IInv /\ [Next]_vars
        => [/\ \A c \in Customers : WalletMovesWithLock(c)
            /\ \A b \in BookingIds : LockMovesWithWallet(b)]_vars
  BY PaysOnceStep DEF IInv
<1>2. QED
  BY <1>1, InvariantHolds, PTL DEF Spec, EachLockPaysOnce

-----------------------------------------------------------------------------

\* Prices in the rows, the locks and the requests are prices somebody asked
\* for, and a lock that was never opened is the initial one.
PricesAsked ==
    /\ \A b \in BookingIds :
        IF Exists(b)
        THEN booking[b].price \in Prices /\ lock[b].amount \in Prices
        ELSE lock[b] = NoLock
    /\ \A r \in Requests :
        request[r].at \in {"validated", "created", "rejecting"} =>
            request[r].price \in Prices

\* Every step keeps the prices among those asked.
LEMMA PricesAskedStep == IInv /\ PricesAsked /\ [Next]_vars => PricesAsked'
<1> SUFFICES ASSUME TypeOK, RequestsKnow, PricesAsked, [Next]_vars
             PROVE  PricesAsked'
  BY DEF IInv
<1>1. ASSUME NEW r \in Requests, NEW c \in Customers, NEW price \in Prices,
             CreateValidate(r, c, price)
      PROVE  PricesAsked'
  BY <1>1 DEF CreateValidate, PricesAsked, TypeOK, Exists
<1>2. ASSUME NEW r \in Requests, NEW b \in BookingIds, CreateCommit(r, b)
      PROVE  PricesAsked'
  BY <1>2 DEF CreateCommit, LockBooking, PricesAsked, TypeOK, Exists
<1>3. ASSUME NEW r \in Requests, CreateSave(r)
      PROVE  PricesAsked'
  BY <1>3 DEF CreateSave, PricesAsked, RequestsKnow, TypeOK, Exists, Idle
<1>4. ASSUME NEW r \in Requests, NEW b \in BookingIds, AcceptRead(r, b)
      PROVE  PricesAsked'
  BY <1>4 DEF AcceptRead, PricesAsked, TypeOK, Exists
<1>5. ASSUME NEW r \in Requests, AcceptWrite(r)
      PROVE  PricesAsked'
  BY <1>5 DEF AcceptWrite, PricesAsked, RequestsKnow, TypeOK, Exists, Idle, Row, NoRow
<1>6. ASSUME NEW r \in Requests, NEW b \in BookingIds, RejectRead(r, b)
      PROVE  PricesAsked'
  BY <1>6 DEF RejectRead, PricesAsked, TypeOK, Exists
<1>7. ASSUME NEW r \in Requests, RejectCommit(r)
      PROVE  PricesAsked'
  <2>1. request[r].booking \in BookingIds /\ Exists(request[r].booking)
    BY <1>7, RequestShape DEF RejectCommit, Rejecting, RequestsKnow
  <2>2. /\ \A b \in BookingIds : booking'[b].price = booking[b].price
        /\ \A b \in BookingIds :
              b # request[r].booking => booking'[b] = booking[b] /\ lock'[b] = lock[b]
        /\ lock'[request[r].booking].amount = lock[request[r].booking].amount
    <3>1. \A b \in BookingIds : booking[b] \in {NoRow} \cup Row /\ lock[b] \in LockedWallet
      BY DEF TypeOK
    <3>2. /\ [booking[request[r].booking] EXCEPT !.booking_status = "Cancelled",
                                                 !.is_active = FALSE].price
              = booking[request[r].booking].price
          /\ [lock[request[r].booking] EXCEPT !.state = "released"].amount
              = lock[request[r].booking].amount
      BY <2>1, <3>1 DEF Exists, Row, LockedWallet
    <3>3. QED
      BY <1>7, <2>1, <3>2 DEF RejectCommit, TypeOK
  <2>3. \A b \in BookingIds : Exists(b)' => Exists(b)
    BY <2>1, <2>2 DEF Exists
  <2>4. \A b \in BookingIds : Exists(b) => Exists(b)'
    <3>1. booking'[request[r].booking].booking_status = "Cancelled"
      BY <1>7, <2>1 DEF RejectCommit, TypeOK, Exists, Row
    <3>2. QED
      BY <2>1, <2>2, <3>1 DEF Exists, NoRow
  <2>5. \A s \in Requests : request'[s] = request[s] \/ request'[s] = Idle
    BY <1>7 DEF RejectCommit, TypeOK
  <2>6. QED
    BY <2>1, <2>2, <2>3, <2>4, <2>5 DEF PricesAsked, Idle
<1>8. ASSUME NEW r \in Requests, RequestFails(r)
      PROVE  PricesAsked'
  BY <1>8 DEF RequestFails, PricesAsked, TypeOK, Exists, Idle
<1>9. ASSUME NEW b \in BookingIds, NEW price \in Prices, PatchBooking(b, price)
      PROVE  PricesAsked'
  BY <1>9 DEF PatchBooking, PricesAsked, TypeOK, Exists, Row, NoRow
<1>10. ASSUME NEW b \in BookingIds, DeleteBooking(b)
       PROVE  PricesAsked'
  BY <1>10 DEF DeleteBooking, PricesAsked, TypeOK, Exists, Row, NoRow
<1>11. CASE UNCHANGED vars
  BY <1>11 DEF vars, PricesAsked, Exists
<1>12. QED
  BY <1>1, <1>2, <1>3, <1>4, <1>5, <1>6, <1>7, <1>8, <1>9, <1>10, <1>11, NextCases

\* The prices are always among those asked.
LEMMA PricesAskedHolds == Spec => [](IInv /\ PricesAsked)
<1>1. Init => PricesAsked
  BY DEF Init, PricesAsked, Exists, NoRow, Idle
<1>2. QED
  BY <1>1, InvInit, InvStep, PricesAskedStep, PTL DEF Spec

-----------------------------------------------------------------------------
\* Unless a PATCH changes it, the price of a booking is what its lock holds,
\* and requests that have read the price know it.
PricesKept ==
    /\ \A b \in BookingIds \ repriced : Exists(b) => booking[b].price = lock[b].amount
    /\ \A r \in Requests :
          request[r].at \in {"created", "rejecting"} /\ request[r].booking \notin repriced
              => request[r].price = lock[request[r].booking].amount

\* Every step keeps the prices.
LEMMA PricesKeptStep == IInv /\ PricesKept /\ [Next]_vars => PricesKept'
<1> SUFFICES ASSUME TypeOK, RequestsKnow, PricesKept, [Next]_vars
             PROVE  PricesKept'
  BY DEF IInv
<1>1. ASSUME NEW r \in Requests, NEW c \in Customers, NEW price \in Prices,
             CreateValidate(r, c, price)
      PROVE  PricesKept'
  BY <1>1, RepricedMoves DEF CreateValidate, PricesKept, TypeOK, Exists
<1>2. ASSUME NEW r \in Requests, NEW b \in BookingIds, CreateCommit(r, b)
      PROVE  PricesKept'
  BY <1>2, RepricedMoves
     DEF CreateCommit, LockBooking, PricesKept, RequestsKnow, TypeOK, Exists
<1>3. ASSUME NEW r \in Requests, CreateSave(r)
      PROVE  PricesKept'
  BY <1>3, RepricedMoves DEF CreateSave, PricesKept, RequestsKnow, TypeOK, Exists, Idle
<1>4. ASSUME NEW r \in Requests, NEW b \in BookingIds, AcceptRead(r, b)
      PROVE  PricesKept'
  BY <1>4, RepricedMoves DEF AcceptRead, PricesKept, TypeOK, Exists
<1>5. ASSUME NEW r \in Requests, AcceptWrite(r)
      PROVE  PricesKept'
  BY <1>5, RepricedMoves
     DEF AcceptWrite, PricesKept, RequestsKnow, TypeOK, Exists, Idle, Row, NoRow
<1>6. ASSUME NEW r \in Requests, NEW b \in BookingIds, RejectRead(r, b)
      PROVE  PricesKept'
  BY <1>6, RepricedMoves DEF RejectRead, PricesKept, TypeOK, Exists
<1>7. ASSUME NEW r \in Requests, RejectCommit(r)
      PROVE  PricesKept'
  <2> DEFINE b == request[r].booking
  <2>1. b \in BookingIds /\ Exists(b)
    BY <1>7, RequestShape DEF RejectCommit, Rejecting, RequestsKnow
  <2>2. booking[b] \in Row /\ lock[b] \in LockedWallet
    BY <2>1 DEF TypeOK, Exists, NoRow
  <2>3. /\ \A x \in BookingIds : x # b => booking'[x] = booking[x] /\ lock'[x] = lock[x]
        /\ booking'[b].price = booking[b].price
        /\ lock'[b].amount = lock[b].amount
    BY <1>7, <2>1, <2>2 DEF RejectCommit, TypeOK, Row, LockedWallet
  <2>4. /\ \A s \in Requests : s # r => request'[s] = request[s]
        /\ request'[r].at = "idle"
    BY <1>7 DEF RejectCommit, TypeOK, Idle
  <2>5. \A x \in BookingIds : Exists(x)' => Exists(x)
    BY <2>1, <2>3 DEF Exists
  <2>6. \A s \in Requests : request[s].at \in {"created", "rejecting"} =>
            request[s].booking \in BookingIds
    BY RequestShape DEF Created, Rejecting
  <2>7. repriced \subseteq repriced' /\ \A x \in BookingIds :
            lock'[x].amount = lock[x].amount /\ booking'[x].price = booking[x].price
    BY <2>3, RepricedMoves
  <2> HIDE DEF b
  <2>8. QED
    BY <2>4, <2>5, <2>6, <2>7 DEF PricesKept
<1>8. ASSUME NEW r \in Requests, RequestFails(r)
      PROVE  PricesKept'
  BY <1>8, RepricedMoves DEF RequestFails, PricesKept, TypeOK, Exists, Idle
<1>9. ASSUME NEW b \in BookingIds, NEW price \in Prices, PatchBooking(b, price)
      PROVE  PricesKept'
  <2>1. /\ repriced \subseteq repriced'
        /\ lock' = lock /\ request' = request
        /\ \A x \in BookingIds : x # b => booking'[x] = booking[x]
    BY <1>9 DEF PatchBooking, TypeOK
  <2>2. Exists(b)
    BY <1>9 DEF PatchBooking
  <2>3. CASE price = booking[b].price
    <3>1. booking' = booking
      <4>1. booking[b] \in Row
        BY <2>2 DEF TypeOK, Exists, NoRow
      <4>2. [booking[b] EXCEPT !.price = price] = booking[b]
        BY <2>3, <4>1 DEF Row
      <4>3. booking' = [booking EXCEPT ![b] = [booking[b] EXCEPT !.price = price]]
        BY <1>9 DEF PatchBooking
      <4>4. QED
        BY <4>2, <4>3 DEF TypeOK
    <3>2. repriced' = repriced
      BY <1>9, <2>3 DEF PatchBooking
    <3>3. QED
      BY <2>1, <3>1, <3>2 DEF PricesKept, Exists
  <2>4. CASE price # booking[b].price
    <3>1. b \in repriced'
      BY <1>9, <2>4 DEF PatchBooking
    <3>2. QED
      BY <2>1, <3>1 DEF PricesKept, Exists
  <2>5. QED
    BY <2>3, <2>4
<1>10. ASSUME NEW b \in BookingIds, DeleteBooking(b)
       PROVE  PricesKept'
  BY <1>10, RepricedMoves DEF DeleteBooking, PricesKept, TypeOK, Exists, Row, NoRow
<1>11. CASE UNCHANGED vars
  BY <1>11 DEF vars, PricesKept, Exists
<1>12. QED
  BY <1>1, <1>2, <1>3, <1>4, <1>5, <1>6, <1>7, <1>8, <1>9, <1>10, <1>11, NextCases

\* A cancelled booking whose price nobody changed has been refunded, whatever
\* requests overlap or die (wallet/services.py:31): the price that the refund
\* asks for was read from a row that agrees with the lock.
THEOREM UnchangedAlwaysRefunded == Spec => []UnchangedPriceRefunded
<1>1. Init => PricesKept /\ UnchangedPriceRefunded
  BY DEF Init, UnchangedPriceRefunded, PricesKept, Exists, NoRow, Idle
<1>2. IInv /\ PricesKept /\ UnchangedPriceRefunded /\ [Next]_vars
        => UnchangedPriceRefunded'
  <2> SUFFICES ASSUME TypeOK, RequestsKnow, LedgerTellsEscrow, PricesKept,
                      UnchangedPriceRefunded, [Next]_vars
               PROVE  UnchangedPriceRefunded'
    BY DEF IInv
  <2>a. repriced \subseteq repriced'
    BY RepricedMoves
  <2>1. ASSUME NEW r \in Requests, NEW b \in BookingIds, CreateCommit(r, b)
        PROVE  UnchangedPriceRefunded'
    BY <2>a, <2>1 DEF CreateCommit, LockBooking, UnchangedPriceRefunded, TypeOK
  <2>2. ASSUME NEW r \in Requests, CreateSave(r)
        PROVE  UnchangedPriceRefunded'
    BY <2>a, <2>2 DEF CreateSave, UnchangedPriceRefunded, TypeOK
  <2>3. ASSUME NEW r \in Requests, AcceptWrite(r)
        PROVE  UnchangedPriceRefunded'
    BY <2>a, <2>3, RequestShape DEF AcceptWrite, UnchangedPriceRefunded, TypeOK, Row, NoRow
  <2>4. ASSUME NEW r \in Requests, RejectCommit(r)
        PROVE  UnchangedPriceRefunded'
    <3> DEFINE b == request[r].booking
    <3>1. b \in BookingIds /\ Exists(b)
      BY <2>4, RequestShape DEF RejectCommit, Rejecting, RequestsKnow
    <3>2. b \notin repriced => lock[b].amount = request[r].price
      BY <2>4, <3>1 DEF RejectCommit, PricesKept
    <3>3. lock[b].state \in {"held", "released"}
      BY <3>1 DEF LedgerTellsEscrow, TellsEscrow, TypeOK, LockedWallet
    <3>4. b \notin repriced => lock'[b].state = "released"
      BY <2>4, <3>1, <3>2, <3>3 DEF RejectCommit, Refundable, TypeOK, LockedWallet
    <3>5. \A x \in BookingIds : x # b => lock'[x] = lock[x] /\ booking'[x] = booking[x]
      BY <2>4 DEF RejectCommit, TypeOK
    <3>6. QED
      BY <2>a, <3>4, <3>5 DEF UnchangedPriceRefunded
  <2>5. ASSUME NEW b \in BookingIds, NEW price \in Prices, PatchBooking(b, price)
        PROVE  UnchangedPriceRefunded'
    BY <2>a, <2>5 DEF PatchBooking, UnchangedPriceRefunded, TypeOK, Row, NoRow
  <2>6. ASSUME NEW b \in BookingIds, DeleteBooking(b)
        PROVE  UnchangedPriceRefunded'
    BY <2>a, <2>6 DEF DeleteBooking, UnchangedPriceRefunded, TypeOK, Row, NoRow
  <2>7. CASE UNCHANGED <<booking, lock>>
    BY <2>a, <2>7 DEF UnchangedPriceRefunded
  <2>8. QED
    BY <2>1, <2>2, <2>3, <2>4, <2>5, <2>6, <2>7, NextCases
       DEF CreateValidate, AcceptRead, RejectRead, RequestFails, vars
<1>3. QED
  BY <1>1, <1>2, InvInit, InvStep, PricesKeptStep, PTL DEF Spec

-----------------------------------------------------------------------------

\* A validated request's copy of the balance is the balance.
ReadIsCurrent ==
    \A r \in Requests : request[r].at = "validated" =>
        request[r].balance = balance[request[r].customer]

\* With one request at a time nothing moves the wallet between the request's
\* read and its commit.
LEMMA ReadIsCurrentStep ==
    ASSUME \A r, s \in Requests : r = s,
           IInv, ReadIsCurrent, [Next]_vars
    PROVE  ReadIsCurrent'
<1>1. ASSUME NEW r \in Requests, NEW c \in Customers, NEW price \in Prices,
             CreateValidate(r, c, price)
      PROVE  ReadIsCurrent'
  BY <1>1 DEF CreateValidate, ReadIsCurrent, TypeOK, IInv
<1>2. ASSUME NEW r \in Requests, request'[r].at # "validated"
      PROVE  ReadIsCurrent'
  BY <1>2 DEF ReadIsCurrent
<1>3. ASSUME NEW r \in Requests, NEW b \in BookingIds,
             \/ CreateCommit(r, b)
             \/ AcceptRead(r, b)
             \/ RejectRead(r, b)
      PROVE  ReadIsCurrent'
  <2>1. \A x : [request EXCEPT ![r] = x][r] = x
    BY DEF TypeOK, IInv
  <2>2. request'[r].at # "validated"
    <3>1. CASE CreateCommit(r, b)
      <4>1. request'[r] = [at |-> "created", booking |-> b, price |-> request[r].price]
        BY <2>1, <3>1 DEF CreateCommit
      <4>2. QED
        BY <4>1
    <3>2. CASE AcceptRead(r, b)
      BY <2>1, <3>2 DEF AcceptRead
    <3>3. CASE RejectRead(r, b)
      BY <2>1, <3>3 DEF RejectRead
    <3>4. QED
      BY <1>3, <3>1, <3>2, <3>3
  <2>3. QED
    BY <1>2, <2>2
<1>4. ASSUME NEW r \in Requests,
             \/ CreateSave(r)
             \/ AcceptWrite(r)
             \/ RejectCommit(r)
             \/ RequestFails(r)
      PROVE  ReadIsCurrent'
  <2>1. request' = [request EXCEPT ![r] = Idle]
    BY <1>4 DEF CreateSave, AcceptWrite, RejectCommit, RequestFails
  <2>2. QED
    BY <1>2, <2>1 DEF TypeOK, IInv, Idle
<1>5. CASE UNCHANGED <<balance, request>>
  BY <1>5 DEF ReadIsCurrent
<1>6. QED
  BY <1>1, <1>3, <1>4, <1>5, NextCases DEF PatchBooking, DeleteBooking, vars

\* With one request at a time the escrow does what it promises: nothing but
\* an overlap breaks create_booking's comment.
THEOREM SerialKeepsPromise ==
    ASSUME \A r, s \in Requests : r = s
    PROVE  Spec => KeepsPromise
<1>1. Init => Promise!Init
  BY DEF Init, Promise!Init, NoLock, Promise!Nothing
<1>2. Init => ReadIsCurrent
  BY DEF Init, ReadIsCurrent, Idle
<1>3. IInv /\ ReadIsCurrent /\ [Next]_vars => ReadIsCurrent'
  BY ReadIsCurrentStep
<1>4. IInv /\ PricesAsked /\ ReadIsCurrent /\ [Next]_vars
        => [Promise!Next]_(Promise!vars)
  <2> SUFFICES ASSUME IInv, PricesAsked, ReadIsCurrent, [Next]_vars
               PROVE  [Promise!Next]_(Promise!vars)
    OBVIOUS
  <2> USE EscrowAssumption
  <2>1. ASSUME NEW r \in Requests, NEW b \in BookingIds, CreateCommit(r, b)
        PROVE  Promise!Next
    <3>1. /\ request[r] \in Validated
          /\ request[r].price \in Prices
          /\ request[r].price <= request[r].balance
          /\ request[r].balance = balance[CustomerOf[b]]
          /\ request[r].customer = CustomerOf[b]
      BY <2>1, RequestShape DEF CreateCommit, IInv, PricesAsked, RequestsKnow,
                                ReadIsCurrent
    <3>2. lock[b] = Promise!Nothing
      BY <2>1 DEF CreateCommit, PricesAsked, NoLock, Promise!Nothing
    <3>3. balance' = [balance EXCEPT ![CustomerOf[b]] = @ - request[r].price]
      BY <2>1, <3>1 DEF CreateCommit, DeductUserBalance
    <3>4. lock' = [lock EXCEPT ![b] = [state |-> "held", amount |-> request[r].price]]
      BY <2>1 DEF CreateCommit, LockBooking
    <3>5. Promise!Hold(b, request[r].price)
      BY <3>1, <3>2, <3>3, <3>4 DEF Promise!Hold
    <3>6. QED
      BY <3>1, <3>5 DEF Promise!Next
  <2>2. ASSUME NEW r \in Requests, RejectCommit(r)
        PROVE  [Promise!Next]_(Promise!vars)
    <3> DEFINE b == request[r].booking
    <3>1. b \in BookingIds
      BY <2>2, RequestShape DEF RejectCommit, Rejecting, IInv
    <3>2. CASE Refundable(b, request[r].price)
      <4>1. lock[b].state = "held" /\ lock[b].amount = request[r].price
        BY <3>2 DEF Refundable
      <4>2. Promise!GiveBack(b)
        BY <2>2, <3>2, <4>1 DEF RejectCommit, CreditUserWallet, Promise!GiveBack
      <4>3. QED
        BY <3>1, <4>2 DEF Promise!Next
    <3>3. CASE ~ Refundable(b, request[r].price)
      BY <2>2, <3>3 DEF RejectCommit, Promise!vars
    <3>4. QED
      BY <3>2, <3>3
  <2>3. CASE UNCHANGED <<balance, lock>>
    BY <2>3 DEF Promise!vars
  <2>4. QED
    BY <2>1, <2>2, <2>3, NextCases
       DEF CreateValidate, CreateSave, AcceptRead, AcceptWrite, RejectRead,
           RequestFails, PatchBooking, DeleteBooking, vars
<1>5. QED
  BY <1>1, <1>2, <1>3, <1>4, PricesAskedHolds, PTL
     DEF Spec, KeepsPromise, Promise!Spec

=============================================================================
