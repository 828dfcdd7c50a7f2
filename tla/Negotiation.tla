----------------------------- MODULE Negotiation -----------------------------
(***************************************************************************)
(* One price negotiation inside a conversation (apps/chats): it is opened  *)
(* by one participant and then accepted, rejected, countered or proposed   *)
(* again by either of the two.                                             *)
(*                                                                         *)
(* An answer reads the row, writes the stamps of its action and a history  *)
(* row in one atomic block, and then saves every column of its own copy    *)
(* outside the block.  Two answers that overlap work on stale copies.      *)
(*                                                                         *)
(* Left out: who of the two answers (is_participants lets both), notes,    *)
(* and negotiations on job posts, which cannot be opened: the lookup of    *)
(* the post names a field that does not exist and raises.                  *)
(*                                                                         *)
(* An operator marked "faulty" stands for a plausible bug: only the mutant *)
(* runs use it, in the place of the definition that follows it.            *)
(***************************************************************************)
EXTENDS Integers, Sequences

CONSTANTS
    Prices,      \* prices that participants name
    Requests,    \* slots for requests in flight (bounds the overlap)
    MaxHistory   \* bound on the history rows

ASSUME NegotiationAssumption ==
    /\ Prices \subseteq Nat \ {0}
    /\ MaxHistory \in Nat

VARIABLES
    row,      \* the Negotiations row
    history,  \* its NegotiationHistory rows, oldest first
    request,  \* request[r] : where request r is, and the copy it works on
    failed    \* history variable: has a thread died halfway?

vars == <<row, history, request, failed>>

-----------------------------------------------------------------------------

Statuses == {"PROPOSED", "COUNTERED", "ACCEPTED", "REJECTED"}

NoPrice == 0   \* a price left out of the request, or a final_price of None

\* The stamps are kept as "is it set".
Row ==
    [status : Statuses, price : Prices, final_price : Prices \cup {NoPrice},
     accepted_at : BOOLEAN, rejected_at : BOOLEAN, countered_at : BOOLEAN]

NoRow == [status |-> "Absent"]

HistoryRow == [action : Statuses, price : Prices]

Idle == [at |-> "idle"]

Opening == [at : {"inserted"}, action : Statuses, price : Prices]

Answering ==
    [at : {"read", "stamped"}, copy : Row, action : Statuses,
     price : Prices \cup {NoPrice}]

Init ==
    /\ row = NoRow /\ history = <<>>
    /\ request = [r \in Requests |-> Idle]
    /\ failed = FALSE

-----------------------------------------------------------------------------
(* POST /negotiations/                                                     *)

\* The client chooses the status; the stamps stay empty whatever it is.
Opened(status, price) ==
    [status |-> status, price |-> price, final_price |-> NoPrice,
     accepted_at |-> FALSE, rejected_at |-> FALSE, countered_at |-> FALSE]

\* NegotiationService.create_negotiation commits the row.
CreateCommit(r, status, price) ==
    /\ row = NoRow
    /\ request[r] = Idle
    /\ row' = Opened(status, price)
    /\ request' = [request EXCEPT ![r] =
            [at |-> "inserted", action |-> status, price |-> price]]
    /\ UNCHANGED history

\* log_history commits a row of its own.
LogHistory(action, price) ==
    history' = Append(history, [action |-> action, price |-> price])

CreateLog(r) ==
    /\ request[r].at = "inserted"
    /\ LogHistory(request[r].action, request[r].price)
    /\ request' = [request EXCEPT ![r] = Idle]
    /\ UNCHANGED row

-----------------------------------------------------------------------------
(* POST /negotiations/{id}/accept, /reject, /counter: the status is taken  *)
(* from the body, the name of the route is only logged.                    *)

\* Faulty: a rejection is remembered, an acceptance is not.
ClosedIfRejected(copy) == copy.status = "REJECTED"

\* "Negotiation already accepted and closed", "... rejected and closed".
Closed(copy) == copy.status \in {"ACCEPTED", "REJECTED"}

\* The bound is for answers that can add to the history.
AnswerRead(r, action, price) ==
    /\ row # NoRow
    /\ request[r] = Idle
    /\ Len(history) < MaxHistory \/ Closed(row)
    /\ request' = [request EXCEPT ![r] =
            [at |-> "read", copy |-> row, action |-> action, price |-> price]]
    /\ UNCHANGED <<row, history>>

\* Faulty: the stamp only, set_final_price forgotten.
AcceptTermsStampOnly(n, price) == [n EXCEPT !.accepted_at = TRUE]

\* accept() and set_final_price() save only these columns.
AcceptTerms(n, price) == [n EXCEPT !.accepted_at = TRUE, !.final_price = price]

RejectStamp(n) == [n EXCEPT !.rejected_at = TRUE]

CounterStamp(n) == [n EXCEPT !.countered_at = TRUE]

Stamped(n, action, price) ==
    CASE action = "ACCEPTED"  -> AcceptTerms(n, price)
      [] action = "REJECTED"  -> RejectStamp(n)
      [] action = "COUNTERED" -> CounterStamp(n)
      [] action = "PROPOSED"  -> n

\* accept_negotiation looks at the stamp, not at the status.
AlreadyAccepted(copy) == copy.accepted_at

\* A body without a price raises in the block, which rolls back; so does an
\* acceptance of what is stamped as accepted.
Refused(me) ==
    \/ Closed(me.copy)
    \/ me.action = "ACCEPTED" /\ AlreadyAccepted(me.copy)
    \/ me.action # "PROPOSED" /\ me.price = NoPrice

AnswerRefuse(r) ==
    /\ request[r].at = "read"
    /\ Refused(request[r])
    /\ request' = [request EXCEPT ![r] = Idle]
    /\ UNCHANGED <<row, history>>

\* Faulty: the counter offer leaves no trace.
LoggedClosings(action) == action \in {"ACCEPTED", "REJECTED"}

\* PROPOSED matches no case: nothing is stamped and nothing is logged.
Logged(action) == action # "PROPOSED"

\* The atomic block of update: the stamps in the row and in the copy.
AnswerStamp(r) ==
    LET me == request[r] IN
    /\ me.at = "read"
    /\ ~ Refused(me)
    /\ row' = Stamped(row, me.action, me.price)
    /\ IF Logged(me.action) THEN LogHistory(me.action, me.price) ELSE UNCHANGED history
    /\ request' = [request EXCEPT ![r] =
            [me EXCEPT !.at = "stamped", !.copy = Stamped(@, me.action, me.price)]]

\* bulk_update sets the fields of the body and saves the whole copy.
AnswerSave(r) ==
    LET me == request[r] IN
    /\ me.at = "stamped"
    /\ row' = [me.copy EXCEPT !.status = me.action,
                              !.price = IF me.price = NoPrice THEN @ ELSE me.price]
    /\ request' = [request EXCEPT ![r] = Idle]
    /\ UNCHANGED history

\* The thread dies or a statement raises: only what was committed stays.
RequestFails(r) ==
    /\ request[r] # Idle
    /\ request' = [request EXCEPT ![r] = Idle]
    /\ failed' = TRUE
    /\ UNCHANGED <<row, history>>

CreateStep(r) ==
    \/ \E status \in Statuses, price \in Prices : CreateCommit(r, status, price)
    \/ CreateLog(r)

UpdateStatus(r) ==
    \/ \E action \in Statuses, price \in Prices \cup {NoPrice} : AnswerRead(r, action, price)
    \/ AnswerRefuse(r)
    \/ AnswerStamp(r)
    \/ AnswerSave(r)

Next ==
    \E r \in Requests :
        \/ (CreateStep(r) \/ UpdateStatus(r)) /\ UNCHANGED failed
        \/ RequestFails(r)

Spec == Init /\ [][Next]_vars

-----------------------------------------------------------------------------

\* Every variable keeps the shape the database and the threads give it.
TypeOK ==
    /\ row \in {NoRow} \cup Row
    /\ history \in Seq(HistoryRow)
    /\ request \in [Requests -> {Idle} \cup Opening \cup Answering]
    /\ failed \in BOOLEAN

Quiet == \A r \in Requests : request[r] = Idle

HasHistory(action, price) ==
    \E i \in DOMAIN history : history[i] = [action |-> action, price |-> price]

\* However many answers overlap on stale copies, once they are through an
\* acceptance is stamped and its final price is the price on the row: the
\* last whole-row save (bulk_update, models.py:503) is never a mixture of
\* two answers.  A negotiation opened as ACCEPTED has no terms; its single
\* history row tells.  A thread that dies between stamp and save may leave
\* the terms of one answer with the status of another.
ClosedOnTerms ==
    (~ failed /\ Quiet /\ row # NoRow /\ row.status = "ACCEPTED" /\ Len(history) > 1)
    => row.accepted_at /\ row.final_price = row.price

\* The history is committed before the status it stands for is visible
\* (serializers.py:467-480): whoever sees a decided or countered row finds
\* that action at that price in the history, whatever overlaps, as long as
\* nobody died between the row and the history of a new negotiation.
HistoryBacksStatus ==
    (~ failed /\ row # NoRow /\ row.status # "PROPOSED"
        /\ \A r \in Requests : request[r].at # "inserted")
    => HasHistory(row.status, row.price)
=============================================================================
