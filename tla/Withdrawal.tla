----------------------------- MODULE Withdrawal -----------------------------
(***************************************************************************)
(* Withdrawals from one user's wallet (apps/wallet): the POST that deducts *)
(* the amount, the Celery task that asks Paystack for the transfer, its    *)
(* retries and what it does when it gives up, Paystack's webhook and the   *)
(* Celery task that books Paystack's verdict.                              *)
(*                                                                         *)
(* A transaction.atomic block is one step: the task blocks hold the row    *)
(* of the withdrawal (select_for_update), a conflict is a raised exception.*)
(* Everything else commits statement by statement, so a request or a task  *)
(* keeps what it has read, which other steps make stale.                   *)
(*                                                                         *)
(* Left out: the bank account check, signatures, transfer_code and         *)
(* timestamps (written, never read here), the ledger rows of               *)
(* deduct_user_balance (never written: create raises and is swallowed),    *)
(* retries of the verification task (a retry is the task still queued).    *)
(*                                                                         *)
(* An operator marked "faulty" stands for a plausible bug: only the mutant *)
(* runs use it, in the place of the definition that follows it.            *)
(***************************************************************************)
EXTENDS Integers, FiniteSets

CONSTANTS
    Withdrawals,     \* primary keys, each with its reference_key (a bound)
    Keys,            \* idempotency keys that clients send
    Amounts,         \* amounts that clients ask for
    OpeningBalance,  \* the wallet's balance at the start
    Requests,        \* slots for POSTs in flight (bounds the overlap)
    MaxRetries,      \* MAX_RETRIES of tasks.py (5 there)
    Faults           \* may threads and workers die, and statements raise?

ASSUME WithdrawalAssumption ==
    /\ Amounts \subseteq Nat
    /\ OpeningBalance \in Nat
    /\ MaxRetries \in Nat
    /\ Faults \in BOOLEAN

VARIABLES
    balance,     \* Wallet.balance
    withdrawal,  \* withdrawal[w] : the WalletTransaction row, or NoRow
    request,     \* request[r]    : where POST r is and what it has read
    job,         \* job[w]        : process_withdrawal_task of w
    paystack,    \* paystack[w]   : what has happened to w's transfer there
    event,       \* event[w]      : the WebhookEvent row of w's reference
    verify,      \* verify[w]     : process_withdrawal_verifications of w
    credits,     \* credits[w]    : how often each task gave w back (history)
    raced        \* have two POSTs found one key unused at once? (history)

vars == <<balance, withdrawal, request, job, paystack, event, verify, credits, raced>>

-----------------------------------------------------------------------------

Verdicts == {"success", "failed", "reversed"}

NoRow == [status |-> "Absent", key |-> 0, amount |-> 0]

WalletTransaction ==
    [status : {"PENDING", "PROCESSING", "COMPLETED", "FAILED"},
     key : Keys, amount : Nat]

Idle == [at |-> "idle"]

\* "validated" then "unique": the wallet is cached on request.user.
Withdrawing ==
    [at : {"validated", "unique"}, key : Keys, amount : Nat, balance : Nat]

\* The row is committed, process_withdrawal_task.delay is still to come.
Committed == [at : {"committed"}, withdrawal : Withdrawals]

\* The task waits in the queue, holds a claim, has Paystack's answer, or has
\* given up and works through process_failed_withdrawal; seen is its copy
\* of the balance.
Job ==
    [at : {"none", "queued", "claimed", "answered",
           "giving up", "crediting", "credited", "done", "lost"},
     retries : 0 .. MaxRetries,
     seen : Int]

WebhookEvent ==
    [status : {"none", "received", "processed", "failed"},
     says : Verdicts \cup {"nothing"}]

Exists(w) == withdrawal[w].status # "Absent"

Init ==
    /\ balance = OpeningBalance
    /\ withdrawal = [w \in Withdrawals |-> NoRow]
    /\ request = [r \in Requests |-> Idle]
    /\ job = [w \in Withdrawals |-> [at |-> "none", retries |-> 0, seen |-> 0]]
    /\ paystack = [w \in Withdrawals |-> {}]
    /\ event = [w \in Withdrawals |-> [status |-> "none", says |-> "nothing"]]
    /\ verify = [w \in Withdrawals |-> "none"]
    /\ credits = [w \in Withdrawals |-> [verdict |-> 0, giveup |-> 0]]
    /\ raced = FALSE

-----------------------------------------------------------------------------
(* POST /wallets/withdraw/                                                 *)

\* Faulty: the check forgotten.
CoversNothing(amount) == balance >= 0

\* validate_amount compares the amount with user.wallet as read now.
Covers(amount) == amount <= balance

WithdrawValidate(r, key, amount) ==
    /\ request[r] = Idle
    /\ Covers(amount)
    /\ request' = [request EXCEPT ![r] =
            [at |-> "validated", key |-> key, amount |-> amount, balance |-> balance]]
    /\ UNCHANGED <<balance, withdrawal, job, paystack, event, verify, credits>>

\* Faulty: only withdrawals not yet finished count.
KeyPending(key) ==
    \E w \in Withdrawals : withdrawal[w].status = "PENDING" /\ withdrawal[w].key = key

\* The view answers 400 when the user has a withdrawal with this key.
KeyUsed(key) == \E w \in Withdrawals : Exists(w) /\ withdrawal[w].key = key

WithdrawCheckKey(r) ==
    /\ request[r].at = "validated"
    /\ request' = [request EXCEPT ![r] =
            IF KeyUsed(@.key) THEN Idle ELSE [@ EXCEPT !.at = "unique"]]
    /\ UNCHANGED <<balance, withdrawal, job, paystack, event, verify, credits>>

\* WithDrawalSerializer.create: deduct and insert in one atomic block.
WithdrawCommit(r, w) ==
    LET me == request[r] IN
    /\ me.at = "unique"
    /\ ~ Exists(w)
    /\ balance' = me.balance - me.amount
    /\ withdrawal' = [withdrawal EXCEPT ![w] =
            [status |-> "PENDING", key |-> me.key, amount |-> me.amount]]
    /\ request' = [request EXCEPT ![r] = [at |-> "committed", withdrawal |-> w]]
    /\ UNCHANGED <<job, paystack, event, verify, credits>>

WithdrawEnqueue(r) ==
    /\ request[r].at = "committed"
    /\ job' = [job EXCEPT ![request[r].withdrawal].at = "queued"]
    /\ request' = [request EXCEPT ![r] = Idle]
    /\ UNCHANGED <<balance, withdrawal, paystack, event, verify, credits>>

\* The thread dies or a statement raises: only what was committed stays.
RequestFails(r) ==
    /\ Faults
    /\ request[r] # Idle
    /\ request' = [request EXCEPT ![r] = Idle]
    /\ UNCHANGED <<balance, withdrawal, job, paystack, event, verify, credits>>

-----------------------------------------------------------------------------
(* process_withdrawal_task                                                 *)

\* An exception in the task: retried with a countdown, or, at the limit,
\* the task goes on to restore the balance.
GivesUp(w) == job[w].retries >= MaxRetries

\* Faulty: at the limit the task just ends.
RaisedDropped(w) ==
    IF GivesUp(w)
    THEN job' = [job EXCEPT ![w].at = "done"]
    ELSE job' = [job EXCEPT ![w].at = "queued", ![w].retries = @ + 1]

Raised(w) ==
    IF GivesUp(w)
    THEN job' = [job EXCEPT ![w].at = "giving up"]
    ELSE job' = [job EXCEPT ![w].at = "queued", ![w].retries = @ + 1]

\* First atomic block: a finished withdrawal is left alone.
Claim(w) ==
    /\ job[w].at = "queued"
    /\ IF withdrawal[w].status \in {"COMPLETED", "FAILED"}
       THEN /\ job' = [job EXCEPT ![w].at = "done"]
            /\ UNCHANGED withdrawal
       ELSE /\ job' = [job EXCEPT ![w].at = "claimed"]
            /\ withdrawal' = [withdrawal EXCEPT ![w].status = "PROCESSING"]
    /\ UNCHANGED <<balance, request, paystack, event, verify, credits>>

\* initiate_transfer: Paystack takes on a reference once; its answer may be
\* an error, also for a transfer it has taken on, or be lost on the way.
InitiateTransfer(w) ==
    /\ job[w].at = "claimed"
    /\ \/ /\ paystack' = [paystack EXCEPT ![w] = @ \cup {"accepted"}]
          /\ job' = [job EXCEPT ![w].at = "answered"] \/ Raised(w)
       \/ /\ UNCHANGED paystack
          /\ Raised(w)
    /\ UNCHANGED <<balance, withdrawal, request, event, verify, credits>>

\* Second atomic block: the status is written whatever it is by now.
Record(w) ==
    /\ job[w].at = "answered"
    /\ withdrawal' = [withdrawal EXCEPT ![w].status = "PROCESSING"]
    /\ job' = [job EXCEPT ![w].at = "done"]
    /\ UNCHANGED <<balance, request, paystack, event, verify, credits>>

\* An atomic block of the task raises: nowait finds a row locked, the
\* connection breaks, the answer lacks a field.
JobRaises(w) ==
    /\ Faults
    /\ job[w].at \in {"queued", "claimed", "answered"}
    /\ Raised(w)
    /\ UNCHANGED <<balance, withdrawal, request, paystack, event, verify, credits>>

\* process_failed_withdrawal outside any atomic block, the row not locked:
\* the wallet is read, written, and then the row is saved as FAILED.
RestoreReadSaves(w) ==   \* faulty: the row is saved before the wallet
    /\ job[w].at = "giving up"
    /\ job' = [job EXCEPT ![w].at = "crediting", ![w].seen = balance]
    /\ withdrawal' = [withdrawal EXCEPT ![w].status = "FAILED"]
    /\ UNCHANGED <<balance, request, paystack, event, verify, credits>>

RestoreRead(w) ==
    /\ job[w].at = "giving up"
    /\ job' = [job EXCEPT ![w].at = "crediting", ![w].seen = balance]
    /\ UNCHANGED <<balance, withdrawal, request, paystack, event, verify, credits>>

RestoreCredit(w) ==
    /\ job[w].at = "crediting"
    /\ balance' = job[w].seen + withdrawal[w].amount
    /\ credits' = [credits EXCEPT ![w].giveup = @ + 1]
    /\ job' = [job EXCEPT ![w].at = "credited"]
    /\ UNCHANGED <<withdrawal, request, paystack, event, verify>>

RestoreSave(w) ==
    /\ job[w].at = "credited"
    /\ withdrawal' = [withdrawal EXCEPT ![w].status = "FAILED"]
    /\ job' = [job EXCEPT ![w].at = "done"]
    /\ UNCHANGED <<balance, request, paystack, event, verify, credits>>

\* The worker dies (tasks are acknowledged before they run), or a statement
\* of process_failed_withdrawal raises, which it swallows.
JobLost(w) ==
    /\ Faults
    /\ job[w].at \notin {"none", "done", "lost"}
    /\ job' = [job EXCEPT ![w].at = "lost"]
    /\ UNCHANGED <<balance, withdrawal, request, paystack, event, verify, credits>>

-----------------------------------------------------------------------------
(* Paystack and its webhook                                                *)

\* Paystack decides on a transfer; one that succeeded may still be reversed.
Settle(w, verdict) ==
    /\ "accepted" \in paystack[w]
    /\ \/ paystack[w] = {"accepted"}
       \/ verdict = "reversed" /\ paystack[w] = {"accepted", "success"}
    /\ paystack' = [paystack EXCEPT ![w] = @ \cup {verdict}]
    /\ UNCHANGED <<balance, withdrawal, request, job, event, verify, credits>>

\* A delivery, perhaps a repeated or a late one: get_or_create lets only the
\* first for a reference through, the others are answered and dropped.
EveryDelivery(w) == event[w].status # "received"   \* faulty: no deduplication
FirstDelivery(w) == event[w].status = "none"

WebhookReceive(w, verdict) ==
    /\ verdict \in paystack[w]
    /\ FirstDelivery(w)
    /\ event' = [event EXCEPT ![w] = [status |-> "received", says |-> verdict]]
    /\ UNCHANGED <<balance, withdrawal, request, job, paystack, verify, credits>>

\* handler.delay(data), then PROCESSED.
WebhookDispatch(w) ==
    /\ event[w].status = "received"
    /\ verify' = [verify EXCEPT ![w] = event[w].says]
    /\ event' = [event EXCEPT ![w].status = "processed"]
    /\ UNCHANGED <<balance, withdrawal, request, job, paystack, credits>>

\* The view raises or dies before delay; the row stays and blocks repeats.
WebhookFails(w) ==
    /\ Faults
    /\ event[w].status = "received"
    /\ event' = [event EXCEPT ![w].status = "failed"]
    /\ UNCHANGED <<balance, withdrawal, request, job, paystack, verify, credits>>

-----------------------------------------------------------------------------
(* process_withdrawal_verifications                                        *)

Awaits(w) == withdrawal[w].status = "PROCESSING"

PaidUnlessFailed(verdict) == verdict # "failed"   \* faulty
Paid(verdict) == verdict = "success"

\* One atomic block; the wallet is read and written under the row's lock.
\* process_failed_withdrawal swallows what raises in it, but what can raise
\* there are the wallet's queries: on PostgreSQL (production) the block is then
\* aborted, the save of FAILED raises too and the task is retried, so that
\* FAILED is not committed without the credit.
VerifyCommit(w) ==
    LET verdict == verify[w] IN
    /\ verdict \in Verdicts
    /\ verify' = [verify EXCEPT ![w] = "done"]
    /\ \/ /\ Awaits(w)
          /\ Paid(verdict)
          /\ withdrawal' = [withdrawal EXCEPT ![w].status = "COMPLETED"]
          /\ UNCHANGED <<balance, credits>>
       \/ /\ Awaits(w)
          /\ ~ Paid(verdict)
          /\ withdrawal' = [withdrawal EXCEPT ![w].status = "FAILED"]
          /\ balance' = balance + withdrawal[w].amount
          /\ credits' = [credits EXCEPT ![w].verdict = @ + 1]
       \/ /\ ~ Awaits(w)
          /\ UNCHANGED <<balance, withdrawal, credits>>
    /\ UNCHANGED <<request, job, paystack, event>>

\* The worker dies, or the task has raised MAX_RETRIES + 1 times.
VerifyLost(w) ==
    /\ Faults
    /\ verify[w] \in Verdicts
    /\ verify' = [verify EXCEPT ![w] = "done"]
    /\ UNCHANGED <<balance, withdrawal, request, job, paystack, event, credits>>

-----------------------------------------------------------------------------

RequestStep(r) ==
    \/ \E key \in Keys, amount \in Amounts : WithdrawValidate(r, key, amount)
    \/ WithdrawCheckKey(r)
    \/ \E w \in Withdrawals : WithdrawCommit(r, w)
    \/ WithdrawEnqueue(r)
    \/ RequestFails(r)

\* What a live Celery worker does for the task of w.
JobStep(w) ==
    Claim(w) \/ InitiateTransfer(w) \/ Record(w)
        \/ RestoreRead(w) \/ RestoreCredit(w) \/ RestoreSave(w)

PaystackStep(w) ==
    \E verdict \in Verdicts : Settle(w, verdict) \/ WebhookReceive(w, verdict)

WebhookStep(w) == WebhookDispatch(w) \/ WebhookFails(w)

VerifyStep(w) == VerifyCommit(w) \/ VerifyLost(w)

\* Two POSTs have passed the check with the same key and not inserted yet.
Race ==
    \E r, s \in Requests :
        /\ r # s
        /\ request[r].at = "unique" /\ request[s].at = "unique"
        /\ request[r].key = request[s].key

Next ==
    /\ \/ \E r \in Requests : RequestStep(r)
       \/ \E w \in Withdrawals :
           \/ JobStep(w) \/ JobRaises(w) \/ JobLost(w)
           \/ PaystackStep(w) \/ WebhookStep(w) \/ VerifyStep(w)
    /\ raced' = (raced \/ Race')

Spec == Init /\ [][Next]_vars

\* Workers keep taking tasks from the queue; clients and Paystack owe nothing.
FairSpec == Spec /\ \A w \in Withdrawals : WF_job(JobStep(w))

-----------------------------------------------------------------------------
(* Properties.                                                             *)

\* Rows, requests, tasks and webhook events have the shape the code gives
\* them; a give-up credits at most once, so credits stay small.
TypeOK ==
    /\ balance \in Int
    /\ withdrawal \in [Withdrawals -> {NoRow} \cup WalletTransaction]
    /\ request \in [Requests -> {Idle} \cup Withdrawing \cup Committed]
    /\ job \in [Withdrawals -> Job]
    /\ paystack \in [Withdrawals -> SUBSET ({"accepted"} \cup Verdicts)]
    /\ event \in [Withdrawals -> WebhookEvent]
    /\ verify \in [Withdrawals -> {"none", "done"} \cup Verdicts]
    /\ credits \in [Withdrawals -> [verdict : Nat, giveup : Nat]]
    /\ raced \in BOOLEAN

\* The wallet is never overdrawn, although a POST checks one read of it and
\* deducts in a later transaction from that read, with other POSTs and both
\* tasks writing it in between (wallet/serializers.py:280-315).
NoOverdraft == balance >= 0

\* A withdrawal shown as COMPLETED was paid: Paystack did report success for
\* its reference, whatever was retried, repeated, late or lost
\* (wallet/tasks.py:240).
CompletedMeansPaid ==
    \A w \in Withdrawals :
        withdrawal[w].status = "COMPLETED" => "success" \in paystack[w]

\* A withdrawal shown as FAILED has been given back, also when the worker
\* dies in the middle of restoring (wallet/transactions/services.py:53-59).
FailedMeansCredited ==
    \A w \in Withdrawals :
        withdrawal[w].status = "FAILED" => credits[w].verdict + credits[w].giveup > 0

\* Paystack's verdicts give a withdrawal back at most once, and only when
\* one was a failure, however often the webhook comes and although Record
\* reopens finished withdrawals (wallet/models.py:163, views.py:244); the
\* task gives it back at most once, after its last retry.
CreditsJustified ==
    \A w \in Withdrawals :
        /\ credits[w].verdict > 0 =>
              /\ credits[w].verdict = 1
              /\ paystack[w] \cap {"failed", "reversed"} # {}
        /\ credits[w].giveup > 0 =>
              /\ credits[w].giveup = 1
              /\ job[w].retries = MaxRetries

\* "Duplicated transaction, returning existing transaction"
\* (wallet/views.py:142): an idempotency key names one withdrawal, unless
\* two POSTs with that key are between the check and the insert at once,
\* which nothing in the code prevents (idempotency_key is not unique).
OnePerKey ==
    ~ raced => \A w1, w2 \in Withdrawals :
        Exists(w1) /\ Exists(w2) /\ withdrawal[w1].key = withdrawal[w2].key => w1 = w2

\* "Transction with id %s alreary completed" (wallet/tasks.py:148): nothing
\* is done any more to a withdrawal that completed.
CompletedIsFinal ==
    [][\A w \in Withdrawals :
        withdrawal[w].status = "COMPLETED" => withdrawal'[w].status = "COMPLETED"]_vars

\* Unless its worker dies, a queued withdrawal is taken on by Paystack or
\* given back, however many calls and blocks of the task raise, and whatever
\* happens to requests and webhooks (wallet/tasks.py:189-205).
SentOrReturned ==
    \A w \in Withdrawals :
        job[w].at = "queued" ~>
            "accepted" \in paystack[w] \/ withdrawal[w].status = "FAILED" \/ job[w].at = "lost"

=============================================================================
