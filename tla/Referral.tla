------------------------------ MODULE Referral ------------------------------
(***************************************************************************)
(* The referral programme of one referrer (apps/referral): the users who   *)
(* registered with the code, their conversion, and the withdrawal of the   *)
(* rewards, into the wallet within the POST or to a bank account through   *)
(* a task, Paystack and its webhook.  A reward is one commission.          *)
(*                                                                         *)
(* Left out: the making of codes, transfer_code and timestamps (written,   *)
(* never read here), and the rows of the wallet's own ledger.              *)
(*                                                                         *)
(* An operator marked "faulty" stands for a plausible bug: only the mutant *)
(* runs use it, in the place of the definition that follows it.            *)
(***************************************************************************)
EXTENDS FiniteSetsExt

CONSTANTS
    Referrals,     \* users who may register with the code
    Transactions,  \* primary keys, each with its reference_key (a bound)
    Keys,          \* idempotency keys that the client sends
    Requests,      \* slots for POSTs in flight (bounds the overlap)
    Runs           \* slots for runs of the conversion task (bounds theirs)

ASSUME ReferralAssumption == IsFiniteSet(Referrals) /\ IsFiniteSet(Transactions)

VARIABLES
    referral,     \* referral[i]    : the status of i's Referral row
    transaction,  \* transaction[t] : the ReferralTransactions row, or NoRow
    selected,     \* selected[w]    : the pending referrals that run w has read
    balance,      \* rewards credited to the wallet
    request,      \* request[r]     : where POST r is
    job,          \* job[t]         : process_transfer_task of t
    paystack,     \* paystack[t]    : what has happened to t's transfer there
    verify,       \* verify[t]      : process_transfer_verification of t
    credited,     \* transactions credited to the wallet (history)
    overlapped    \* two POSTs have been in flight at once, or two runs have
                  \*   selected one referral (history)

vars == <<referral, transaction, selected, balance, request, job, paystack, verify,
          credited, overlapped>>

-----------------------------------------------------------------------------

Verdicts == {"success", "failed", "reversed"}

NoRow == [status |-> "none"]

\* amount is counted in commissions.
Row ==
    [status : {"PENDING", "COMPLETED", "FAILED", "REVERSED"},
     amount : 1 .. Cardinality(Referrals), referrals : SUBSET Referrals, key : Keys]

Idle == [at |-> "idle"]

Running ==
    [at : {"checked"}, amount : 1 .. Cardinality(Referrals), local_bank : BOOLEAN, key : Keys]
    \cup [at : {"reward", "send"}, transaction : Transactions]

Init ==
    /\ referral = [i \in Referrals |-> "none"]
    /\ transaction = [t \in Transactions |-> NoRow]
    /\ selected = [w \in Runs |-> {}]
    /\ balance = 0
    /\ request = [r \in Requests |-> Idle]
    /\ job = [t \in Transactions |-> "none"]
    /\ paystack = [t \in Transactions |-> {}]
    /\ verify = [t \in Transactions |-> "none"]
    /\ credited = {}
    /\ overlapped = FALSE

Goto(r, step) == request' = [request EXCEPT ![r] = step]

-----------------------------------------------------------------------------
(* Registration and conversion                                             *)

\* process_referral_attchement: referred is unique.
Attach(i) ==
    /\ referral[i] = "none"
    /\ referral' = [referral EXCEPT ![i] = "pending"]
    /\ UNCHANGED <<transaction, selected, balance, request, job, paystack, verify, credited>>

\* process_referral_conversion, one user with enough completed bookings after
\* the other: it selects the pending referral,
ConvertRead(w, i) ==
    /\ selected[w] = {}
    /\ referral[i] = "pending"
    /\ selected' = [selected EXCEPT ![w] = {i}]
    /\ UNCHANGED <<referral, transaction, balance, request, job, paystack, verify, credited>>

\* and updates what it has selected, whatever has become of it.
ConvertedBy(w) ==
    [i \in Referrals |-> IF i \in selected[w] THEN "converted" ELSE referral[i]]

ConvertSave(w) ==
    /\ selected[w] # {}
    /\ referral' = ConvertedBy(w)
    /\ selected' = [selected EXCEPT ![w] = {}]
    /\ UNCHANGED <<transaction, balance, request, job, paystack, verify, credited>>

\* The worker dies; the task may be run again.
ConvertLost(w) ==
    /\ selected[w] # {}
    /\ selected' = [selected EXCEPT ![w] = {}]
    /\ UNCHANGED <<referral, transaction, balance, request, job, paystack, verify, credited>>

-----------------------------------------------------------------------------
(* POST /referrals-withdraw/                                               *)

Converted == {i \in Referrals : referral[i] = "converted"}

KeyUsed(key) == \E t \in Transactions : transaction[t] # NoRow /\ transaction[t].key = key

Check(r, amount, local_bank, key) ==
    /\ request[r] = Idle
    /\ ~ KeyUsed(key)
    /\ amount <= Cardinality(Converted)
    /\ Goto(r, [at |-> "checked", amount |-> amount, local_bank |-> local_bank, key |-> key])
    /\ UNCHANGED <<selected, referral, transaction, balance, job, paystack, verify, credited>>

\* The query runs only here; without a converted referral left it raises.
Create(r, t) ==
    LET me == request[r] IN
    /\ me.at = "checked"
    /\ transaction[t] = NoRow
    /\ \E chosen \in kSubset(IF me.amount <= Cardinality(Converted)
                             THEN me.amount ELSE Cardinality(Converted), Converted) :
          IF chosen = {}
          THEN Goto(r, Idle) /\ UNCHANGED transaction
          ELSE /\ transaction' = [transaction EXCEPT ![t] =
                    [status |-> "PENDING", amount |-> me.amount,
                     referrals |-> chosen, key |-> me.key]]
               /\ Goto(r, [at |-> IF me.local_bank THEN "send" ELSE "reward",
                           transaction |-> t])
    /\ UNCHANGED <<selected, referral, balance, job, paystack, verify, credited>>

\* Faulty: the referrals keep their status.
NoneRewarded(t) == referral

Rewarded(t) ==
    [i \in Referrals |-> IF i \in transaction[t].referrals THEN "rewarded" ELSE referral[i]]

AfterReward(t) == [at |-> "send", transaction |-> t]

\* Without local_bank: process_completed_transaction and the credit, in one
\* atomic block.
Reward(r) ==
    LET t == request[r].transaction IN
    /\ request[r].at = "reward"
    /\ transaction' = [transaction EXCEPT ![t].status = "COMPLETED"]
    /\ referral' = Rewarded(t)
    /\ balance' = balance + transaction[t].amount
    /\ credited' = credited \cup {t}
    /\ Goto(r, AfterReward(t))
    /\ UNCHANGED <<selected, job, paystack, verify>>

\* The task is sent for both kinds, if the recipient_code is known.
Send(r) ==
    /\ request[r].at = "send"
    /\ job' = [job EXCEPT ![request[r].transaction] = "queued"]
    /\ Goto(r, Idle)
    /\ UNCHANGED <<selected, referral, transaction, balance, paystack, verify, credited>>

RequestFails(r) ==
    /\ request[r] # Idle
    /\ Goto(r, Idle)
    /\ UNCHANGED <<selected, referral, transaction, balance, job, paystack, verify, credited>>

-----------------------------------------------------------------------------
(* process_transfer_task                                                   *)

\* Faulty: only failures are left alone.
MayTransferUnlessFailed(status) == status \notin {"FAILED", "REVERSED"}

MayTransfer(status) == status = "PENDING"

TransferRead(t) ==
    /\ job[t] = "queued"
    /\ job' = [job EXCEPT ![t] = IF MayTransfer(transaction[t].status) THEN "asking" ELSE "done"]
    /\ UNCHANGED <<selected, referral, transaction, balance, request, paystack, verify, credited>>

\* Paystack takes on a reference once; its answer may get lost, whereupon
\* the task is retried, at most three times.
InitiateTransfer(t) ==
    /\ job[t] = "asking"
    /\ paystack' \in {paystack, [paystack EXCEPT ![t] = @ \cup {"accepted"}]}
    /\ job' \in {[job EXCEPT ![t] = "queued"], [job EXCEPT ![t] = "done"]}
    /\ UNCHANGED <<selected, referral, transaction, balance, request, verify, credited>>

-----------------------------------------------------------------------------
(* Paystack, its webhook and process_transfer_verification                 *)

Settle(t, verdict) ==
    /\ "accepted" \in paystack[t]
    /\ \/ paystack[t] = {"accepted"}
       \/ verdict = "reversed" /\ paystack[t] = {"accepted", "success"}
    /\ paystack' = [paystack EXCEPT ![t] = @ \cup {verdict}]
    /\ UNCHANGED <<selected, referral, transaction, balance, request, job, verify, credited>>

\* The first delivery for a reference sends the task.
Webhook(t, verdict) ==
    /\ verdict \in paystack[t]
    /\ verify[t] = "none"
    /\ verify' = [verify EXCEPT ![t] = verdict]
    /\ UNCHANGED <<selected, referral, transaction, balance, request, job, paystack, credited>>

\* Refused while one of the referrals is still to be rewarded.
Refused(t) ==
    \/ transaction[t].status # "PENDING"
    \/ \E i \in transaction[t].referrals : referral[i] = "converted"

StatusOf(verdict) ==
    CASE verdict = "success" -> "COMPLETED"
      [] verdict = "failed" -> "FAILED"
      [] verdict = "reversed" -> "REVERSED"

VerifyCommit(t) ==
    /\ verify[t] \in Verdicts
    /\ IF Refused(t)
       THEN UNCHANGED <<referral, transaction>>
       ELSE /\ transaction' = [transaction EXCEPT ![t].status = StatusOf(verify[t])]
            /\ referral' = IF StatusOf(verify[t]) = "COMPLETED" THEN Rewarded(t) ELSE referral
    /\ verify' = [verify EXCEPT ![t] = "done"]
    /\ UNCHANGED <<selected, balance, request, job, paystack, credited>>

\* A worker dies, or has no retries left.
TaskLost(t) ==
    /\ \/ job[t] \in {"queued", "asking"} /\ job' = [job EXCEPT ![t] = "done"] /\ UNCHANGED verify
       \/ verify[t] \in Verdicts /\ verify' = [verify EXCEPT ![t] = "done"] /\ UNCHANGED job
    /\ UNCHANGED <<selected, referral, transaction, balance, request, paystack, credited>>

-----------------------------------------------------------------------------

RequestStep(r) ==
    \/ \E amount \in 1 .. Cardinality(Referrals), local_bank \in BOOLEAN, key \in Keys :
          Check(r, amount, local_bank, key)
    \/ \E t \in Transactions : Create(r, t)
    \/ Reward(r) \/ Send(r) \/ RequestFails(r)

TaskStep(t) ==
    \/ TransferRead(t) \/ InitiateTransfer(t) \/ VerifyCommit(t) \/ TaskLost(t)
    \/ \E verdict \in Verdicts : Settle(t, verdict) \/ Webhook(t, verdict)

Overlap ==
    \/ \E r, s \in Requests : r # s /\ request[r].at # "idle" /\ request[s].at # "idle"
    \/ \E v, w \in Runs : v # w /\ selected[v] \cap selected[w] # {}

ReferralStep ==
    \/ \E i \in Referrals : Attach(i)
    \/ \E w \in Runs : ConvertSave(w) \/ ConvertLost(w) \/ \E i \in Referrals : ConvertRead(w, i)

Next ==
    /\ \/ ReferralStep
       \/ \E r \in Requests : RequestStep(r)
       \/ \E t \in Transactions : TaskStep(t)
    /\ overlapped' = (overlapped \/ Overlap')

Spec == Init /\ [][Next]_vars

-----------------------------------------------------------------------------

\* Every variable keeps the shape the database and the threads give it.
TypeOK ==
    /\ referral \in [Referrals -> {"none", "pending", "converted", "rewarded"}]
    /\ transaction \in [Transactions -> {NoRow} \cup Row]
    /\ selected \in [Runs -> SUBSET Referrals]
    /\ balance \in 0 .. Cardinality(Transactions) * Cardinality(Referrals)
    /\ request \in [Requests -> {Idle} \cup Running]
    /\ job \in [Transactions -> {"none", "queued", "asking", "done"}]
    /\ paystack \in [Transactions -> SUBSET ({"accepted"} \cup Verdicts)]
    /\ verify \in [Transactions -> {"none", "done"} \cup Verdicts]
    /\ credited \subseteq Transactions
    /\ overlapped \in BOOLEAN

\* However POSTs and conversions overlap and tasks fail: a rewarded referral
\* belongs to a withdrawal that completed; one that completed was paid, into
\* the wallet or by a transfer that succeeded; and no withdrawal is paid both
\* ways, although the transfer task is sent for the wallet's too
\* (referral/tasks.py:115).  It speaks of withdrawals: one referral can be
\* in two of them and paid twice, as the verification of a bank transfer
\* leaves it CONVERTED (tasks.py:188) for the next withdrawal to find.
RewardsArePaid ==
    /\ \A i \in Referrals : referral[i] = "rewarded" =>
          \E t \in Transactions :
             transaction[t] # NoRow /\ transaction[t].status = "COMPLETED"
             /\ i \in transaction[t].referrals
    /\ \A t \in Transactions :
          transaction[t].status = "COMPLETED" =>
             t \in credited \/ "success" \in paystack[t]
    /\ \A t \in credited : paystack[t] = {}

\* Until two POSTs overlap, or two conversions select one referral, the
\* wallet gets one commission for each referral that is rewarded, no more and
\* no less, whatever is withdrawn in parts, dies halfway or goes to the bank
\* meanwhile.  POSTs that overlap are paid for the same referrals
\* (serializers.py:90), and a conversion that comes late makes a rewarded
\* referral payable again (tasks.py:86).
WalletPaysEachOnce ==
    ~ overlapped => balance = Cardinality({i \in Referrals : referral[i] = "rewarded"})
=============================================================================
