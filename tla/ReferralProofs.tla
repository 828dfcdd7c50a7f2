--------------------------- MODULE ReferralProofs ---------------------------
(***************************************************************************)
(* What the withdrawal of rewards guarantees for every number of referrals *)
(* and withdrawals, POSTs and conversions that overlap, and lost tasks.    *)
(***************************************************************************)
EXTENDS Referral, TLAPS, FiniteSetTheorems

\* The parts of TypeOK that do not count anything.
Shapes ==
    /\ referral \in [Referrals -> {"none", "pending", "converted", "rewarded"}]
    /\ transaction \in [Transactions -> {NoRow} \cup Row]
    /\ selected \in [Runs -> SUBSET Referrals]
    /\ request \in [Requests -> {Idle} \cup Running]
    /\ job \in [Transactions -> {"none", "queued", "asking", "done"}]
    /\ paystack \in [Transactions -> SUBSET ({"accepted"} \cup Verdicts)]
    /\ verify \in [Transactions -> {"none", "done"} \cup Verdicts]
    /\ credited \subseteq Transactions

\* A request that has made its row, and not sent the task yet.
Holds(r, t) == request[r].at \in {"reward", "send"} /\ request[r].transaction = t

\* Nothing has been done about t outside its request.
Untouched(t) == job[t] = "none" /\ paystack[t] = {} /\ verify[t] = "none"

\* The task is sent last: until then the row is its request's alone.
HeldAlone ==
    \A r \in Requests, t \in Transactions : Holds(r, t) =>
        /\ transaction[t] # NoRow
        /\ Untouched(t)
        /\ \A s \in Requests : Holds(s, t) => s = r
        /\ request[r].at = "reward" => transaction[t].status = "PENDING" /\ t \notin credited

\* Without a row there is nothing else.
RowFirst ==
    \A t \in Transactions : transaction[t] = NoRow => Untouched(t) /\ t \notin credited

\* What the wallet got is completed, so that no task asks Paystack for it.
CreditedStays ==
    \A t \in credited :
        transaction[t].status = "COMPLETED" /\ job[t] # "asking" /\ paystack[t] = {}

\* The verification task is called with what Paystack said.
VerdictsTold ==
    \A t \in Transactions : verify[t] \in Verdicts => verify[t] \in paystack[t]

\* A withdrawal that completed was paid.
CompletedPaid ==
    \A t \in Transactions :
        transaction[t].status = "COMPLETED" => t \in credited \/ "success" \in paystack[t]

\* A referral is rewarded by a withdrawal that completed.
RewardedBy ==
    \A i \in Referrals : referral[i] = "rewarded" =>
        \E t \in Transactions :
            /\ transaction[t] # NoRow
            /\ transaction[t].status = "COMPLETED"
            /\ i \in transaction[t].referrals

\* RewardsArePaid is not inductive: a Reward could credit what Paystack is
\* being asked for, unless the task of a row is known to be sent last.
IInv ==
    /\ Shapes /\ HeldAlone /\ RowFirst /\ CreditedStays
    /\ VerdictsTold /\ CompletedPaid /\ RewardedBy

\* A row is not the absence of one.
LEMMA RowIsThere ==
    ASSUME NEW x \in Row
    PROVE  x # NoRow /\ x.status \in {"PENDING", "COMPLETED", "FAILED", "REVERSED"}
               /\ x.referrals \subseteq Referrals
BY DEF Row, NoRow

\* The record of a request tells its fields.
LEMMA RequestShape ==
    ASSUME Shapes, NEW r \in Requests
    PROVE  /\ request[r].at \in {"reward", "send"} =>
                request[r].transaction \in Transactions /\ Holds(r, request[r].transaction)
           /\ request[r].at = "checked" =>
                request[r].amount \in 1 .. Cardinality(Referrals)
                /\ request[r].key \in Keys
BY DEF Shapes, Idle, Running, Holds

\* A step of a conversion run.
Conversion(w) == ConvertSave(w) \/ ConvertLost(w) \/ \E i \in Referrals : ConvertRead(w, i)

\* Whoever moves, the action is one of these.
LEMMA NextCases ==
    ASSUME Next
    PROVE  \/ \E i \in Referrals : Attach(i)
           \/ \E w \in Runs : Conversion(w)
           \/ \E r \in Requests, amount \in 1 .. Cardinality(Referrals),
                 local_bank \in BOOLEAN, key \in Keys : Check(r, amount, local_bank, key)
           \/ \E r \in Requests, t \in Transactions : Create(r, t)
           \/ \E r \in Requests : Reward(r)
           \/ \E r \in Requests : Send(r)
           \/ \E r \in Requests : RequestFails(r)
           \/ \E t \in Transactions : TransferRead(t)
           \/ \E t \in Transactions : InitiateTransfer(t)
           \/ \E t \in Transactions, verdict \in Verdicts : Settle(t, verdict)
           \/ \E t \in Transactions, verdict \in Verdicts : Webhook(t, verdict)
           \/ \E t \in Transactions : VerifyCommit(t)
           \/ \E t \in Transactions : TaskLost(t)
BY DEF Next, ReferralStep, Conversion, RequestStep, TaskStep

\* Nothing has happened at the start.
LEMMA IInvInit == Init => IInv
<1> SUFFICES ASSUME Init PROVE IInv
  OBVIOUS
<1>1. Shapes
  BY DEF Init, Shapes
<1>2. HeldAlone /\ RowFirst /\ CreditedStays
  BY DEF Init, HeldAlone, Holds, Idle, RowFirst, Untouched, CreditedStays
<1>3. VerdictsTold /\ CompletedPaid /\ RewardedBy
  BY DEF Init, VerdictsTold, Verdicts, CompletedPaid, NoRow, RewardedBy
<1>4. QED
  BY <1>1, <1>2, <1>3 DEF IInv

\* Registration and conversion reward nobody.
LEMMA ReferralKeeps ==
    ASSUME IInv, (\E i \in Referrals : Attach(i)) \/ (\E w \in Runs : Conversion(w))
    PROVE  IInv'
<1>1. UNCHANGED <<transaction, request, job, paystack, verify, credited>>
  BY DEF Attach, Conversion, ConvertRead, ConvertSave, ConvertLost
<1>2. /\ referral' \in [Referrals -> {"none", "pending", "converted", "rewarded"}]
      /\ selected' \in [Runs -> SUBSET Referrals]
      /\ \A j \in Referrals : referral'[j] = "rewarded" => referral[j] = "rewarded"
  <2>1. ASSUME NEW i \in Referrals, Attach(i)
        PROVE  <1>2!:
    BY <2>1 DEF Attach, IInv, Shapes
  <2>2. ASSUME NEW w \in Runs, NEW i \in Referrals, ConvertRead(w, i)
        PROVE  <1>2!:
    BY <2>2 DEF ConvertRead, IInv, Shapes
  <2>3. ASSUME NEW w \in Runs, ConvertSave(w)
        PROVE  <1>2!:
    BY <2>3 DEF ConvertSave, ConvertedBy, IInv, Shapes
  <2>4. ASSUME NEW w \in Runs, ConvertLost(w)
        PROVE  <1>2!:
    BY <2>4 DEF ConvertLost, IInv, Shapes
  <2>5. QED
    BY <2>1, <2>2, <2>3, <2>4 DEF Conversion
<1>3. Shapes'
  BY <1>1, <1>2 DEF IInv, Shapes
<1>4. HeldAlone' /\ RowFirst' /\ CreditedStays' /\ VerdictsTold' /\ CompletedPaid'
  BY <1>1
     DEF IInv, HeldAlone, Holds, Untouched, RowFirst, CreditedStays, VerdictsTold, CompletedPaid
<1>5. RewardedBy'
  BY <1>1, <1>2 DEF IInv, RewardedBy
<1>6. QED
  BY <1>3, <1>4, <1>5 DEF IInv

\* The checks of a POST, and a POST that dies, hold no row more than before.
LEMMA CheckStep ==
    ASSUME IInv, NEW r \in Requests,
           \/ RequestFails(r)
           \/ \E amount \in 1 .. Cardinality(Referrals), local_bank \in BOOLEAN, key \in Keys :
                 Check(r, amount, local_bank, key)
    PROVE  IInv'
<1>1. UNCHANGED <<selected, referral, transaction, job, paystack, verify, credited>>
  BY DEF RequestFails, Check
<1>2. /\ request' \in [Requests -> {Idle} \cup Running]
      /\ request'[r].at \notin {"reward", "send"}
      /\ \A s \in Requests \ {r} : request'[s] = request[s]
  <2>1. CASE RequestFails(r)
    BY <2>1 DEF RequestFails, Goto, IInv, Shapes, Idle
  <2>2. ASSUME NEW amount \in 1 .. Cardinality(Referrals), NEW local_bank \in BOOLEAN,
               NEW key \in Keys, Check(r, amount, local_bank, key)
        PROVE  <1>2!:
    <3>1. [at |-> "checked", amount |-> amount, local_bank |-> local_bank, key |-> key]
              \in Running
      BY DEF Running
    <3>2. QED
      BY <2>2, <3>1 DEF Check, Goto, IInv, Shapes
  <2>3. QED
    BY <2>1, <2>2
<1>3. Shapes'
  BY <1>1, <1>2 DEF IInv, Shapes
<1>4. HeldAlone'
  BY <1>1, <1>2 DEF IInv, HeldAlone, Holds, Untouched
<1>5. RowFirst' /\ CreditedStays' /\ VerdictsTold' /\ CompletedPaid' /\ RewardedBy'
  BY <1>1
     DEF IInv, Untouched, RowFirst, CreditedStays, VerdictsTold, CompletedPaid, RewardedBy
<1>6. QED
  BY <1>3, <1>4, <1>5 DEF IInv

\* A new row is pending, and its request is the only one that holds it.
LEMMA CreateKeeps ==
    ASSUME IInv, NEW r \in Requests, NEW t \in Transactions, Create(r, t)
    PROVE  IInv'
<1>1. UNCHANGED <<selected, referral, job, paystack, verify, credited>>
  BY DEF Create
<1>2. CASE transaction' = transaction /\ request' = [request EXCEPT ![r] = Idle]
  <2>1. Shapes'
    BY <1>1, <1>2 DEF IInv, Shapes
  <2>2. request'[r].at = "idle" /\ \A s \in Requests \ {r} : request'[s] = request[s]
    BY <1>2 DEF IInv, Shapes, Idle
  <2>3. HeldAlone'
    BY <1>1, <1>2, <2>2 DEF IInv, HeldAlone, Holds, Untouched
  <2>4. RowFirst' /\ CreditedStays' /\ VerdictsTold' /\ CompletedPaid' /\ RewardedBy'
    BY <1>1, <1>2
       DEF IInv, Untouched, RowFirst, CreditedStays, VerdictsTold, CompletedPaid, RewardedBy
  <2>5. QED
    BY <2>1, <2>3, <2>4 DEF IInv
<1>3. ASSUME NEW new \in Row, NEW at \in {"reward", "send"}, new.status = "PENDING",
             transaction' = [transaction EXCEPT ![t] = new],
             request' = [request EXCEPT ![r] = [at |-> at, transaction |-> t]]
      PROVE  IInv'
  <2>1. transaction[t] = NoRow /\ Untouched(t) /\ t \notin credited
    BY DEF Create, IInv, RowFirst
  <2>2. /\ transaction'[t] = new /\ new # NoRow
        /\ \A u \in Transactions \ {t} : transaction'[u] = transaction[u]
    BY <1>3, RowIsThere DEF IInv, Shapes
  <2>3. /\ request'[r] = [at |-> at, transaction |-> t]
        /\ \A s \in Requests \ {r} : request'[s] = request[s]
    BY <1>3 DEF IInv, Shapes
  <2>4. [at |-> at, transaction |-> t] \in Running
    BY DEF Running
  <2>5. Shapes'
    BY <1>1, <1>3, <2>4 DEF IInv, Shapes
  <2>6. \A s \in Requests : ~ Holds(s, t)
    BY <2>1 DEF IInv, HeldAlone
  <2>7. HeldAlone'
    BY <1>1, <1>3, <2>1, <2>2, <2>3, <2>6 DEF IInv, HeldAlone, Holds, Untouched
  <2>8. RowFirst' /\ CreditedStays' /\ VerdictsTold'
    BY <1>1, <2>1, <2>2 DEF IInv, Shapes, Untouched, RowFirst, CreditedStays, VerdictsTold
  <2>9. CompletedPaid' /\ RewardedBy'
    BY <1>1, <1>3, <2>1, <2>2 DEF IInv, CompletedPaid, RewardedBy
  <2>10. QED
    BY <2>5, <2>7, <2>8, <2>9 DEF IInv
<1>4. QED
  <2>1. request[r].at = "checked"
    BY DEF Create
  <2>2. request[r].amount \in 1 .. Cardinality(Referrals) /\ request[r].key \in Keys
    BY <2>1, RequestShape DEF IInv
  <2>3. PICK n : \E chosen \in kSubset(n, Converted) :
            IF chosen = {}
            THEN Goto(r, Idle) /\ UNCHANGED transaction
            ELSE /\ transaction' = [transaction EXCEPT ![t] =
                      [status |-> "PENDING", amount |-> request[r].amount,
                       referrals |-> chosen, key |-> request[r].key]]
                 /\ Goto(r, [at |-> IF request[r].local_bank THEN "send" ELSE "reward",
                             transaction |-> t])
    BY DEF Create
  <2>4. PICK chosen \in kSubset(n, Converted) :
            IF chosen = {}
            THEN Goto(r, Idle) /\ UNCHANGED transaction
            ELSE /\ transaction' = [transaction EXCEPT ![t] =
                      [status |-> "PENDING", amount |-> request[r].amount,
                       referrals |-> chosen, key |-> request[r].key]]
                 /\ Goto(r, [at |-> IF request[r].local_bank THEN "send" ELSE "reward",
                             transaction |-> t])
    BY <2>3
  <2>5. chosen \subseteq Referrals
    BY DEF kSubset, Converted
  <2> DEFINE new == [status |-> "PENDING", amount |-> request[r].amount,
                     referrals |-> chosen, key |-> request[r].key]
  <2>6. new \in Row /\ new.status = "PENDING"
    BY <2>2, <2>5 DEF Row
  <2>7. (IF request[r].local_bank THEN "send" ELSE "reward") \in {"reward", "send"}
    OBVIOUS
  <2>8. QED
    BY <1>2, <1>3, <2>4, <2>6, <2>7 DEF Goto

\* A credit completes the row, which no task has been sent for yet.
LEMMA RewardKeeps ==
    ASSUME IInv, NEW r \in Requests, Reward(r)
    PROVE  IInv'
<1> DEFINE t == request[r].transaction
<1>1. t \in Transactions /\ Holds(r, t)
  BY RequestShape DEF Reward, AfterReward, IInv
<1>2. /\ transaction[t] # NoRow /\ transaction[t] \in Row /\ Untouched(t)
      /\ \A s \in Requests : Holds(s, t) => s = r
  BY <1>1 DEF IInv, HeldAlone, Shapes
<1>3. /\ transaction' = [transaction EXCEPT ![t].status = "COMPLETED"]
      /\ referral' = Rewarded(t) /\ credited' = credited \cup {t}
      /\ request' = [request EXCEPT ![r] = [at |-> "send", transaction |-> t]]
      /\ UNCHANGED <<selected, job, paystack, verify>>
  BY DEF Reward, AfterReward, Goto
<1> HIDE DEF t
<1>4. [transaction[t] EXCEPT !.status = "COMPLETED"] \in Row
          /\ [transaction[t] EXCEPT !.status = "COMPLETED"].status = "COMPLETED"
          /\ [transaction[t] EXCEPT !.status = "COMPLETED"].referrals = transaction[t].referrals
  BY <1>2 DEF Row
<1>5. /\ transaction'[t] \in Row /\ transaction'[t].status = "COMPLETED"
      /\ transaction'[t].referrals = transaction[t].referrals
      /\ transaction'[t] # NoRow
      /\ \A u \in Transactions \ {t} : transaction'[u] = transaction[u]
      /\ transaction' \in [Transactions -> {NoRow} \cup Row]
  BY <1>1, <1>3, <1>4, RowIsThere DEF IInv, Shapes
<1>6. /\ request' \in [Requests -> {Idle} \cup Running]
      /\ request'[r] = [at |-> "send", transaction |-> t]
      /\ \A s \in Requests \ {r} : request'[s] = request[s]
  <2>1. [at |-> "send", transaction |-> t] \in Running
    BY <1>1 DEF Running
  <2>2. QED
    BY <1>3, <2>1 DEF IInv, Shapes
<1>7. /\ referral' \in [Referrals -> {"none", "pending", "converted", "rewarded"}]
      /\ \A i \in Referrals : referral'[i] = "rewarded" =>
            i \in transaction[t].referrals \/ referral[i] = "rewarded"
  BY <1>3 DEF Rewarded, IInv, Shapes
<1>8. Shapes'
  BY <1>1, <1>3, <1>5, <1>6, <1>7 DEF IInv, Shapes
<1>9. HeldAlone'
  <2> SUFFICES ASSUME NEW s \in Requests, NEW u \in Transactions, Holds(s, u)'
               PROVE  /\ transaction'[u] # NoRow
                      /\ Untouched(u)'
                      /\ \A q \in Requests : Holds(q, u)' => q = s
                      /\ request'[s].at = "reward" =>
                            transaction'[u].status = "PENDING" /\ u \notin credited'
    BY DEF HeldAlone
  <2>1. \A q \in Requests, v \in Transactions : Holds(q, v)' => Holds(q, v)
    BY <1>1, <1>6 DEF Holds
  <2>2. /\ transaction[u] # NoRow /\ Untouched(u)
        /\ \A q \in Requests : Holds(q, u) => q = s
        /\ request[s].at = "reward" => transaction[u].status = "PENDING" /\ u \notin credited
    BY <2>1 DEF IInv, HeldAlone
  <2>3. /\ transaction'[u] # NoRow
        /\ Untouched(u)'
        /\ \A q \in Requests : Holds(q, u)' => q = s
    BY <1>3, <1>5, <2>1, <2>2 DEF Untouched
  <2>4. ASSUME request'[s].at = "reward"
        PROVE  transaction'[u].status = "PENDING" /\ u \notin credited'
    <3>1. s # r
      BY <1>6, <2>4
    <3>2. u # t
      BY <1>1, <2>1, <2>2, <3>1
    <3>3. QED
      BY <1>3, <1>5, <1>6, <2>2, <2>4, <3>1, <3>2
  <2>5. QED
    BY <2>3, <2>4
<1>10. RowFirst' /\ VerdictsTold' /\ CompletedPaid'
  BY <1>1, <1>3, <1>5 DEF IInv, Untouched, RowFirst, VerdictsTold, CompletedPaid
<1>11. CreditedStays'
  BY <1>1, <1>2, <1>3, <1>5 DEF IInv, Shapes, Untouched, CreditedStays
<1>12. RewardedBy'
  BY <1>1, <1>5, <1>7 DEF IInv, RewardedBy
<1>13. QED
  BY <1>8, <1>9, <1>10, <1>11, <1>12 DEF IInv

\* The task is sent and the row let go.
LEMMA SendKeeps ==
    ASSUME IInv, NEW r \in Requests, Send(r)
    PROVE  IInv'
<1>1. PICK t \in Transactions : t = request[r].transaction /\ Holds(r, t)
  BY RequestShape DEF Send, IInv
<1>2. transaction[t] # NoRow /\ \A s \in Requests : Holds(s, t) => s = r
  BY <1>1 DEF IInv, HeldAlone
<1>3. /\ UNCHANGED <<selected, referral, transaction, paystack, verify, credited>>
      /\ job' = [job EXCEPT ![t] = "queued"] /\ request' = [request EXCEPT ![r] = Idle]
  BY <1>1 DEF Send, Goto
<1>4. request'[r].at = "idle" /\ \A s \in Requests \ {r} : request'[s] = request[s]
  BY <1>3 DEF IInv, Shapes, Idle
<1>5. job'[t] = "queued" /\ \A u \in Transactions \ {t} : job'[u] = job[u]
  BY <1>3 DEF IInv, Shapes
<1>6. Shapes'
  BY <1>3 DEF IInv, Shapes
<1>7. HeldAlone'
  <2>1. \A s \in Requests, u \in Transactions : Holds(s, u)' =>
           s # r /\ u # t /\ Holds(s, u) /\ request'[s] = request[s]
    BY <1>2, <1>4 DEF Holds
  <2>2. ASSUME NEW u \in Transactions, u # t
        PROVE  (Untouched(u) => Untouched(u)') /\ transaction'[u] = transaction[u]
    BY <1>3, <1>5, <2>2 DEF Untouched
  <2>3. QED
    BY <1>3, <2>1, <2>2 DEF IInv, HeldAlone
<1>8. RowFirst' /\ CreditedStays' /\ VerdictsTold' /\ CompletedPaid' /\ RewardedBy'
  BY <1>2, <1>3, <1>5
     DEF IInv, Shapes, Untouched, RowFirst, CreditedStays, VerdictsTold, CompletedPaid, RewardedBy
<1>9. QED
  BY <1>6, <1>7, <1>8 DEF IInv

\* A task or Paystack works on rows whose task was sent, and Paystack is asked
\* only for rows that were pending.
LEMMA TransferKeeps ==
    ASSUME IInv, NEW t \in Transactions,
           \/ TransferRead(t) \/ InitiateTransfer(t) \/ TaskLost(t)
           \/ \E verdict \in Verdicts : Settle(t, verdict) \/ Webhook(t, verdict)
    PROVE  IInv'
<1>1. UNCHANGED <<selected, referral, transaction, request, credited>>
  BY DEF TransferRead, InitiateTransfer, TaskLost, Settle, Webhook
<1>2. ~ Untouched(t)
  BY DEF TransferRead, InitiateTransfer, TaskLost, Settle, Webhook, Untouched, Verdicts
<1>3. transaction[t] # NoRow /\ \A r \in Requests : ~ Holds(r, t)
  BY <1>2 DEF IInv, HeldAlone, RowFirst
<1>4. Shapes' /\ \A u \in Transactions \ {t} :
          job'[u] = job[u] /\ paystack'[u] = paystack[u] /\ verify'[u] = verify[u]
  <2>1. CASE TransferRead(t)
    BY <2>1 DEF TransferRead, IInv, Shapes
  <2>2. CASE InitiateTransfer(t)
    BY <2>2 DEF InitiateTransfer, IInv, Shapes
  <2>3. CASE TaskLost(t)
    BY <2>3 DEF TaskLost, IInv, Shapes
  <2>4. ASSUME NEW verdict \in Verdicts, Settle(t, verdict) \/ Webhook(t, verdict)
        PROVE  <1>4!:
    BY <2>4 DEF Settle, Webhook, IInv, Shapes
  <2>5. QED
    BY <2>1, <2>2, <2>3, <2>4
<1>5. t \in credited => job'[t] # "asking" /\ paystack'[t] = {}
  BY DEF TransferRead, InitiateTransfer, TaskLost, Settle, Webhook, MayTransfer,
         IInv, Shapes, CreditedStays
<1>6. "success" \in paystack[t] => "success" \in paystack'[t]
  BY DEF TransferRead, InitiateTransfer, TaskLost, Settle, Webhook, IInv, Shapes
<1>7. verify'[t] \in Verdicts => verify'[t] \in paystack'[t]
  <2>1. CASE TransferRead(t)
    BY <2>1 DEF TransferRead, IInv, Shapes, VerdictsTold
  <2>2. CASE InitiateTransfer(t)
    BY <2>2 DEF InitiateTransfer, IInv, Shapes, VerdictsTold
  <2>3. CASE TaskLost(t)
    BY <2>3 DEF TaskLost, IInv, Shapes, VerdictsTold, Verdicts
  <2>4. ASSUME NEW verdict \in Verdicts, Settle(t, verdict) \/ Webhook(t, verdict)
        PROVE  <1>7!:
    BY <2>4 DEF Settle, Webhook, IInv, Shapes, VerdictsTold
  <2>5. QED
    BY <2>1, <2>2, <2>3, <2>4
<1>8. HeldAlone' /\ RowFirst'
  BY <1>1, <1>3, <1>4 DEF IInv, HeldAlone, Holds, Untouched, RowFirst
<1>9. CreditedStays' /\ VerdictsTold' /\ CompletedPaid' /\ RewardedBy'
  BY <1>1, <1>4, <1>5, <1>6, <1>7
     DEF IInv, Shapes, CreditedStays, VerdictsTold, CompletedPaid, RewardedBy
<1>10. QED
  BY <1>4, <1>8, <1>9 DEF IInv

\* A verification completes a row only on success, and rewards its referrals.
LEMMA VerifyKeeps ==
    ASSUME IInv, NEW t \in Transactions, VerifyCommit(t)
    PROVE  IInv'
<1>1. /\ UNCHANGED <<selected, request, job, paystack, credited>>
      /\ verify' = [verify EXCEPT ![t] = "done"] /\ verify[t] \in Verdicts
  BY DEF VerifyCommit
<1>2. ~ Untouched(t) /\ verify[t] \in paystack[t]
  BY <1>1 DEF Untouched, Verdicts, IInv, VerdictsTold
<1>3. /\ transaction[t] # NoRow /\ transaction[t] \in Row
      /\ \A r \in Requests : ~ Holds(r, t)
  BY <1>2 DEF IInv, HeldAlone, RowFirst, Shapes
<1>4. /\ verify'[t] = "done" /\ "done" \notin Verdicts
      /\ \A u \in Transactions \ {t} : verify'[u] = verify[u]
  BY <1>1 DEF IInv, Shapes, Verdicts
<1>5. CASE Refused(t)
  <2>1. UNCHANGED <<referral, transaction>>
    BY <1>5 DEF VerifyCommit
  <2>2. Shapes'
    BY <1>1, <2>1 DEF IInv, Shapes
  <2>3. HeldAlone' /\ RowFirst'
    BY <1>1, <1>3, <1>4, <2>1 DEF IInv, HeldAlone, Holds, Untouched, RowFirst
  <2>4. CreditedStays' /\ VerdictsTold' /\ CompletedPaid' /\ RewardedBy'
    BY <1>1, <1>4, <2>1 DEF IInv, CreditedStays, VerdictsTold, CompletedPaid, RewardedBy
  <2>5. QED
    BY <2>2, <2>3, <2>4 DEF IInv
<1>6. CASE ~ Refused(t)
  <2>1. PICK status : status = StatusOf(verify[t])
    OBVIOUS
  <2>2. /\ transaction[t].status = "PENDING"
        /\ transaction' = [transaction EXCEPT ![t].status = status]
        /\ referral' = IF status = "COMPLETED" THEN Rewarded(t) ELSE referral
    BY <1>6, <2>1 DEF VerifyCommit, Refused
  <2>3. status \in {"COMPLETED", "FAILED", "REVERSED"}
            /\ (status = "COMPLETED" => verify[t] = "success")
    BY <1>1, <2>1 DEF StatusOf, Verdicts
  <2>4. /\ [transaction[t] EXCEPT !.status = status] \in Row
        /\ [transaction[t] EXCEPT !.status = status].status = status
        /\ [transaction[t] EXCEPT !.status = status].referrals = transaction[t].referrals
    BY <1>3, <2>3 DEF Row
  <2>5. /\ transaction'[t] \in Row /\ transaction'[t].status = status
        /\ transaction'[t].referrals = transaction[t].referrals
        /\ transaction'[t] # NoRow
        /\ \A u \in Transactions \ {t} : transaction'[u] = transaction[u]
        /\ transaction' \in [Transactions -> {NoRow} \cup Row]
    BY <2>2, <2>4, RowIsThere DEF IInv, Shapes
  <2>6. /\ referral' \in [Referrals -> {"none", "pending", "converted", "rewarded"}]
        /\ \A i \in Referrals : referral'[i] = "rewarded" =>
              \/ status = "COMPLETED" /\ i \in transaction[t].referrals
              \/ referral[i] = "rewarded"
    BY <2>2 DEF Rewarded, IInv, Shapes
  <2>7. t \notin credited
    BY <2>2 DEF IInv, CreditedStays
  <2>8. Shapes'
    BY <1>1, <2>5, <2>6 DEF IInv, Shapes
  <2>9. HeldAlone' /\ RowFirst'
    BY <1>1, <1>3, <1>4, <2>5 DEF IInv, HeldAlone, Holds, Untouched, RowFirst
  <2>10. CreditedStays' /\ VerdictsTold'
    BY <1>1, <1>4, <2>5, <2>7 DEF IInv, Shapes, CreditedStays, VerdictsTold
  <2>11. CompletedPaid'
    BY <1>1, <1>2, <2>3, <2>5 DEF IInv, CompletedPaid
  <2>12. RewardedBy'
    BY <2>2, <2>5, <2>6 DEF IInv, RewardedBy
  <2>13. QED
    BY <2>8, <2>9, <2>10, <2>11, <2>12 DEF IInv
<1>7. QED
  BY <1>5, <1>6

\* Every step keeps the invariant.
LEMMA IInvStep == IInv /\ [Next]_vars => IInv'
<1> SUFFICES ASSUME IInv, [Next]_vars PROVE IInv'
  OBVIOUS
<1>1. CASE UNCHANGED vars
  <2>1. UNCHANGED <<selected, referral, transaction, request, job, paystack, verify, credited>>
    BY <1>1 DEF vars
  <2>2. Shapes' /\ HeldAlone' /\ RowFirst'
    <3>1. Shapes'
      BY <2>1 DEF IInv, Shapes
    <3>2. \A r \in Requests, t \in Transactions :
             Holds(r, t)' = Holds(r, t) /\ Untouched(t)' = Untouched(t)
      BY <2>1 DEF Holds, Untouched
    <3>3. HeldAlone'
      BY <2>1, <3>2 DEF IInv, HeldAlone
    <3>4. RowFirst'
      BY <2>1 DEF IInv, RowFirst, Untouched
    <3>5. QED
      BY <3>1, <3>3, <3>4
  <2>3. CreditedStays' /\ VerdictsTold' /\ CompletedPaid' /\ RewardedBy'
    BY <2>1 DEF IInv, CreditedStays, VerdictsTold, CompletedPaid, RewardedBy
  <2>4. QED
    BY <2>2, <2>3 DEF IInv
<1>2. CASE Next
  BY <1>2, NextCases, ReferralKeeps, CheckStep, CreateKeeps, RewardKeeps, SendKeeps,
     TransferKeeps, VerifyKeeps
<1>3. QED
  BY <1>1, <1>2

\* However POSTs and conversions overlap and tasks fail, a rewarded referral
\* belongs to a withdrawal that completed, one that completed was paid, and no
\* withdrawal is paid into the wallet and by a transfer (referral/tasks.py:115).
THEOREM RewardsAlwaysPaid == Spec => []RewardsArePaid
<1>1. IInv => RewardsArePaid
  BY DEF IInv, CreditedStays, CompletedPaid, RewardedBy, RewardsArePaid
<1>2. QED
  BY <1>1, IInvInit, IInvStep, PTL DEF Spec

-----------------------------------------------------------------------------
(* The balance                                                             *)

\* Each credited row has brought one commission for each referral at most.
BalanceBacked ==
    balance \in Nat /\ balance <= Cardinality(credited) * Cardinality(Referrals)

LEMMA Counts ==
    /\ Cardinality(Referrals) \in Nat /\ Cardinality(Transactions) \in Nat
    /\ \A S \in SUBSET Transactions :
          /\ IsFiniteSet(S) /\ Cardinality(S) \in Nat
          /\ Cardinality(S) <= Cardinality(Transactions)
    /\ \A S \in SUBSET Referrals : IsFiniteSet(S) /\ Cardinality(S) \in Nat
BY ReferralAssumption, FS_Subset, FS_CardinalityType

\* Only a reward moves the balance.
LEMMA OnlyRewardPays ==
    ASSUME [Next]_vars
    PROVE  UNCHANGED <<balance, credited>> \/ \E r \in Requests : Reward(r)
<1>1. CASE UNCHANGED vars
  BY <1>1 DEF vars
<1>2. CASE Next
  BY <1>2, NextCases
     DEF Attach, Conversion, ConvertRead, ConvertSave, ConvertLost, Check, Create, Send, RequestFails, TransferRead, InitiateTransfer,
         Settle, Webhook, VerifyCommit, TaskLost
<1>3. QED
  BY <1>1, <1>2

LEMMA BalanceStep == IInv /\ BalanceBacked /\ [Next]_vars => BalanceBacked'
<1> SUFFICES ASSUME IInv, BalanceBacked, [Next]_vars PROVE BalanceBacked'
  OBVIOUS
<1>1. CASE UNCHANGED <<balance, credited>>
  BY <1>1 DEF BalanceBacked
<1>2. ASSUME NEW r \in Requests, Reward(r)
      PROVE  BalanceBacked'
  <2>1. PICK t \in Transactions : t = request[r].transaction /\ Holds(r, t)
    BY <1>2, RequestShape DEF Reward, AfterReward, IInv
  <2>2. t \notin credited /\ transaction[t] \in Row /\ credited \subseteq Transactions
    BY <1>2, <2>1 DEF Reward, AfterReward, IInv, HeldAlone, Shapes
  <2>3. PICK a \in Nat, n \in Nat : a = transaction[t].amount /\ n = Cardinality(Referrals) /\ a <= n
    BY <2>2, Counts DEF Row
  <2>4. balance' = balance + a /\ credited' = credited \cup {t}
    BY <1>2, <2>1, <2>3 DEF Reward, AfterReward
  <2>5. PICK b \in Nat, c \in Nat : b = balance /\ c = Cardinality(credited) /\ b <= c * n
    BY <2>2, <2>3, Counts DEF BalanceBacked
  <2>6. Cardinality(credited') = c + 1
    BY <2>2, <2>4, <2>5, Counts, FS_AddElement
  <2>7. b + a <= (c + 1) * n
    BY <2>3, <2>5
  <2>8. b + a \in Nat
    BY <2>3, <2>5
  <2>9. QED
    BY <2>3, <2>4, <2>5, <2>6, <2>7, <2>8 DEF BalanceBacked
<1>3. QED
  BY <1>1, <1>2, OnlyRewardPays

\* However POSTs overlap and tasks are lost, every variable keeps its shape,
\* and the wallet never gets more than all rows together can be worth.
THEOREM TypeCorrect == Spec => []TypeOK
<1>1. Init => BalanceBacked
  <2> SUFFICES ASSUME Init PROVE BalanceBacked
    OBVIOUS
  <2>1. balance = 0 /\ Cardinality(credited) = 0
    BY FS_EmptySet DEF Init
  <2>2. 0 <= 0 * Cardinality(Referrals)
    BY Counts
  <2>3. QED
    BY <2>1, <2>2 DEF BalanceBacked
<1> DEFINE Flag == overlapped \in BOOLEAN
<1>a. Init => Flag
  BY Zenon DEF Init
<1>b. Flag /\ [Next]_vars => Flag'
  BY DEF Next, vars
<1>2. IInv /\ BalanceBacked /\ Flag => TypeOK
  <2> SUFFICES ASSUME IInv, BalanceBacked, Flag PROVE TypeOK
    OBVIOUS
  <2>1. PICK c \in Nat, m \in Nat, n \in Nat :
           /\ c = Cardinality(credited) /\ m = Cardinality(Transactions)
           /\ n = Cardinality(Referrals) /\ c <= m
    BY Counts DEF IInv, Shapes
  <2>2. c * n <= m * n
    <3>1. PICK d \in Nat : d = m - c
      BY <2>1
    <3>2. m * n = c * n + d * n /\ d * n >= 0 /\ c * n \in Int /\ d * n \in Int
      BY <2>1, <3>1
    <3>3. QED
      BY <2>1, <3>2
  <2>3. PICK b \in Nat : b = balance /\ b <= c * n
    BY <2>1 DEF BalanceBacked
  <2>4. b \in 0 .. m * n
    BY <2>1, <2>2, <2>3
  <2>5. QED
    BY <2>1, <2>3, <2>4 DEF IInv, Shapes, TypeOK
<1> HIDE DEF Flag
<1>3. QED
  BY <1>1, <1>2, <1>a, <1>b, IInvInit, IInvStep, BalanceStep, PTL DEF Spec

-----------------------------------------------------------------------------
(* One POST at a time, and one conversion of a referral                    *)

\* Until the history variable says otherwise, no two POSTs have been in
\* flight at once, nor has a referral been selected twice.
LEMMA NoOverlapYet ==
    /\ [Next]_vars /\ ~ overlapped' => ~ overlapped
    /\ [Next]_vars /\ ~ overlapped' /\ ~ Overlap => ~ Overlap'
BY DEF Next, vars, Overlap

\* What a conversion has selected is still pending.
SelectedPending == \A w \in Runs : \A i \in selected[w] : referral[i] = "pending"

PaidOnce == balance = Cardinality({i \in Referrals : referral[i] = "rewarded"})

\* What a row holds has been converted.
RowsConverted ==
    \A t \in Transactions : transaction[t] # NoRow =>
        \A i \in transaction[t].referrals : referral[i] \in {"converted", "rewarded"}

\* A POST that asked for what is there still finds it, and its row names as
\* many referrals as it pays for, none of them paid yet.
PostSees ==
    \A r \in Requests :
        /\ request[r].at = "checked" => request[r].amount <= Cardinality(Converted)
        /\ \A t \in Transactions :
              request[r].at = "reward" /\ request[r].transaction = t =>
                 /\ transaction[t].amount = Cardinality(transaction[t].referrals)
                 /\ \A i \in transaction[t].referrals : referral[i] = "converted"

EachOnce == RowsConverted /\ PostSees /\ PaidOnce

\* A verification rewards nobody who is not rewarded already.
LEMMA VerifyRewardsNobody ==
    ASSUME IInv, RowsConverted, NEW t \in Transactions, VerifyCommit(t)
    PROVE  UNCHANGED <<referral, balance, request>>
           /\ \A u \in Transactions :
                 /\ transaction[u] = NoRow => transaction'[u] = NoRow
                 /\ transaction'[u] # NoRow =>
                       /\ transaction'[u].referrals = transaction[u].referrals
                       /\ transaction'[u].amount = transaction[u].amount
<1>1. /\ transaction[t] # NoRow /\ transaction[t] \in Row
  BY DEF VerifyCommit, Verdicts, IInv, RowFirst, Untouched, Shapes
<1>2. CASE Refused(t)
  BY <1>2 DEF VerifyCommit
<1>3. CASE ~ Refused(t)
  <2>1. \A i \in transaction[t].referrals : referral[i] = "rewarded"
    BY <1>1, <1>3 DEF Refused, RowsConverted
  <2>2. Rewarded(t) = referral
    <3>1. \A i \in Referrals :
             (IF i \in transaction[t].referrals THEN "rewarded" ELSE referral[i]) = referral[i]
      BY <2>1
    <3>2. QED
      BY <3>1 DEF Rewarded, IInv, Shapes
  <2>3. referral' = referral
    BY <1>3, <2>2 DEF VerifyCommit
  <2>4. PICK status : transaction' = [transaction EXCEPT ![t].status = status]
    BY <1>3 DEF VerifyCommit
  <2>5. /\ \A u \in Transactions \ {t} : transaction'[u] = transaction[u]
        /\ transaction'[t].referrals = transaction[t].referrals
        /\ transaction'[t].amount = transaction[t].amount
    BY <1>1, <2>4 DEF Row, IInv, Shapes
  <2>6. UNCHANGED <<balance, request>>
    BY DEF VerifyCommit
  <2>7. QED
    BY <1>1, <2>3, <2>5, <2>6
<1>4. QED
  BY <1>2, <1>3

\* A step that rewards nobody, and makes no row, keeps the account straight.
LEMMA NothingPaid ==
    ASSUME IInv, EachOnce, UNCHANGED <<referral, balance>>,
           \A u \in Transactions :
              transaction'[u] # NoRow =>
                 /\ transaction[u] # NoRow
                 /\ transaction'[u].referrals = transaction[u].referrals
                 /\ transaction'[u].amount = transaction[u].amount,
           \A r \in Requests :
              \/ request'[r] = request[r]
              \/ request'[r].at \in {"idle", "send"}
              \/ request'[r].at = "checked" /\ request'[r].amount <= Cardinality(Converted),
           \A r \in Requests, t \in Transactions :
              request[r].at = "reward" /\ request[r].transaction = t => transaction'[t] # NoRow
    PROVE  EachOnce'
<1>1. Converted' = Converted
  BY DEF Converted
<1>2. RowsConverted'
  BY DEF EachOnce, RowsConverted
<1>3. PostSees'
  BY <1>1 DEF EachOnce, PostSees
<1>4. PaidOnce'
  BY DEF EachOnce, PaidOnce
<1>5. QED
  BY <1>2, <1>3, <1>4 DEF EachOnce

\* A selected referral is in no row, and only its run changes it.
LEMMA SelectedStep ==
    IInv /\ RowsConverted /\ SelectedPending /\ ~ Overlap /\ [Next]_vars => SelectedPending'
<1> SUFFICES ASSUME IInv, RowsConverted, SelectedPending, ~ Overlap, [Next]_vars
             PROVE  SelectedPending'
  OBVIOUS
<1>1. CASE UNCHANGED <<referral, selected>>
  BY <1>1 DEF SelectedPending
<1>2. ASSUME NEW i \in Referrals, Attach(i)
      PROVE  SelectedPending'
  BY <1>2 DEF Attach, SelectedPending, IInv, Shapes
<1>3. ASSUME NEW w \in Runs, NEW i \in Referrals, ConvertRead(w, i)
      PROVE  SelectedPending'
  BY <1>3 DEF ConvertRead, SelectedPending, IInv, Shapes
<1>4. ASSUME NEW w \in Runs, ConvertSave(w)
      PROVE  SelectedPending'
  <2>1. /\ selected'[w] = {} /\ \A v \in Runs \ {w} : selected'[v] = selected[v]
        /\ \A i \in Referrals \ selected[w] : referral'[i] = referral[i]
        /\ \A v \in Runs : selected[v] \subseteq Referrals
    BY <1>4 DEF ConvertSave, ConvertedBy, IInv, Shapes
  <2>2. \A v \in Runs \ {w} : selected[v] \cap selected[w] = {}
    BY DEF Overlap
  <2>3. QED
    BY <2>1, <2>2 DEF SelectedPending
<1>5. ASSUME NEW w \in Runs, ConvertLost(w)
      PROVE  SelectedPending'
  BY <1>5 DEF ConvertLost, SelectedPending, IInv, Shapes
<1>6. ASSUME NEW r \in Requests, Reward(r)
      PROVE  SelectedPending'
  <2>1. PICK t \in Transactions : t = request[r].transaction /\ Holds(r, t)
    BY <1>6, RequestShape DEF Reward, AfterReward, IInv
  <2>2. transaction[t] # NoRow
    BY <2>1 DEF IInv, HeldAlone
  <2>3. /\ UNCHANGED selected
        /\ \A i \in Referrals \ transaction[t].referrals : referral'[i] = referral[i]
    BY <1>6, <2>1 DEF Reward, Rewarded
  <2>4. \A i \in transaction[t].referrals : referral[i] \in {"converted", "rewarded"}
    BY <2>2 DEF RowsConverted
  <2>5. QED
    BY <2>3, <2>4 DEF SelectedPending, IInv, Shapes
<1>7. ASSUME NEW t \in Transactions, VerifyCommit(t)
      PROVE  SelectedPending'
  <2>1. UNCHANGED <<referral, selected>>
    BY <1>7, VerifyRewardsNobody DEF VerifyCommit
  <2>2. QED
    BY <1>1, <2>1
<1>8. ASSUME NEW r \in Requests,
             \/ Send(r) \/ RequestFails(r)
             \/ \E t \in Transactions : Create(r, t)
             \/ \E amount \in 1 .. Cardinality(Referrals), local_bank \in BOOLEAN, key \in Keys :
                   Check(r, amount, local_bank, key)
      PROVE  SelectedPending'
  <2>1. UNCHANGED <<referral, selected>>
    BY <1>8 DEF Send, RequestFails, Create, Check
  <2>2. QED
    BY <1>1, <2>1
<1>9. ASSUME NEW t \in Transactions,
             \/ TransferRead(t) \/ InitiateTransfer(t) \/ TaskLost(t)
             \/ \E verdict \in Verdicts : Settle(t, verdict) \/ Webhook(t, verdict)
      PROVE  SelectedPending'
  <2>1. UNCHANGED <<referral, selected>>
    BY <1>9 DEF TransferRead, InitiateTransfer, TaskLost, Settle, Webhook
  <2>2. QED
    BY <1>1, <2>1
<1>10. CASE UNCHANGED vars
  BY <1>1, <1>10 DEF vars
<1>11. QED
  BY <1>2, <1>3, <1>4, <1>5, <1>6, <1>7, <1>8, <1>9, <1>10, NextCases DEF Conversion

LEMMA EachOnceStep ==
    IInv /\ EachOnce /\ SelectedPending /\ ~ Overlap /\ [Next]_vars => EachOnce'
<1> SUFFICES ASSUME IInv, EachOnce, SelectedPending, ~ Overlap, [Next]_vars PROVE EachOnce'
  OBVIOUS
\* a POST in flight is the only one
<1>d. ASSUME NEW r \in Requests, request[r].at # "idle", NEW step,
             request' = [request EXCEPT ![r] = step]
      PROVE  request'[r] = step /\ \A s \in Requests : s # r => request'[s].at = "idle"
  BY <1>d DEF Overlap, IInv, Shapes
<1>a. \A r \in Requests, t \in Transactions :
         request[r].at = "reward" /\ request[r].transaction = t => transaction[t] # NoRow
  BY DEF IInv, HeldAlone, Holds
<1>b. Idle.at = "idle"
  BY DEF Idle
\* rows and balance as they were, one request perhaps elsewhere
<1>c. ASSUME UNCHANGED <<referral, transaction, balance>>,
             \/ UNCHANGED request
             \/ \E r \in Requests : request' = [request EXCEPT ![r] = Idle]
      PROVE  EachOnce'
  BY <1>a, <1>b, <1>c, NothingPaid DEF IInv, Shapes
<1>1. ASSUME (\E i \in Referrals : Attach(i)) \/ (\E w \in Runs : Conversion(w))
      PROVE  EachOnce'
  <2>1. UNCHANGED <<transaction, balance, request>>
    BY <1>1 DEF Attach, Conversion, ConvertRead, ConvertSave, ConvertLost
  <2> DEFINE Advanced(new) ==
         /\ \A i \in new : /\ referral[i] \in {"none", "pending"}
                           /\ referral'[i] \in {"pending", "converted"}
         /\ \A i \in Referrals \ new : referral'[i] = referral[i]
  <2>2. PICK new \in SUBSET Referrals : Advanced(new)
    <3>1. ASSUME NEW i \in Referrals, Attach(i)
          PROVE  \E new \in SUBSET Referrals : Advanced(new)
      <4>1. /\ referral[i] = "none" /\ referral'[i] = "pending"
            /\ \A j \in Referrals \ {i} : referral'[j] = referral[j]
        BY <3>1 DEF Attach, IInv, Shapes
      <4>2. {i} \in SUBSET Referrals
        OBVIOUS
      <4>3. Advanced({i})
        BY <4>1
      <4>4. QED
        BY <4>2, <4>3
    <3>2. ASSUME NEW w \in Runs, ConvertSave(w)
          PROVE  \E new \in SUBSET Referrals : Advanced(new)
      <4>1. /\ selected[w] \in SUBSET Referrals
            /\ \A i \in selected[w] : referral[i] = "pending"
        BY DEF SelectedPending, IInv, Shapes
      <4>2. /\ \A i \in selected[w] : referral'[i] = "converted"
            /\ \A i \in Referrals \ selected[w] : referral'[i] = referral[i]
        BY <3>2, <4>1 DEF ConvertSave, ConvertedBy
      <4>3. Advanced(selected[w])
        BY <4>1, <4>2
      <4>4. QED
        BY <4>1, <4>3
    <3>3. CASE UNCHANGED referral
      <4>1. {} \in SUBSET Referrals
        OBVIOUS
      <4>2. Advanced({})
        BY <3>3
      <4>3. QED
        BY <4>1, <4>2
    <3> HIDE DEF Advanced
    <3>4. QED
      BY <1>1, <3>1, <3>2, <3>3 DEF Conversion, ConvertRead, ConvertLost
  <2>3. \A t \in Transactions : transaction[t] # NoRow =>
           transaction[t].referrals \cap new = {} /\ transaction[t].referrals \subseteq Referrals
    BY <2>2, RowIsThere DEF EachOnce, RowsConverted, IInv, Shapes
  <2>4. /\ Converted \subseteq Converted' /\ Converted' \subseteq Referrals
    BY <2>2 DEF Converted
  <2>5. Cardinality(Converted) <= Cardinality(Converted')
        /\ Cardinality(Converted) \in Nat /\ Cardinality(Converted') \in Nat
    BY <2>4, Counts, FS_Subset
  <2>6. RowsConverted'
    BY <2>1, <2>2, <2>3 DEF EachOnce, RowsConverted
  <2>7. PostSees'
    <3>1. \A r \in Requests : request[r].at = "checked" =>
             request[r].amount \in Nat /\ request[r].amount <= Cardinality(Converted)
      BY RequestShape, Counts DEF IInv, EachOnce, PostSees
    <3>2. \A r \in Requests : request[r].at = "checked" =>
             request[r].amount <= Cardinality(Converted')
      BY <2>5, <3>1
    <3>3. QED
      BY <1>a, <2>1, <2>2, <2>3, <3>2 DEF EachOnce, PostSees
  <2>8. PaidOnce'
    <3>1. {j \in Referrals : referral'[j] = "rewarded"} = {j \in Referrals : referral[j] = "rewarded"}
      BY <2>2
    <3>2. QED
      BY <2>1, <3>1 DEF EachOnce, PaidOnce
  <2>9. QED
    BY <2>6, <2>7, <2>8 DEF EachOnce
<1>2. ASSUME NEW r \in Requests, NEW amount \in 1 .. Cardinality(Referrals),
             NEW local_bank \in BOOLEAN, NEW key \in Keys, Check(r, amount, local_bank, key)
      PROVE  EachOnce'
  <2>1. PICK step : step = [at |-> "checked", amount |-> amount,
                            local_bank |-> local_bank, key |-> key]
    OBVIOUS
  <2>2. /\ step.at = "checked" /\ step.amount <= Cardinality(Converted)
        /\ request' = [request EXCEPT ![r] = step]
        /\ UNCHANGED <<referral, transaction, balance>>
    BY <1>2, <2>1 DEF Check, Goto
  <2>3. request'[r] = step /\ \A s \in Requests : s # r => request'[s] = request[s]
    BY <2>2 DEF IInv, Shapes
  <2>4. QED
    BY <1>a, <2>2, <2>3, NothingPaid
<1>3. ASSUME NEW r \in Requests, NEW t \in Transactions, Create(r, t)
      PROVE  EachOnce'
  <2>1. PICK n \in Nat : n = request[r].amount /\ n <= Cardinality(Converted)
                         /\ request[r].at = "checked" /\ transaction[t] = NoRow
    BY <1>3, RequestShape, Counts DEF Create, IInv, EachOnce, PostSees
  <2>2. PICK chosen \in kSubset(n, Converted) :
           IF chosen = {}
           THEN Goto(r, Idle) /\ UNCHANGED transaction
           ELSE /\ transaction' = [transaction EXCEPT ![t] =
                     [status |-> "PENDING", amount |-> request[r].amount,
                      referrals |-> chosen, key |-> request[r].key]]
                /\ Goto(r, [at |-> IF request[r].local_bank THEN "send" ELSE "reward",
                            transaction |-> t])
    BY <1>3, <2>1 DEF Create
  <2>3. chosen \subseteq Converted /\ Cardinality(chosen) = n
    BY DEF kSubset
  <2>4. UNCHANGED <<referral, balance>>
    BY <1>3 DEF Create
  <2>5. CASE chosen = {}
    BY <1>c, <2>2, <2>4, <2>5 DEF Goto
  <2>6. CASE chosen # {}
    <3>1. PICK row : row = [status |-> "PENDING", amount |-> n,
                            referrals |-> chosen, key |-> request[r].key]
      OBVIOUS
    <3>2. row.referrals = chosen /\ row.amount = n
      BY <3>1
    <3>3. /\ transaction'[t] = row
          /\ \A u \in Transactions : u # t => transaction'[u] = transaction[u]
      BY <2>1, <2>2, <2>6, <3>1 DEF IInv, Shapes
    <3>a. PICK step : step = [at |-> IF request[r].local_bank THEN "send" ELSE "reward",
                              transaction |-> t]
      OBVIOUS
    <3>b. /\ step.at \in {"send", "reward"} /\ step.transaction = t
          /\ request' = [request EXCEPT ![r] = step]
      BY <2>2, <2>6, <3>a DEF Goto
    <3>4. /\ request'[r].at \in {"send", "reward"} /\ request'[r].transaction = t
          /\ \A s \in Requests : s # r => request'[s].at = "idle"
      BY <2>1, <3>b, <1>d
    <3>5. \A i \in chosen : referral[i] = "converted"
      BY <2>3 DEF Converted
    <3>6. RowsConverted'
      BY <2>4, <3>2, <3>3, <3>5 DEF EachOnce, RowsConverted
    <3>7. PostSees'
      BY <2>3, <2>4, <3>2, <3>3, <3>4, <3>5 DEF PostSees
    <3>8. PaidOnce'
      BY <2>4 DEF EachOnce, PaidOnce
    <3>9. QED
      BY <3>6, <3>7, <3>8 DEF EachOnce
  <2>7. QED
    BY <2>5, <2>6
<1>4. ASSUME NEW r \in Requests, Reward(r)
      PROVE  EachOnce'
  <2>1. PICK t \in Transactions : t = request[r].transaction /\ Holds(r, t)
    BY <1>4, RequestShape DEF Reward, AfterReward, IInv
  <2>2. PICK S \in SUBSET Referrals :
           S = transaction[t].referrals /\ transaction[t] \in Row
           /\ transaction[t].amount = Cardinality(S) /\ \A i \in S : referral[i] = "converted"
    BY <1>4, <2>1 DEF Reward, AfterReward, IInv, HeldAlone, Shapes, Row, EachOnce, PostSees
  <2>3. /\ transaction' = [transaction EXCEPT ![t].status = "COMPLETED"]
        /\ referral' = [i \in Referrals |-> IF i \in S THEN "rewarded" ELSE referral[i]]
        /\ balance' = balance + Cardinality(S)
        /\ request' = [request EXCEPT ![r] = [at |-> "send", transaction |-> t]]
    BY <1>4, <2>1, <2>2 DEF Reward, AfterReward, Rewarded, Goto
  <2>4. PICK R \in SUBSET Referrals : R = {i \in Referrals : referral[i] = "rewarded"}
    OBVIOUS
  <2>5. {i \in Referrals : referral'[i] = "rewarded"} = R \cup S /\ R \cap S = {}
    BY <2>2, <2>3, <2>4
  <2>6. Cardinality(R \cup S) = Cardinality(R) + Cardinality(S) - Cardinality(R \cap S)
    BY Counts, FS_Union
  <2>7. /\ Cardinality(R) \in Nat /\ Cardinality(S) \in Nat /\ Cardinality(R \cap S) = 0
        /\ balance = Cardinality(R)
    BY <2>4, <2>5, Counts, FS_EmptySet DEF EachOnce, PaidOnce
  <2>8. PaidOnce'
    <3>1. PICK m \in Nat, n \in Nat : m = Cardinality(R) /\ n = Cardinality(S)
      BY <2>7
    <3>2. Cardinality(R \cup S) = m + n
      BY <2>6, <2>7, <3>1
    <3>3. balance' = m + n
      BY <2>3, <2>7, <3>1
    <3>4. QED
      BY <2>5, <3>2, <3>3 DEF PaidOnce
  <2>9. /\ transaction'[t].referrals = transaction[t].referrals
        /\ transaction[t] # NoRow
        /\ \A u \in Transactions : u # t => transaction'[u] = transaction[u]
    BY <2>1, <2>2, <2>3, RowIsThere DEF Row, IInv, Shapes
  <2>10. RowsConverted'
    <3>1. \A u \in Transactions : transaction'[u] # NoRow =>
             transaction[u] # NoRow /\ transaction'[u].referrals = transaction[u].referrals
             /\ transaction[u].referrals \subseteq Referrals
      BY <2>2, <2>9, RowIsThere DEF IInv, Shapes
    <3>2. \A i \in Referrals : referral[i] \in {"converted", "rewarded"}
                                  => referral'[i] \in {"converted", "rewarded"}
      BY <2>3
    <3>3. QED
      BY <3>1, <3>2 DEF EachOnce, RowsConverted
  <2>11. PostSees'
    <3>1. PICK step : step = [at |-> "send", transaction |-> t]
      OBVIOUS
    <3>2. request[r].at # "idle" /\ request' = [request EXCEPT ![r] = step] /\ step.at = "send"
      BY <1>4, <2>3, <3>1 DEF Reward
    <3>3. \A s \in Requests : request'[s].at \in {"send", "idle"}
      BY <3>2, <1>d
    <3>4. QED
      BY <3>3 DEF PostSees
  <2>12. QED
    BY <2>8, <2>10, <2>11 DEF EachOnce
<1>5. ASSUME NEW r \in Requests, Send(r) \/ RequestFails(r)
      PROVE  EachOnce'
  BY <1>5, <1>c DEF Send, RequestFails, Goto
<1>6. ASSUME NEW t \in Transactions,
             \/ TransferRead(t) \/ InitiateTransfer(t) \/ TaskLost(t)
             \/ \E verdict \in Verdicts : Settle(t, verdict) \/ Webhook(t, verdict)
      PROVE  EachOnce'
  BY <1>6, <1>c DEF TransferRead, InitiateTransfer, TaskLost, Settle, Webhook
<1>7. ASSUME NEW t \in Transactions, VerifyCommit(t)
      PROVE  EachOnce'
  <2>1. /\ UNCHANGED <<referral, balance, request>>
        /\ \A u \in Transactions :
              /\ transaction[u] = NoRow => transaction'[u] = NoRow
              /\ transaction'[u] # NoRow =>
                    /\ transaction'[u].referrals = transaction[u].referrals
                    /\ transaction'[u].amount = transaction[u].amount
    BY <1>7, VerifyRewardsNobody DEF EachOnce
  <2>2. \A u \in Transactions : transaction[u] # NoRow => transaction'[u] # NoRow
    <3>1. transaction[t] # NoRow => transaction[t] \in Row
      BY DEF IInv, Shapes
    <3>2. UNCHANGED transaction \/
             transaction' = [transaction EXCEPT ![t].status = StatusOf(verify[t])]
      BY <1>7 DEF VerifyCommit
    <3>3. transaction[t] # NoRow => transaction'[t] # NoRow
      BY <3>1, <3>2, RowIsThere DEF IInv, Shapes, Row, NoRow
    <3>4. QED
      BY <3>2, <3>3 DEF IInv, Shapes
  <2>3. QED
    BY <1>a, <2>1, <2>2, NothingPaid
<1>8. CASE UNCHANGED vars
  BY <1>8, <1>c DEF vars
<1>9. QED
  BY <1>1, <1>2, <1>3, <1>4, <1>5, <1>6, <1>7, <1>8, NextCases

\* Until two POSTs overlap, or two conversions select one referral, the
\* wallet gets one commission for each referral that is rewarded, whatever is
\* withdrawn in parts, dies halfway or goes to the bank meanwhile
\* (serializers.py:90, tasks.py:79-89).
THEOREM EachPaidOnce == Spec => []WalletPaysEachOnce
<1> DEFINE Inv == ~ overlapped => EachOnce /\ SelectedPending /\ ~ Overlap
<1>1. Init => Inv
  <2> SUFFICES ASSUME Init PROVE EachOnce /\ SelectedPending /\ ~ Overlap
    OBVIOUS
  <2>1. RowsConverted /\ PostSees
    BY DEF Init, RowsConverted, PostSees, Idle
  <2>2. SelectedPending /\ ~ Overlap
    BY DEF Init, SelectedPending, Overlap, Idle
  <2>3. {i \in Referrals : referral[i] = "rewarded"} = {}
    BY DEF Init
  <2>4. PaidOnce
    BY <2>3, FS_EmptySet DEF PaidOnce, Init
  <2>5. QED
    BY <2>1, <2>2, <2>4 DEF EachOnce
<1>2. IInv /\ Inv /\ [Next]_vars => Inv'
  <2> SUFFICES ASSUME IInv, Inv, [Next]_vars, ~ overlapped'
               PROVE  EachOnce' /\ SelectedPending' /\ ~ Overlap'
    OBVIOUS
  <2>1. EachOnce /\ SelectedPending /\ ~ Overlap /\ ~ Overlap'
    BY NoOverlapYet
  <2>2. RowsConverted
    BY <2>1 DEF EachOnce
  <2>3. QED
    BY <2>1, <2>2, EachOnceStep, SelectedStep
<1>3. Inv => WalletPaysEachOnce
  BY DEF EachOnce, PaidOnce, WalletPaysEachOnce
<1> HIDE DEF Inv
<1>4. QED
  BY <1>1, <1>2, <1>3, IInvInit, IInvStep, PTL DEF Spec
=============================================================================
