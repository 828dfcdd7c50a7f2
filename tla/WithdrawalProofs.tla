-------------------------- MODULE WithdrawalProofs --------------------------
(***************************************************************************)
(* What Withdrawal guarantees for every number of withdrawals, overlapping *)
(* POSTs, retries and failures.                                            *)
(***************************************************************************)
EXTENDS Withdrawal, TLAPS

\* Requests and tasks work on rows that exist.
RowsExist ==
    /\ \A r \in Requests :
        request[r].at = "committed" => Exists(request[r].withdrawal)
    /\ \A w \in Withdrawals : job[w].at # "none" => Exists(w)

\* The handler is called with the verdict that the event was stored with.
EventTold ==
    \A w \in Withdrawals : event[w].status = "received" => event[w].says \in Verdicts

\* Where a POST stands determines which record it is.
LEMMA RequestShape ==
    ASSUME TypeOK, NEW r \in Requests
    PROVE  /\ request[r].at \in {"validated", "unique"} => request[r] \in Withdrawing
           /\ request[r].at = "committed" => request[r] \in Committed
BY DEF TypeOK, Idle, Withdrawing, Committed

\* Whoever moves, the action is one of these.
LEMMA NextCases ==
    ASSUME Next
    PROVE  \/ \E r \in Requests, key \in Keys, amount \in Amounts :
                  WithdrawValidate(r, key, amount)
           \/ \E r \in Requests : WithdrawCheckKey(r)
           \/ \E r \in Requests, w \in Withdrawals : WithdrawCommit(r, w)
           \/ \E r \in Requests : WithdrawEnqueue(r)
           \/ \E r \in Requests : RequestFails(r)
           \/ \E w \in Withdrawals : Claim(w)
           \/ \E w \in Withdrawals : InitiateTransfer(w)
           \/ \E w \in Withdrawals : Record(w)
           \/ \E w \in Withdrawals : RestoreRead(w)
           \/ \E w \in Withdrawals : RestoreCredit(w)
           \/ \E w \in Withdrawals : RestoreSave(w)
           \/ \E w \in Withdrawals : JobRaises(w)
           \/ \E w \in Withdrawals : JobLost(w)
           \/ \E w \in Withdrawals, verdict \in Verdicts : Settle(w, verdict)
           \/ \E w \in Withdrawals, verdict \in Verdicts : WebhookReceive(w, verdict)
           \/ \E w \in Withdrawals : WebhookDispatch(w)
           \/ \E w \in Withdrawals : WebhookFails(w)
           \/ \E w \in Withdrawals : VerifyCommit(w)
           \/ \E w \in Withdrawals : VerifyLost(w)
BY DEF Next, RequestStep, JobStep, PaystackStep, WebhookStep, VerifyStep

\* An exception in the task keeps the shape of the task.
LEMMA RaisedJob ==
    ASSUME TypeOK, NEW w \in Withdrawals, Raised(w)
    PROVE  /\ job' \in [Withdrawals -> Job]
           /\ \A x \in Withdrawals : x # w => job'[x] = job[x]
           /\ job'[w].at \in {"queued", "giving up"}
           /\ job'[w].at = "giving up" => job'[w].retries = MaxRetries
           /\ job'[w].retries >= job[w].retries
<1> USE WithdrawalAssumption
<1>1. job[w] \in Job /\ job[w].retries \in 0 .. MaxRetries
  BY DEF TypeOK, Job
<1>2. CASE GivesUp(w)
  <2>1. job[w].retries = MaxRetries
    BY <1>1, <1>2 DEF GivesUp
  <2>2. job' = [job EXCEPT ![w].at = "giving up"]
    BY <1>2 DEF Raised
  <2>3. [job[w] EXCEPT !.at = "giving up"] \in Job
    BY <1>1 DEF Job
  <2>4. /\ job'[w] = [job[w] EXCEPT !.at = "giving up"]
        /\ \A x \in Withdrawals : x # w => job'[x] = job[x]
    BY <2>2 DEF TypeOK
  <2>5. job' \in [Withdrawals -> Job]
    BY <2>2, <2>3 DEF TypeOK
  <2>6. job'[w].at = "giving up" /\ job'[w].retries = job[w].retries
    BY <1>1, <2>4 DEF Job
  <2>7. job'[w].retries = MaxRetries /\ job'[w].retries >= job[w].retries
    <3>1. MaxRetries \in Nat /\ MaxRetries >= MaxRetries
      BY DEF WithdrawalAssumption
    <3>2. QED
      BY <2>1, <2>6, <3>1, Zenon
  <2>8. QED
    BY <2>4, <2>5, <2>6, <2>7
<1>3. CASE ~ GivesUp(w)
  <2>1. job[w].retries + 1 \in 0 .. MaxRetries
    BY <1>1, <1>3 DEF GivesUp
  <2>2. job' = [job EXCEPT ![w].at = "queued", ![w].retries = job[w].retries + 1]
    BY <1>3 DEF Raised
  <2>3. [job[w] EXCEPT !.at = "queued", !.retries = job[w].retries + 1] \in Job
    BY <1>1, <2>1 DEF Job
  <2>4. /\ job'[w] = [job[w] EXCEPT !.at = "queued", !.retries = job[w].retries + 1]
        /\ \A x \in Withdrawals : x # w => job'[x] = job[x]
    BY <2>2 DEF TypeOK
  <2>5. job' \in [Withdrawals -> Job]
    BY <2>2, <2>3 DEF TypeOK
  <2>6. job'[w].at = "queued" /\ job'[w].retries = job[w].retries + 1
    BY <1>1, <2>4 DEF Job
  <2>7. QED
    BY <1>1, <2>4, <2>5, <2>6
<1>4. QED
  BY <1>2, <1>3

\* A new status keeps the shape of a row.
LEMMA StatusUpdate ==
    ASSUME TypeOK, NEW w \in Withdrawals, Exists(w),
           NEW s \in {"PENDING", "PROCESSING", "COMPLETED", "FAILED"},
           withdrawal' = [withdrawal EXCEPT ![w].status = s]
    PROVE  /\ withdrawal' \in [Withdrawals -> {NoRow} \cup WalletTransaction]
           /\ \A x \in Withdrawals : Exists(x)' <=> Exists(x)
<1>1. withdrawal[w] \in WalletTransaction
  BY DEF TypeOK, Exists, NoRow
<1>2. [withdrawal[w] EXCEPT !.status = s] \in WalletTransaction
  BY <1>1 DEF WalletTransaction
<1>3. withdrawal' = [withdrawal EXCEPT ![w] = [withdrawal[w] EXCEPT !.status = s]]
  OBVIOUS
<1>4. s # "Absent"
  OBVIOUS
<1>5. QED
  BY <1>1, <1>2, <1>3, <1>4 DEF TypeOK, Exists, WalletTransaction

-----------------------------------------------------------------------------

TypeInv == TypeOK /\ RowsExist /\ EventTold

\* Shapes and rows are right at the start.
LEMMA TypeInit == Init => TypeInv
<1>1. Init => raced \in BOOLEAN
  BY Zenon DEF Init
<1>2. QED
  BY <1>1, WithdrawalAssumption
     DEF Init, TypeInv, TypeOK, RowsExist, EventTold, Idle, Job, WebhookEvent

\* Every step keeps a verdict in the events that are being handled.
LEMMA EventToldStep == TypeOK /\ EventTold /\ [Next]_vars => EventTold'
<1> SUFFICES ASSUME TypeOK, EventTold, [Next]_vars, NEW w \in Withdrawals,
                    event'[w].status = "received"
             PROVE  event'[w].says \in Verdicts
  BY DEF EventTold
<1>1. CASE UNCHANGED event
  BY <1>1 DEF EventTold
<1>2. ASSUME NEW x \in Withdrawals, NEW verdict \in Verdicts, WebhookReceive(x, verdict)
      PROVE  event'[w].says \in Verdicts
  BY <1>2 DEF WebhookReceive, EventTold, TypeOK
<1>3. ASSUME NEW x \in Withdrawals, WebhookDispatch(x) \/ WebhookFails(x)
      PROVE  event'[w].says \in Verdicts
  <2>1. event'[x].status # "received" /\ (x # w => event'[w] = event[w])
    BY <1>3 DEF WebhookDispatch, WebhookFails, TypeOK, WebhookEvent
  <2>2. QED
    BY <2>1 DEF EventTold
<1>4. QED
  BY <1>1, <1>2, <1>3, NextCases
     DEF vars, WithdrawValidate, WithdrawCheckKey, WithdrawCommit, WithdrawEnqueue,
         RequestFails, Claim, InitiateTransfer, Record, RestoreRead, RestoreCredit,
         RestoreSave, JobRaises, JobLost, Settle, VerifyCommit, VerifyLost

\* Every step keeps the shapes and works on rows that exist.
LEMMA TypeStep == TypeInv /\ [Next]_vars => TypeInv'
<1> SUFFICES ASSUME TypeOK, RowsExist, EventTold, [Next]_vars
             PROVE  TypeOK' /\ RowsExist'
  BY EventToldStep DEF TypeInv
<1>a. raced' \in BOOLEAN
  BY Zenon DEF TypeOK, Next, vars
<1>b. \A w \in Withdrawals : job[w] \in Job
  BY DEF TypeOK
<1> USE WithdrawalAssumption, <1>a
<1>1. ASSUME NEW r \in Requests, NEW key \in Keys, NEW amount \in Amounts,
             WithdrawValidate(r, key, amount)
      PROVE  TypeOK' /\ RowsExist'
  <2>1. amount \in Nat /\ balance \in Nat
    BY <1>1 DEF WithdrawValidate, Covers, TypeOK
  <2>2. [at |-> "validated", key |-> key, amount |-> amount, balance |-> balance]
          \in Withdrawing
    BY <2>1 DEF Withdrawing
  <2>3. QED
    BY <1>1, <2>2 DEF WithdrawValidate, TypeOK, RowsExist, Exists
<1>2. ASSUME NEW r \in Requests, WithdrawCheckKey(r)
      PROVE  TypeOK' /\ RowsExist'
  <2>1. request[r] \in Withdrawing
    BY <1>2, RequestShape DEF WithdrawCheckKey
  <2>2. [request[r] EXCEPT !.at = "unique"] \in Withdrawing
    BY <2>1 DEF Withdrawing
  <2>3. CASE request' = [request EXCEPT ![r] = Idle]
    BY <1>2, <2>3 DEF WithdrawCheckKey, TypeOK, RowsExist, Exists, Idle
  <2>4. CASE request' = [request EXCEPT ![r] = [request[r] EXCEPT !.at = "unique"]]
    BY <1>2, <2>2, <2>4 DEF WithdrawCheckKey, TypeOK, RowsExist, Exists, Withdrawing
  <2>5. QED
    BY <1>2, <2>3, <2>4 DEF WithdrawCheckKey
<1>3. ASSUME NEW r \in Requests, NEW w \in Withdrawals, WithdrawCommit(r, w)
      PROVE  TypeOK' /\ RowsExist'
  <2>1. request[r] \in Withdrawing
    BY <1>3, RequestShape DEF WithdrawCommit
  <2>2. [status |-> "PENDING", key |-> request[r].key, amount |-> request[r].amount]
          \in WalletTransaction
    BY <2>1 DEF Withdrawing, WalletTransaction
  <2>3. [at |-> "committed", withdrawal |-> w] \in Committed
    BY DEF Committed
  <2>4. TypeOK'
    BY <1>3, <2>1, <2>2, <2>3 DEF WithdrawCommit, TypeOK, Withdrawing
  <2>5. RowsExist'
    BY <1>3 DEF WithdrawCommit, RowsExist, Exists, TypeOK
  <2>6. QED
    BY <2>4, <2>5
<1>4. ASSUME NEW r \in Requests, WithdrawEnqueue(r)
      PROVE  TypeOK' /\ RowsExist'
  <2>1. request[r] \in Committed
    BY <1>4, RequestShape DEF WithdrawEnqueue
  <2>2. /\ request[r].withdrawal \in Withdrawals
        /\ [job[request[r].withdrawal] EXCEPT !.at = "queued"] \in Job
    <3>1. request[r].withdrawal \in Withdrawals
      BY <2>1 DEF Committed
    <3>2. job[request[r].withdrawal] \in Job
      BY <3>1 DEF TypeOK
    <3>3. [job[request[r].withdrawal] EXCEPT !.at = "queued"] \in Job
      BY <3>2 DEF Job
    <3>4. QED
      BY <3>1, <3>3
  <2>3. TypeOK'
    BY <1>4, <2>2 DEF WithdrawEnqueue, TypeOK
  <2>4. RowsExist'
    BY <1>4, <2>2 DEF WithdrawEnqueue, RowsExist, Exists, TypeOK, Idle
  <2>5. QED
    BY <2>3, <2>4
<1>5. ASSUME NEW r \in Requests, RequestFails(r)
      PROVE  TypeOK' /\ RowsExist'
  BY <1>5 DEF RequestFails, TypeOK, RowsExist, Exists, Idle
<1>6. ASSUME NEW w \in Withdrawals, Claim(w)
      PROVE  TypeOK' /\ RowsExist'
  <2>1. Exists(w)
    BY <1>6 DEF Claim, RowsExist
  <2>2. ASSUME NEW at \in {"done", "claimed"}, job' = [job EXCEPT ![w].at = at]
        PROVE  /\ job' \in [Withdrawals -> Job]
               /\ \A x \in Withdrawals : x # w => job'[x] = job[x]
    <3>1. job[w] \in Job
      BY DEF TypeOK
    <3>2. /\ [job[w] EXCEPT !.at = "done"] \in Job
          /\ [job[w] EXCEPT !.at = "claimed"] \in Job
      BY <3>1 DEF Job
    <3>3. at = "done" \/ at = "claimed"
      OBVIOUS
    <3>4. [job[w] EXCEPT !.at = at] \in Job
      BY <3>2, <3>3
    <3>5. QED
      BY <2>2, <3>4 DEF TypeOK
  <2>3. /\ job' \in [Withdrawals -> Job]
        /\ \A x \in Withdrawals : x # w => job'[x] = job[x]
    BY <1>6, <2>2 DEF Claim
  <2>4. /\ withdrawal' \in [Withdrawals -> {NoRow} \cup WalletTransaction]
        /\ \A x \in Withdrawals : Exists(x)' <=> Exists(x)
    BY <1>6, <2>1, StatusUpdate DEF Claim, TypeOK, Exists
  <2>5. TypeOK'
    BY <1>6, <2>3, <2>4 DEF Claim, TypeOK
  <2>6. RowsExist'
    BY <1>6, <2>1, <2>3, <2>4, RequestShape DEF Claim, RowsExist, Committed
  <2>7. QED
    BY <2>5, <2>6
<1>7. ASSUME NEW w \in Withdrawals, Raised(w), job[w].at # "none",
             UNCHANGED <<balance, withdrawal, request, event, verify, credits>>,
             paystack' \in [Withdrawals -> SUBSET ({"accepted"} \cup Verdicts)]
      PROVE  TypeOK' /\ RowsExist'
  BY <1>7, RaisedJob DEF TypeOK, RowsExist, Exists
<1>8. ASSUME NEW w \in Withdrawals, InitiateTransfer(w)
      PROVE  TypeOK' /\ RowsExist'
  <2>1. paystack' \in [Withdrawals -> SUBSET ({"accepted"} \cup Verdicts)]
    BY <1>8 DEF InitiateTransfer, TypeOK
  <2>2. CASE job' = [job EXCEPT ![w].at = "answered"]
    <3>1. [job[w] EXCEPT !.at = "answered"] \in Job
      BY <1>b DEF TypeOK, Job
    <3>2. TypeOK'
      BY <1>8, <2>1, <2>2, <3>1 DEF InitiateTransfer, TypeOK
    <3>3. RowsExist'
      BY <1>8, <2>2 DEF InitiateTransfer, TypeOK, RowsExist, Exists
    <3>4. QED
      BY <3>2, <3>3
  <2>3. CASE Raised(w)
    BY <1>7, <1>8, <2>1, <2>3 DEF InitiateTransfer
  <2>4. QED
    BY <1>8, <2>2, <2>3 DEF InitiateTransfer
<1>9. ASSUME NEW w \in Withdrawals, JobRaises(w)
      PROVE  TypeOK' /\ RowsExist'
  <2>1. paystack' \in [Withdrawals -> SUBSET ({"accepted"} \cup Verdicts)]
    BY <1>9 DEF JobRaises, TypeOK
  <2>2. QED
    BY <1>7, <1>9, <2>1 DEF JobRaises
<1>10. ASSUME NEW w \in Withdrawals, Record(w) \/ RestoreSave(w)
       PROVE  TypeOK' /\ RowsExist'
  <2>1. Exists(w)
    BY <1>10 DEF Record, RestoreSave, RowsExist
  <2>2. /\ withdrawal' \in [Withdrawals -> {NoRow} \cup WalletTransaction]
        /\ \A x \in Withdrawals : Exists(x)' <=> Exists(x)
    BY <1>10, <2>1, StatusUpdate DEF Record, RestoreSave
  <2>3. [job[w] EXCEPT !.at = "done"] \in Job
    BY <1>b DEF TypeOK, Job
  <2>4. job' \in [Withdrawals -> Job]
    BY <1>10, <2>3 DEF Record, RestoreSave, TypeOK
  <2>5. \A x \in Withdrawals : x # w => job'[x] = job[x]
    BY <1>10 DEF Record, RestoreSave, TypeOK
  <2>6. TypeOK'
    BY <1>10, <2>2, <2>4 DEF Record, RestoreSave, TypeOK
  <2>7. RowsExist'
    BY <1>10, <2>1, <2>2, <2>5, RequestShape
       DEF Record, RestoreSave, RowsExist, Committed
  <2>8. QED
    BY <2>6, <2>7
<1>11. ASSUME NEW w \in Withdrawals, RestoreRead(w)
       PROVE  TypeOK' /\ RowsExist'
  <2>1. [job[w] EXCEPT !.at = "crediting", !.seen = balance] \in Job
    BY <1>b DEF TypeOK, Job
  <2>2. job' \in [Withdrawals -> Job]
    BY <1>11, <2>1 DEF RestoreRead, TypeOK
  <2>3. QED
    BY <1>11, <2>2 DEF RestoreRead, TypeOK, RowsExist, Exists
<1>12. ASSUME NEW w \in Withdrawals, RestoreCredit(w)
       PROVE  TypeOK' /\ RowsExist'
  <2>1. Exists(w) /\ withdrawal[w].amount \in Nat
    BY <1>12 DEF RestoreCredit, RowsExist, Exists, TypeOK, NoRow, WalletTransaction
  <2>2. balance' \in Int
    <3>1. job[w] \in Job
      BY DEF TypeOK
    <3>2. job[w].seen \in Int
      BY <3>1 DEF Job
    <3>3. QED
      BY <1>12, <2>1, <3>2 DEF RestoreCredit
  <2>3. [job[w] EXCEPT !.at = "credited"] \in Job
    BY <1>b DEF TypeOK, Job
  <2>4. [credits[w] EXCEPT !.giveup = credits[w].giveup + 1] \in [verdict : Nat, giveup : Nat]
    BY DEF TypeOK
  <2>5. TypeOK'
    BY <1>12, <2>2, <2>3, <2>4 DEF RestoreCredit, TypeOK
  <2>6. RowsExist'
    BY <1>12 DEF RestoreCredit, TypeOK, RowsExist, Exists
  <2>7. QED
    BY <2>5, <2>6
<1>13. ASSUME NEW w \in Withdrawals, JobLost(w)
       PROVE  TypeOK' /\ RowsExist'
  <2>1. [job[w] EXCEPT !.at = "lost"] \in Job
    BY <1>b DEF TypeOK, Job
  <2>2. QED
    BY <1>13, <2>1 DEF JobLost, TypeOK, RowsExist, Exists
<1>14. ASSUME NEW w \in Withdrawals, NEW verdict \in Verdicts, Settle(w, verdict)
       PROVE  TypeOK' /\ RowsExist'
  BY <1>14 DEF Settle, TypeOK, RowsExist, Exists
<1>15. ASSUME NEW w \in Withdrawals, NEW verdict \in Verdicts, WebhookReceive(w, verdict)
       PROVE  TypeOK' /\ RowsExist'
  BY <1>15 DEF WebhookReceive, TypeOK, RowsExist, Exists, WebhookEvent
<1>16. ASSUME NEW w \in Withdrawals, WebhookDispatch(w)
       PROVE  TypeOK' /\ RowsExist'
  <2>1. event[w] \in WebhookEvent
    BY DEF TypeOK
  <2>2. [event[w] EXCEPT !.status = "processed"] \in WebhookEvent
    BY <2>1 DEF WebhookEvent
  <2>3. event[w].says \in Verdicts
    BY <1>16 DEF WebhookDispatch, EventTold
  <2>4. QED
    BY <1>16, <2>2, <2>3 DEF WebhookDispatch, TypeOK, RowsExist, Exists
<1>17. ASSUME NEW w \in Withdrawals, WebhookFails(w)
       PROVE  TypeOK' /\ RowsExist'
  <2>1. event[w] \in WebhookEvent
    BY DEF TypeOK
  <2>2. [event[w] EXCEPT !.status = "failed"] \in WebhookEvent
    BY <2>1 DEF WebhookEvent
  <2>3. QED
    BY <1>17, <2>2 DEF WebhookFails, TypeOK, RowsExist, Exists
<1>18. ASSUME NEW w \in Withdrawals, VerifyCommit(w)
       PROVE  TypeOK' /\ RowsExist'
  <2>1. verify' \in [Withdrawals -> {"none", "done"} \cup Verdicts]
    BY <1>18 DEF VerifyCommit, TypeOK
  <2>2. CASE Awaits(w)
    <3>1. Exists(w) /\ withdrawal[w].amount \in Nat
      BY <2>2 DEF Awaits, Exists, TypeOK, NoRow, WalletTransaction
    <3>2. /\ withdrawal' \in [Withdrawals -> {NoRow} \cup WalletTransaction]
          /\ \A x \in Withdrawals : Exists(x)' <=> Exists(x)
      BY <1>18, <2>2, <3>1, StatusUpdate DEF VerifyCommit
    <3>3. balance' \in Int
      BY <1>18, <2>2, <3>1 DEF VerifyCommit, TypeOK
    <3>4. [credits[w] EXCEPT !.verdict = credits[w].verdict + 1]
            \in [verdict : Nat, giveup : Nat]
      BY DEF TypeOK
    <3>5. credits' \in [Withdrawals -> [verdict : Nat, giveup : Nat]]
      BY <1>18, <2>2, <3>4 DEF VerifyCommit, TypeOK
    <3>6. TypeOK'
      BY <1>18, <2>1, <3>2, <3>3, <3>5 DEF VerifyCommit, TypeOK
    <3>7. RowsExist'
      BY <1>18, <3>2, RequestShape DEF VerifyCommit, RowsExist, Committed
    <3>8. QED
      BY <3>6, <3>7
  <2>3. CASE ~ Awaits(w)
    BY <1>18, <2>1, <2>3 DEF VerifyCommit, TypeOK, RowsExist, Exists
  <2>4. QED
    BY <2>2, <2>3
<1>19. ASSUME NEW w \in Withdrawals, VerifyLost(w)
       PROVE  TypeOK' /\ RowsExist'
  BY <1>19 DEF VerifyLost, TypeOK, RowsExist, Exists
<1>20. CASE UNCHANGED vars
  BY <1>20 DEF vars, TypeOK, RowsExist, Exists
<1>21. QED
  BY <1>1, <1>2, <1>3, <1>4, <1>5, <1>6, <1>8, <1>9, <1>10, <1>11, <1>12, <1>13,
     <1>14, <1>15, <1>16, <1>17, <1>18, <1>19, <1>20, NextCases

\* Type correctness of every reachable state.
THEOREM TypeCorrect == Spec => []TypeOK
<1>1. TypeInv => TypeOK
  BY DEF TypeInv
<1>2. QED
  BY <1>1, TypeInit, TypeStep, PTL DEF Spec

-----------------------------------------------------------------------------
(* How one step moves the state of one withdrawal.                         *)

\* What has happened to a transfer at Paystack is never undone.
LEMMA PaystackGrows ==
    TypeOK /\ [Next]_vars => \A w \in Withdrawals : paystack[w] \subseteq paystack'[w]
<1> SUFFICES ASSUME TypeOK, [Next]_vars
             PROVE  \A w \in Withdrawals : paystack[w] \subseteq paystack'[w]
  OBVIOUS
<1>1. CASE UNCHANGED paystack
  BY <1>1
<1>2. ASSUME NEW w \in Withdrawals, NEW verdict \in Verdicts, Settle(w, verdict)
      PROVE  \A x \in Withdrawals : paystack[x] \subseteq paystack'[x]
  BY <1>2 DEF Settle, TypeOK
<1>3. ASSUME NEW w \in Withdrawals, InitiateTransfer(w)
      PROVE  \A x \in Withdrawals : paystack[x] \subseteq paystack'[x]
  BY <1>3 DEF InitiateTransfer, TypeOK
<1>4. QED
  BY <1>1, <1>2, <1>3, NextCases
     DEF vars, WithdrawValidate, WithdrawCheckKey, WithdrawCommit, WithdrawEnqueue,
         RequestFails, Claim, Record, RestoreRead, RestoreCredit, RestoreSave,
         JobRaises, JobLost, WebhookReceive, WebhookDispatch, WebhookFails,
         VerifyCommit, VerifyLost

\* Only the verification and the end of a give-up finish a withdrawal.
StatusMove(w) ==
    \/ withdrawal'[w].status = withdrawal[w].status
    \/ withdrawal'[w].status \in {"PENDING", "PROCESSING"}
    \/ VerifyCommit(w) /\ Awaits(w) /\ Paid(verify[w])
         /\ withdrawal'[w].status = "COMPLETED"
    \/ VerifyCommit(w) /\ Awaits(w) /\ ~ Paid(verify[w])
         /\ withdrawal'[w].status = "FAILED"
    \/ RestoreSave(w) /\ withdrawal'[w].status = "FAILED"

\* Every step moves the status of every row like that.
LEMMA StatusMoves ==
    TypeInv /\ [Next]_vars => \A w \in Withdrawals : StatusMove(w)
<1> SUFFICES ASSUME TypeInv, [Next]_vars, NEW w \in Withdrawals
             PROVE  StatusMove(w)
  OBVIOUS
<1> USE DEF TypeInv
<1>1. CASE UNCHANGED withdrawal
  BY <1>1 DEF StatusMove
<1>2. ASSUME NEW x \in Withdrawals, NEW s \in {"PROCESSING", "COMPLETED", "FAILED"},
             withdrawal' = [withdrawal EXCEPT ![x].status = s], Exists(x)
      PROVE  IF x = w THEN withdrawal'[w].status = s ELSE withdrawal'[w] = withdrawal[w]
  <2>1. withdrawal[x] \in WalletTransaction
    BY <1>2 DEF TypeOK, Exists, NoRow
  <2>2. QED
    BY <1>2, <2>1 DEF TypeOK, WalletTransaction
<1>3. ASSUME NEW r \in Requests, NEW x \in Withdrawals, WithdrawCommit(r, x)
      PROVE  StatusMove(w)
  BY <1>3 DEF WithdrawCommit, StatusMove, TypeOK
<1>4. ASSUME NEW x \in Withdrawals, Claim(x) \/ Record(x)
      PROVE  StatusMove(w)
  <2>1. Exists(x)
    BY <1>4 DEF Claim, Record, RowsExist
  <2>2. QED
    BY <1>1, <1>2, <1>4, <2>1 DEF Claim, Record, StatusMove
<1>5. ASSUME NEW x \in Withdrawals, RestoreSave(x)
      PROVE  StatusMove(w)
  <2>1. Exists(x) /\ withdrawal' = [withdrawal EXCEPT ![x].status = "FAILED"]
    BY <1>5 DEF RestoreSave, RowsExist
  <2>2. QED
    BY <1>2, <1>5, <2>1 DEF StatusMove
<1>6. ASSUME NEW x \in Withdrawals, VerifyCommit(x)
      PROVE  StatusMove(w)
  <2>1. CASE ~ Awaits(x)
    BY <1>1, <1>6, <2>1 DEF VerifyCommit
  <2>2. CASE Awaits(x) /\ Paid(verify[x])
    <3>1. Exists(x) /\ withdrawal' = [withdrawal EXCEPT ![x].status = "COMPLETED"]
      BY <1>6, <2>2 DEF VerifyCommit, Awaits, Exists
    <3>2. QED
      BY <1>2, <1>6, <2>2, <3>1 DEF StatusMove
  <2>3. CASE Awaits(x) /\ ~ Paid(verify[x])
    <3>1. Exists(x) /\ withdrawal' = [withdrawal EXCEPT ![x].status = "FAILED"]
      BY <1>6, <2>3 DEF VerifyCommit, Awaits, Exists
    <3>2. QED
      BY <1>2, <1>6, <2>3, <3>1 DEF StatusMove
  <2>4. QED
    BY <2>1, <2>2, <2>3
<1>7. QED
  BY <1>1, <1>3, <1>4, <1>5, <1>6, NextCases
     DEF vars, WithdrawValidate, WithdrawCheckKey, WithdrawEnqueue, RequestFails,
         InitiateTransfer, RestoreRead, RestoreCredit, JobRaises, JobLost, Settle,
         WebhookReceive, WebhookDispatch, WebhookFails, VerifyLost

\* The task of w stays, is queued by its POST, works on a transfer or moves on
\* through its give-up.
JobMove(w) ==
    \/ job'[w] = job[w]
    \/ \E r \in Requests :
          /\ WithdrawEnqueue(r)
          /\ request[r].withdrawal = w
          /\ job'[w].at = "queued"
    \/ /\ job[w].at \in {"queued", "claimed", "answered"}
       /\ job'[w].at \in {"queued", "claimed", "answered", "done", "giving up"}
       /\ job'[w].at = "giving up" => job'[w].retries = MaxRetries
       /\ UNCHANGED <<balance, credits>>
    \/ /\ RestoreRead(w) \/ RestoreCredit(w) \/ RestoreSave(w) \/ JobLost(w)
       /\ job'[w].retries = job[w].retries

\* Every step moves every task like that.
LEMMA JobMoves ==
    TypeOK /\ [Next]_vars => \A w \in Withdrawals : JobMove(w)
<1> SUFFICES ASSUME TypeOK, [Next]_vars, NEW w \in Withdrawals
             PROVE  JobMove(w)
  OBVIOUS
<1>0. \A x \in Withdrawals : job[x] \in Job
  BY DEF TypeOK
<1>1. CASE UNCHANGED job
  BY <1>1 DEF JobMove
<1>2. ASSUME NEW x \in Withdrawals, NEW at,
             job' = [job EXCEPT ![x].at = at]
      PROVE  IF x = w
             THEN job'[w].at = at /\ job'[w].retries = job[w].retries
             ELSE job'[w] = job[w]
  BY <1>0, <1>2 DEF TypeOK, Job
<1>3. ASSUME NEW r \in Requests, WithdrawEnqueue(r)
      PROVE  JobMove(w)
  <2>1. request[r].withdrawal \in Withdrawals
    BY <1>3, RequestShape DEF WithdrawEnqueue, Committed
  <2>2. job' = [job EXCEPT ![request[r].withdrawal].at = "queued"]
    BY <1>3 DEF WithdrawEnqueue
  <2>3. QED
    BY <1>2, <1>3, <2>1, <2>2 DEF JobMove
<1>4. ASSUME NEW x \in Withdrawals, Claim(x) \/ Record(x)
      PROVE  JobMove(w)
  <2>1. /\ job[x].at \in {"queued", "answered"}
        /\ UNCHANGED <<balance, credits>>
        /\ \/ job' = [job EXCEPT ![x].at = "done"]
           \/ job' = [job EXCEPT ![x].at = "claimed"]
    BY <1>4 DEF Claim, Record
  <2>2. IF x = w THEN job'[w].at \in {"done", "claimed"} ELSE job'[w] = job[w]
    BY <1>2, <2>1
  <2>3. QED
    BY <2>1, <2>2 DEF JobMove
<1>5. ASSUME NEW x \in Withdrawals, Raised(x), UNCHANGED <<balance, credits>>,
             job[x].at \in {"queued", "claimed", "answered"}
      PROVE  JobMove(w)
  BY <1>5, RaisedJob DEF JobMove
<1>6. ASSUME NEW x \in Withdrawals, InitiateTransfer(x) \/ JobRaises(x)
      PROVE  JobMove(w)
  <2>1. CASE Raised(x)
    BY <1>5, <1>6, <2>1 DEF InitiateTransfer, JobRaises
  <2>2. CASE InitiateTransfer(x) /\ job' = [job EXCEPT ![x].at = "answered"]
    BY <1>2, <2>2 DEF InitiateTransfer, JobMove
  <2>3. QED
    BY <1>6, <2>1, <2>2 DEF InitiateTransfer, JobRaises
<1>7. ASSUME NEW x \in Withdrawals, RestoreRead(x)
      PROVE  JobMove(w)
  <2>1. IF x = w THEN job'[w].retries = job[w].retries ELSE job'[w] = job[w]
    BY <1>0, <1>7 DEF RestoreRead, TypeOK, Job
  <2>2. QED
    BY <1>7, <2>1 DEF JobMove
<1>8. ASSUME NEW x \in Withdrawals, RestoreCredit(x)
      PROVE  JobMove(w)
  <2>1. job' = [job EXCEPT ![x].at = "credited"]
    BY <1>8 DEF RestoreCredit
  <2>2. QED
    BY <1>2, <1>8, <2>1 DEF JobMove
<1>9. ASSUME NEW x \in Withdrawals, RestoreSave(x) \/ JobLost(x)
      PROVE  JobMove(w)
  <2>1. CASE job' = [job EXCEPT ![x].at = "done"]
    BY <1>2, <1>9, <2>1 DEF JobMove
  <2>2. CASE job' = [job EXCEPT ![x].at = "lost"]
    BY <1>2, <1>9, <2>2 DEF JobMove
  <2>3. QED
    BY <1>9, <2>1, <2>2 DEF RestoreSave, JobLost
<1>10. QED
  BY <1>1, <1>3, <1>4, <1>6, <1>7, <1>8, <1>9, NextCases
     DEF vars, WithdrawValidate, WithdrawCheckKey, WithdrawCommit, RequestFails, Settle,
         WebhookReceive, WebhookDispatch, WebhookFails, VerifyCommit, VerifyLost

\* One verdict credits once more, one give-up credits once more.
CreditMove(w) ==
    \/ credits'[w] = credits[w]
    \/ /\ VerifyCommit(w) /\ ~ Paid(verify[w])
       /\ credits'[w].verdict = credits[w].verdict + 1
       /\ credits'[w].giveup = credits[w].giveup
    \/ /\ RestoreCredit(w)
       /\ credits'[w].verdict = credits[w].verdict
       /\ credits'[w].giveup = credits[w].giveup + 1

\* Every step counts the credits like that.
LEMMA CreditMoves ==
    TypeOK /\ [Next]_vars => \A w \in Withdrawals : CreditMove(w)
<1> SUFFICES ASSUME TypeOK, [Next]_vars, NEW w \in Withdrawals
             PROVE  CreditMove(w)
  OBVIOUS
<1>0. \A x \in Withdrawals : credits[x] \in [verdict : Nat, giveup : Nat]
  BY DEF TypeOK
<1>1. CASE UNCHANGED credits
  BY <1>1 DEF CreditMove
<1>2. ASSUME NEW x \in Withdrawals, RestoreCredit(x)
      PROVE  CreditMove(w)
  <2>1. IF x = w
        THEN /\ credits'[w].verdict = credits[w].verdict
             /\ credits'[w].giveup = credits[w].giveup + 1
        ELSE credits'[w] = credits[w]
    BY <1>0, <1>2 DEF RestoreCredit, TypeOK
  <2>2. QED
    BY <1>2, <2>1 DEF CreditMove
<1>3. ASSUME NEW x \in Withdrawals, VerifyCommit(x)
      PROVE  CreditMove(w)
  <2>1. CASE Awaits(x) /\ ~ Paid(verify[x])
    <3>1. credits' = [credits EXCEPT ![x].verdict = credits[x].verdict + 1]
      BY <1>3, <2>1 DEF VerifyCommit
    <3>2. IF x = w
          THEN /\ credits'[w].verdict = credits[w].verdict + 1
               /\ credits'[w].giveup = credits[w].giveup
          ELSE credits'[w] = credits[w]
      BY <1>0, <3>1 DEF TypeOK
    <3>3. QED
      BY <1>3, <2>1, <3>2 DEF CreditMove
  <2>2. CASE ~ (Awaits(x) /\ ~ Paid(verify[x]))
    BY <1>1, <1>3, <2>2 DEF VerifyCommit
  <2>3. QED
    BY <2>1, <2>2
<1>4. QED
  BY <1>1, <1>2, <1>3, NextCases
     DEF vars, WithdrawValidate, WithdrawCheckKey, WithdrawCommit, WithdrawEnqueue,
         RequestFails, Claim, InitiateTransfer, Record, RestoreRead, RestoreSave,
         JobRaises, JobLost, Settle, WebhookReceive, WebhookDispatch, WebhookFails,
         VerifyLost

-----------------------------------------------------------------------------
(* The inductive invariant, part by part.                                  *)

\* The copies of the balance that POSTs and give-ups will write from cover
\* what they deduct.
CopiesCover ==
    /\ \A r \in Requests :
        request[r].at \in {"validated", "unique"} => request[r].amount <= request[r].balance
    /\ \A w \in Withdrawals : job[w].at = "crediting" => job[w].seen >= 0

\* What the webhook stored and passed on is what Paystack said.
VerdictsTold ==
    \A w \in Withdrawals :
        /\ event[w].status # "none" => event[w].says \in paystack[w]
        /\ verify[w] \in Verdicts => verify[w] \in paystack[w]

\* One verdict reaches the verification task, which works on it once.
VerdictsOnce ==
    \A w \in Withdrawals :
        /\ event[w].status \in {"none", "received"} => verify[w] = "none"
        /\ verify[w] # "done" => credits[w].verdict = 0

\* A task gives up with no retry left, and its credit is its last but one step.
GiveUpsOnce ==
    \A w \in Withdrawals :
        /\ job[w].at \in {"giving up", "crediting", "credited"} =>
              job[w].retries = MaxRetries
        /\ credits[w].giveup > 0 => job[w].at \in {"credited", "done", "lost"}
        /\ job[w].at = "credited" => credits[w].giveup > 0

\* A POST that is about to queue a task is the only one to do so.
QueuedOnce ==
    \A r \in Requests : request[r].at = "committed" =>
        /\ job[request[r].withdrawal].at = "none"
        /\ \A s \in Requests \ {r} :
              request[s].at = "committed" => request[s].withdrawal # request[r].withdrawal

IInv ==
    /\ TypeInv
    /\ NoOverdraft /\ CopiesCover
    /\ CompletedMeansPaid /\ VerdictsTold
    /\ FailedMeansCredited /\ CreditsJustified
    /\ VerdictsOnce /\ GiveUpsOnce /\ QueuedOnce

\* The invariant holds at the start.
LEMMA IInvInit == Init => IInv
<1> SUFFICES ASSUME Init PROVE IInv
  OBVIOUS
<1>1. TypeInv
  BY TypeInit
<1>2. NoOverdraft /\ CopiesCover
  BY WithdrawalAssumption
     DEF WithdrawalAssumption, Init, NoOverdraft, CopiesCover, Idle
<1>3. CompletedMeansPaid /\ FailedMeansCredited /\ CreditsJustified
  BY DEF Init, CompletedMeansPaid, FailedMeansCredited, CreditsJustified, NoRow
<1>4. VerdictsTold /\ VerdictsOnce
  BY DEF Init, VerdictsTold, VerdictsOnce, Verdicts
<1>5. GiveUpsOnce
  <2>1. \A w \in Withdrawals : job[w].at = "none" /\ credits[w].giveup = 0
    BY DEF Init
  <2>2. \A w \in Withdrawals : ~ (credits[w].giveup > 0)
    BY <2>1
  <2>3. QED
    BY <2>1, <2>2, Zenon DEF GiveUpsOnce
<1>6. \A r \in Requests : request[r].at = "idle"
  BY DEF Init, Idle
<1>7. QueuedOnce
  BY <1>6 DEF QueuedOnce
<1>8. QED
  BY <1>1, <1>2, <1>3, <1>4, <1>5, <1>7 DEF IInv

\* Every step keeps the verdicts what Paystack said.
LEMMA VerdictsToldStep == TypeInv /\ VerdictsTold /\ [Next]_vars => VerdictsTold'
<1> SUFFICES ASSUME TypeInv, VerdictsTold, [Next]_vars, NEW w \in Withdrawals
             PROVE  /\ event'[w].status # "none" => event'[w].says \in paystack'[w]
                    /\ verify'[w] \in Verdicts => verify'[w] \in paystack'[w]
  BY DEF VerdictsTold
<1> USE DEF TypeInv
<1>1. paystack[w] \subseteq paystack'[w]
  BY PaystackGrows
<1>2. CASE UNCHANGED <<event, verify>>
  BY <1>1, <1>2 DEF VerdictsTold
<1>3. ASSUME NEW x \in Withdrawals, NEW verdict \in Verdicts, WebhookReceive(x, verdict)
      PROVE  /\ event'[w].status # "none" => event'[w].says \in paystack'[w]
             /\ UNCHANGED verify
  BY <1>3 DEF WebhookReceive, VerdictsTold, TypeOK
<1>4. ASSUME NEW x \in Withdrawals, WebhookDispatch(x) \/ WebhookFails(x)
      PROVE  /\ event'[w].status # "none" => event'[w].says \in paystack'[w]
             /\ verify'[w] \in Verdicts => verify'[w] \in paystack'[w]
  <2>1. event[x] \in WebhookEvent /\ event[x].status = "received"
    BY <1>4 DEF WebhookDispatch, WebhookFails, TypeOK
  <2>2. event[x].says \in paystack[x]
    BY <2>1 DEF VerdictsTold
  <2>3. event'[w].says = event[w].says /\ (x # w => event'[w] = event[w])
    BY <1>4, <2>1 DEF WebhookDispatch, WebhookFails, TypeOK, WebhookEvent
  <2>4. verify'[w] = verify[w] \/ (x = w /\ verify'[w] = event[w].says)
    BY <1>4 DEF WebhookDispatch, WebhookFails, TypeOK
  <2>5. QED
    BY <1>1, <2>1, <2>2, <2>3, <2>4 DEF VerdictsTold
<1>5. ASSUME NEW x \in Withdrawals, VerifyCommit(x) \/ VerifyLost(x)
      PROVE  verify'[w] \in {verify[w], "done"} /\ UNCHANGED event
  BY <1>5 DEF VerifyCommit, VerifyLost, TypeOK
<1>6. "done" \notin Verdicts
  BY DEF Verdicts
<1>7. QED
  BY <1>1, <1>2, <1>3, <1>4, <1>5, <1>6, NextCases
     DEF vars, VerdictsTold, WithdrawValidate, WithdrawCheckKey, WithdrawCommit,
         WithdrawEnqueue, RequestFails, Claim, InitiateTransfer, Record, RestoreRead,
         RestoreCredit, RestoreSave, JobRaises, JobLost, Settle

\* Every step keeps the completed withdrawals paid.
LEMMA CompletedStep ==
    TypeInv /\ CompletedMeansPaid /\ VerdictsTold /\ [Next]_vars => CompletedMeansPaid'
<1> SUFFICES ASSUME TypeInv, CompletedMeansPaid, VerdictsTold, [Next]_vars,
                    NEW w \in Withdrawals, withdrawal'[w].status = "COMPLETED"
             PROVE  "success" \in paystack'[w]
  BY DEF CompletedMeansPaid
<1>1. paystack[w] \subseteq paystack'[w]
  BY PaystackGrows DEF TypeInv
<1>2. CASE withdrawal[w].status = "COMPLETED"
  BY <1>1, <1>2 DEF CompletedMeansPaid
<1>3. CASE VerifyCommit(w) /\ Paid(verify[w])
  BY <1>1, <1>3 DEF VerifyCommit, Paid, VerdictsTold
<1>4. QED
  BY <1>2, <1>3, StatusMoves DEF StatusMove

\* Every step keeps the verdict of a withdrawal single.
LEMMA VerdictsOnceStep ==
    TypeInv /\ VerdictsOnce /\ [Next]_vars => VerdictsOnce'
<1> SUFFICES ASSUME TypeInv, VerdictsOnce, [Next]_vars, NEW w \in Withdrawals
             PROVE  /\ event'[w].status \in {"none", "received"} => verify'[w] = "none"
                    /\ verify'[w] # "done" => credits'[w].verdict = 0
  BY DEF VerdictsOnce
<1> USE DEF TypeInv
<1>1. /\ event[w].status \in {"none", "received"} => verify[w] = "none"
      /\ verify[w] # "done" => credits[w].verdict = 0
  BY DEF VerdictsOnce
<1>2. verify'[w] = "done" \/ credits'[w].verdict = credits[w].verdict
  <2>1. CreditMove(w)
    BY CreditMoves
  <2>2. CASE VerifyCommit(w)
    BY <2>2 DEF VerifyCommit, TypeOK
  <2>3. QED
    BY <2>1, <2>2 DEF CreditMove
<1>3. CASE UNCHANGED <<event, verify>>
  BY <1>1, <1>2, <1>3
<1>4. ASSUME NEW x \in Withdrawals, NEW verdict \in Verdicts, WebhookReceive(x, verdict)
      PROVE  /\ event'[w].status \in {"none", "received"} => verify'[w] = "none"
             /\ verify'[w] # "done" => credits'[w].verdict = 0
  <2>1. UNCHANGED <<verify, credits>>
    BY <1>4 DEF WebhookReceive
  <2>2. event'[w] = event[w] \/ event[w].status = "none"
    BY <1>4 DEF WebhookReceive, FirstDelivery, TypeOK
  <2>3. QED
    BY <1>1, <2>1, <2>2
<1>5. ASSUME NEW x \in Withdrawals, WebhookDispatch(x) \/ WebhookFails(x)
      PROVE  /\ event'[w].status \in {"none", "received"} => verify'[w] = "none"
             /\ verify'[w] # "done" => credits'[w].verdict = 0
  <2>1. UNCHANGED credits
    BY <1>5 DEF WebhookDispatch, WebhookFails
  <2>2. CASE x # w
    <3>1. event'[w] = event[w] /\ verify'[w] = verify[w]
      BY <1>5, <2>2 DEF WebhookDispatch, WebhookFails, TypeOK
    <3>2. QED
      BY <1>1, <2>1, <3>1
  <2>3. CASE x = w
    <3>1. event[w] \in WebhookEvent /\ event[w].status = "received"
      BY <1>5, <2>3 DEF WebhookDispatch, WebhookFails, TypeOK
    <3>2. event'[w].status \in {"processed", "failed"}
      BY <1>5, <2>3, <3>1 DEF WebhookDispatch, WebhookFails, TypeOK, WebhookEvent
    <3>3. credits[w].verdict = 0
      BY <1>1, <3>1
    <3>4. QED
      BY <2>1, <3>2, <3>3
  <2>4. QED
    BY <2>2, <2>3
<1>6. ASSUME NEW x \in Withdrawals, VerifyCommit(x) \/ VerifyLost(x)
      PROVE  /\ event'[w].status \in {"none", "received"} => verify'[w] = "none"
             /\ verify'[w] # "done" => credits'[w].verdict = 0
  <2>1. UNCHANGED event /\ verify[x] \in Verdicts
    BY <1>6 DEF VerifyCommit, VerifyLost
  <2>2. x # w => verify'[w] = verify[w]
    BY <1>6 DEF VerifyCommit, VerifyLost, TypeOK
  <2>3. x = w => verify'[w] = "done"
    BY <1>6 DEF VerifyCommit, VerifyLost, TypeOK
  <2>4. "none" \notin Verdicts
    BY DEF Verdicts
  <2>5. QED
    BY <1>1, <1>2, <2>1, <2>2, <2>3, <2>4
<1>7. QED
  BY <1>3, <1>4, <1>5, <1>6, NextCases
     DEF vars, WithdrawValidate, WithdrawCheckKey, WithdrawCommit,
         WithdrawEnqueue, RequestFails, Claim, InitiateTransfer, Record, RestoreRead,
         RestoreCredit, RestoreSave, JobRaises, JobLost, Settle

\* Every step keeps the failed withdrawals given back.
LEMMA FailedStep ==
    TypeInv /\ FailedMeansCredited /\ GiveUpsOnce /\ [Next]_vars => FailedMeansCredited'
<1> SUFFICES ASSUME TypeInv, FailedMeansCredited, GiveUpsOnce, [Next]_vars,
                    NEW w \in Withdrawals, withdrawal'[w].status = "FAILED"
             PROVE  credits'[w].verdict + credits'[w].giveup > 0
  BY DEF FailedMeansCredited
<1> USE DEF TypeInv
<1>0. credits[w].verdict \in Nat /\ credits[w].giveup \in Nat
  BY DEF TypeOK
<1>1. CASE withdrawal[w].status = "FAILED"
  <2>1. credits[w].verdict + credits[w].giveup > 0
    BY <1>1 DEF FailedMeansCredited
  <2>2. CreditMove(w)
    BY CreditMoves
  <2>3. QED
    BY <1>0, <2>1, <2>2 DEF CreditMove
<1>2. CASE VerifyCommit(w) /\ Awaits(w) /\ ~ Paid(verify[w])
  <2>1. credits' = [credits EXCEPT ![w].verdict = credits[w].verdict + 1]
    BY <1>2 DEF VerifyCommit
  <2>2. credits'[w].verdict = credits[w].verdict + 1 /\ credits'[w].giveup = credits[w].giveup
    BY <2>1 DEF TypeOK
  <2>3. QED
    BY <1>0, <2>2
<1>3. CASE RestoreSave(w)
  <2>1. credits[w].giveup > 0 /\ UNCHANGED credits
    BY <1>3 DEF RestoreSave, GiveUpsOnce
  <2>2. QED
    BY <1>0, <2>1
<1>4. QED
  BY <1>1, <1>2, <1>3, StatusMoves DEF StatusMove

\* Where the task of w may go once it has given up.
LEMMA GiveUpMoves ==
    ASSUME TypeInv, [Next]_vars, QueuedOnce, NEW w \in Withdrawals
    PROVE  /\ job[w].at \in {"credited", "done", "lost"} =>
                 /\ job'[w].at \in {"credited", "done", "lost"}
                 /\ job'[w].retries = job[w].retries
           /\ job'[w].at \in {"giving up", "crediting", "credited"} =>
                 \/ job'[w] = job[w]
                 \/ job'[w].at = "giving up" /\ job'[w].retries = MaxRetries
                 \/ RestoreRead(w) /\ job'[w].at = "crediting"
                      /\ job'[w].retries = job[w].retries
                 \/ RestoreCredit(w) /\ job'[w].at = "credited"
                      /\ job'[w].retries = job[w].retries
<1> USE DEF TypeInv
<1>1. JobMove(w)
  BY JobMoves
<1>2. job[w] \in Job
  BY DEF TypeOK
<1>3. ASSUME NEW r \in Requests, WithdrawEnqueue(r), request[r].withdrawal = w
      PROVE  job[w].at = "none"
  BY <1>3 DEF WithdrawEnqueue, QueuedOnce
<1>4. RestoreRead(w) => job[w].at = "giving up" /\ job'[w].at = "crediting"
  <2>1. [job[w] EXCEPT !.at = "crediting", !.seen = balance].at = "crediting"
    BY <1>2 DEF Job
  <2>2. QED
    BY <2>1 DEF RestoreRead, TypeOK
<1>5. RestoreCredit(w) => job[w].at = "crediting" /\ job'[w].at = "credited"
  <2>1. [job[w] EXCEPT !.at = "credited"].at = "credited"
    BY <1>2 DEF Job
  <2>2. QED
    BY <2>1 DEF RestoreCredit, TypeOK
<1>6. RestoreSave(w) \/ JobLost(w) =>
          job'[w].at \in {"done", "lost"} /\ job'[w].retries = job[w].retries
  <2>1. ASSUME NEW at \in {"done", "lost"}, job' = [job EXCEPT ![w].at = at]
        PROVE  job'[w].at = at /\ job'[w].retries = job[w].retries
    BY <1>2, <2>1 DEF TypeOK, Job
  <2>2. RestoreSave(w) => job' = [job EXCEPT ![w].at = "done"]
    BY DEF RestoreSave
  <2>3. JobLost(w) => job' = [job EXCEPT ![w].at = "lost"]
    BY DEF JobLost
  <2>4. QED
    BY <2>1, <2>2, <2>3
<1>7. QED
  BY <1>1, <1>3, <1>4, <1>5, <1>6 DEF JobMove

\* Every step keeps the give-up of a task single.
LEMMA GiveUpsOnceStep ==
    TypeInv /\ GiveUpsOnce /\ QueuedOnce /\ [Next]_vars => GiveUpsOnce'
<1> SUFFICES ASSUME TypeInv, GiveUpsOnce, QueuedOnce, [Next]_vars, NEW w \in Withdrawals
             PROVE  /\ job'[w].at \in {"giving up", "crediting", "credited"} =>
                          job'[w].retries = MaxRetries
                    /\ credits'[w].giveup > 0 => job'[w].at \in {"credited", "done", "lost"}
                    /\ job'[w].at = "credited" => credits'[w].giveup > 0
  BY DEF GiveUpsOnce
<1> USE DEF TypeInv
<1>1. /\ job[w].at \in {"giving up", "crediting", "credited"} => job[w].retries = MaxRetries
      /\ credits[w].giveup > 0 => job[w].at \in {"credited", "done", "lost"}
      /\ job[w].at = "credited" => credits[w].giveup > 0
  BY DEF GiveUpsOnce
<1>2. job'[w].at \in {"giving up", "crediting", "credited"} => job'[w].retries = MaxRetries
  BY <1>1, GiveUpMoves DEF RestoreRead, RestoreCredit
<1>3. CreditMove(w) /\ credits[w].giveup \in Nat
  BY CreditMoves DEF TypeOK
<1>4. CASE RestoreCredit(w)
  <2>1. job'[w].at = "credited"
    BY <1>4 DEF RestoreCredit, TypeOK, Job
  <2>2. credits'[w].giveup = credits[w].giveup + 1
    BY <1>4 DEF RestoreCredit, TypeOK
  <2>3. credits'[w].giveup > 0
    BY <1>3, <2>2
  <2>4. QED
    BY <1>2, <2>1, <2>3
<1>5. CASE ~ RestoreCredit(w)
  <2>1. credits'[w].giveup = credits[w].giveup
    BY <1>3, <1>5 DEF CreditMove
  <2>2. job'[w].at = "credited" => job[w].at = "credited"
    BY <1>5, GiveUpMoves
  <2>3. job[w].at \in {"credited", "done", "lost"} => job'[w].at \in {"credited", "done", "lost"}
    BY GiveUpMoves
  <2>4. QED
    BY <1>1, <1>2, <2>1, <2>2, <2>3
<1>6. QED
  BY <1>4, <1>5

\* Every step keeps the credits few and justified.
LEMMA CreditsStep ==
    ASSUME TypeInv, CreditsJustified, VerdictsTold, VerdictsOnce, GiveUpsOnce, QueuedOnce,
           [Next]_vars
    PROVE  CreditsJustified'
<1> SUFFICES ASSUME NEW w \in Withdrawals
             PROVE  /\ credits'[w].verdict > 0 =>
                          /\ credits'[w].verdict = 1
                          /\ paystack'[w] \cap {"failed", "reversed"} # {}
                    /\ credits'[w].giveup > 0 =>
                          /\ credits'[w].giveup = 1
                          /\ job'[w].retries = MaxRetries
  BY DEF CreditsJustified
<1> USE DEF TypeInv
<1>1. paystack[w] \subseteq paystack'[w]
  BY PaystackGrows
<1>2. /\ credits[w].verdict > 0 =>
            credits[w].verdict = 1 /\ paystack[w] \cap {"failed", "reversed"} # {}
      /\ credits[w].giveup > 0 =>
            credits[w].giveup = 1 /\ job[w].retries = MaxRetries
  BY DEF CreditsJustified
<1>3. CreditMove(w) /\ credits[w].giveup \in Nat /\ credits[w].verdict \in Nat
  BY CreditMoves DEF TypeOK
<1>4. credits'[w].verdict > 0 =>
          credits'[w].verdict = 1 /\ paystack'[w] \cap {"failed", "reversed"} # {}
  <2>1. CASE VerifyCommit(w) /\ ~ Paid(verify[w])
             /\ credits'[w].verdict = credits[w].verdict + 1
    <3>1. verify[w] \in {"failed", "reversed"} /\ verify[w] \in paystack[w]
      BY <2>1 DEF VerifyCommit, Paid, Verdicts, VerdictsTold
    <3>2. credits[w].verdict = 0
      BY <3>1 DEF VerdictsOnce
    <3>3. credits'[w].verdict = 1
      BY <2>1, <3>2
    <3>4. QED
      BY <1>1, <3>1, <3>3
  <2>2. CASE credits'[w].verdict = credits[w].verdict
    BY <1>1, <1>2, <2>2
  <2>3. QED
    BY <1>3, <2>1, <2>2 DEF CreditMove
<1>5. credits'[w].giveup > 0 => credits'[w].giveup = 1 /\ job'[w].retries = MaxRetries
  <2>1. CASE RestoreCredit(w)
    <3>1. job[w].at = "crediting"
      BY <2>1 DEF RestoreCredit
    <3>2. credits[w].giveup = 0 /\ job[w].retries = MaxRetries
      <4>1. ~ (credits[w].giveup > 0) /\ job[w].retries = MaxRetries
        BY <3>1 DEF GiveUpsOnce
      <4>2. QED
        BY <1>3, <4>1
    <3>3. credits'[w].giveup = credits[w].giveup + 1
      BY <2>1 DEF RestoreCredit, TypeOK
    <3>4. job'[w].retries = job[w].retries
      <4>1. job[w] \in Job /\ job' = [job EXCEPT ![w].at = "credited"]
        BY <2>1 DEF RestoreCredit, TypeOK
      <4>2. QED
        BY <4>1 DEF TypeOK, Job
    <3>5. QED
      BY <3>2, <3>3, <3>4
  <2>2. CASE ~ RestoreCredit(w)
    <3>1. credits'[w].giveup = credits[w].giveup
      BY <1>3, <2>2 DEF CreditMove
    <3>2. credits[w].giveup > 0 => job'[w].retries = job[w].retries
      BY GiveUpMoves DEF GiveUpsOnce
    <3>3. QED
      BY <1>2, <3>1, <3>2
  <2>3. QED
    BY <2>1, <2>2
<1>6. QED
  BY <1>4, <1>5

\* Every step keeps the queueing of a task single.
LEMMA QueuedOnceStep == TypeInv /\ QueuedOnce /\ [Next]_vars => QueuedOnce'
<1> SUFFICES ASSUME TypeInv, QueuedOnce, [Next]_vars
             PROVE  QueuedOnce'
  OBVIOUS
<1> USE DEF TypeInv
<1>1. \A w \in Withdrawals : job[w].at = "none" =>
          \/ job'[w].at = "none"
          \/ \E r \in Requests : WithdrawEnqueue(r) /\ request[r].withdrawal = w
  BY JobMoves DEF JobMove, RestoreRead, RestoreCredit, RestoreSave, JobLost
<1>2. ASSUME \A r \in Requests : ~ WithdrawEnqueue(r),
             \A r \in Requests : request'[r].at = "committed" => request'[r] = request[r]
      PROVE  QueuedOnce'
  <2>1. \A r \in Requests : request'[r].at = "committed" =>
            request[r].at = "committed" /\ request[r].withdrawal \in Withdrawals
    BY <1>2, RequestShape DEF Committed
  <2>2. QED
    BY <1>1, <1>2, <2>1 DEF QueuedOnce
<1>3. ASSUME NEW r \in Requests, NEW w \in Withdrawals, WithdrawCommit(r, w)
      PROVE  QueuedOnce'
  <2>1. job[w].at = "none" /\ UNCHANGED job
    BY <1>3 DEF WithdrawCommit, RowsExist
  <2>2. request'[r].at = "committed" /\ request'[r].withdrawal = w
    BY <1>3 DEF WithdrawCommit, TypeOK
  <2>3. \A s \in Requests \ {r} : request'[s] = request[s]
    BY <1>3 DEF WithdrawCommit, TypeOK
  <2>4. \A s \in Requests : request[s].at = "committed" => request[s].withdrawal # w
    BY <1>3 DEF WithdrawCommit, RowsExist
  <2>5. QED
    BY <2>1, <2>2, <2>3, <2>4 DEF QueuedOnce
<1>4. ASSUME NEW r \in Requests, WithdrawEnqueue(r)
      PROVE  QueuedOnce'
  <2>1. /\ request[r].at = "committed"
        /\ request' = [request EXCEPT ![r] = Idle]
        /\ job' = [job EXCEPT ![request[r].withdrawal].at = "queued"]
    BY <1>4 DEF WithdrawEnqueue
  <2>2. request'[r].at # "committed" /\ \A s \in Requests \ {r} : request'[s] = request[s]
    BY <2>1 DEF TypeOK, Idle
  <2>3. \A s \in Requests \ {r} : request[s].at = "committed" =>
            /\ request[s].withdrawal # request[r].withdrawal
            /\ job[request[s].withdrawal].at = "none"
            /\ request[s].withdrawal \in Withdrawals
    BY <2>1, RequestShape DEF QueuedOnce, Committed
  <2>4. \A w \in Withdrawals : w # request[r].withdrawal => job'[w] = job[w]
    BY <2>1 DEF TypeOK
  <2>5. QED
    BY <2>2, <2>3, <2>4 DEF QueuedOnce
<1>5. ASSUME NEW r \in Requests, NEW key \in Keys, NEW amount \in Amounts,
             WithdrawValidate(r, key, amount)
      PROVE  \A s \in Requests : request'[s].at = "committed" => request'[s] = request[s]
  BY <1>5 DEF WithdrawValidate, TypeOK
<1>6. ASSUME NEW r \in Requests, WithdrawCheckKey(r)
      PROVE  \A s \in Requests : request'[s].at = "committed" => request'[s] = request[s]
  <2>1. request'[r].at # "committed"
    BY <1>6, RequestShape DEF WithdrawCheckKey, TypeOK, Idle, Withdrawing
  <2>2. \A s \in Requests \ {r} : request'[s] = request[s]
    BY <1>6 DEF WithdrawCheckKey, TypeOK
  <2>3. QED
    BY <2>1, <2>2
<1>7. ASSUME NEW r \in Requests, RequestFails(r)
      PROVE  \A s \in Requests : request'[s].at = "committed" => request'[s] = request[s]
  BY <1>7 DEF RequestFails, TypeOK, Idle
<1>8. ASSUME UNCHANGED request
      PROVE  \A s \in Requests : request'[s].at = "committed" => request'[s] = request[s]
  BY <1>8
<1>9. (\E r \in Requests : WithdrawEnqueue(r)) \/ (\E r \in Requests, w \in Withdrawals :
          WithdrawCommit(r, w))
          \/ \A s \in Requests : request'[s].at = "committed" => request'[s] = request[s]
  BY <1>5, <1>6, <1>7, <1>8, NextCases
     DEF vars, Claim, InitiateTransfer, Record, RestoreRead, RestoreCredit, RestoreSave,
         JobRaises, JobLost, Settle, WebhookReceive, WebhookDispatch, WebhookFails,
         VerifyCommit, VerifyLost
<1>10. QED
  BY <1>2, <1>3, <1>4, <1>9

\* Every step keeps the balance, and the copies of it, sufficient.
LEMMA CoverStep ==
    TypeInv /\ NoOverdraft /\ CopiesCover /\ [Next]_vars => NoOverdraft' /\ CopiesCover'
<1> SUFFICES ASSUME TypeInv, NoOverdraft, CopiesCover, [Next]_vars
             PROVE  NoOverdraft' /\ CopiesCover'
  OBVIOUS
<1> USE DEF TypeInv
<1>1. balance \in Int /\ balance >= 0
  BY DEF TypeOK, NoOverdraft
<1>2. \A w \in Withdrawals : Exists(w) => withdrawal[w].amount \in Nat
  BY DEF TypeOK, Exists, NoRow, WalletTransaction
<1>3. NoOverdraft'
  <2>1. CASE UNCHANGED balance
    BY <2>1 DEF NoOverdraft
  <2>2. ASSUME NEW r \in Requests, NEW w \in Withdrawals, WithdrawCommit(r, w)
        PROVE  balance' >= 0
    <3>1. request[r] \in Withdrawing /\ request[r].amount <= request[r].balance
      BY <2>2, RequestShape DEF WithdrawCommit, CopiesCover
    <3>2. request[r].amount \in Nat /\ request[r].balance \in Nat
      BY <3>1 DEF Withdrawing
    <3>3. QED
      BY <2>2, <3>1, <3>2 DEF WithdrawCommit
  <2>3. ASSUME NEW w \in Withdrawals, RestoreCredit(w)
        PROVE  balance' >= 0
    <3>1. job[w] \in Job /\ job[w].seen >= 0 /\ withdrawal[w].amount \in Nat
      BY <1>2, <2>3 DEF RestoreCredit, CopiesCover, RowsExist, TypeOK
    <3>2. job[w].seen \in Int
      BY <3>1 DEF Job
    <3>3. QED
      BY <2>3, <3>1, <3>2 DEF RestoreCredit
  <2>4. ASSUME NEW w \in Withdrawals, VerifyCommit(w)
        PROVE  balance' >= 0
    <3>1. CASE Awaits(w)
      <4>1. withdrawal[w].amount \in Nat
        BY <1>2, <3>1 DEF Awaits, Exists
      <4>2. balance' = balance \/ balance' = balance + withdrawal[w].amount
        BY <2>4 DEF VerifyCommit
      <4>3. QED
        BY <1>1, <4>1, <4>2
    <3>2. CASE ~ Awaits(w)
      BY <1>1, <2>4, <3>2 DEF VerifyCommit
    <3>3. QED
      BY <3>1, <3>2
  <2>5. QED
    BY <2>1, <2>2, <2>3, <2>4, NextCases
       DEF vars, NoOverdraft, WithdrawValidate, WithdrawCheckKey, WithdrawEnqueue,
           RequestFails, Claim, InitiateTransfer, Record, RestoreRead, RestoreSave,
           JobRaises, JobLost, Settle, WebhookReceive, WebhookDispatch, WebhookFails,
           VerifyLost
<1>4. ASSUME NEW r \in Requests, request'[r].at \in {"validated", "unique"}
      PROVE  request'[r].amount <= request'[r].balance
  <2>1. CASE request'[r] = request[r]
    BY <1>4, <2>1 DEF CopiesCover
  <2>2. ASSUME NEW s \in Requests, NEW key \in Keys, NEW amount \in Amounts,
               WithdrawValidate(s, key, amount)
        PROVE  request'[r].amount <= request'[r].balance
    <3>1. CASE s = r
      BY <2>2, <3>1 DEF WithdrawValidate, Covers, TypeOK
    <3>2. CASE s # r
      BY <2>1, <2>2, <3>2 DEF WithdrawValidate, TypeOK
    <3>3. QED
      BY <3>1, <3>2
  <2>3. ASSUME NEW s \in Requests, WithdrawCheckKey(s)
        PROVE  request'[r].amount <= request'[r].balance
    <3>1. CASE s = r
      <4>1. request[r] \in Withdrawing /\ request[r].amount <= request[r].balance
        BY <2>3, <3>1, RequestShape DEF WithdrawCheckKey, CopiesCover
      <4>2. request'[r].amount = request[r].amount /\ request'[r].balance = request[r].balance
        BY <1>4, <2>3, <3>1, <4>1 DEF WithdrawCheckKey, TypeOK, Idle, Withdrawing
      <4>3. QED
        BY <4>1, <4>2
    <3>2. CASE s # r
      BY <2>1, <2>3, <3>2 DEF WithdrawCheckKey, TypeOK
    <3>3. QED
      BY <3>1, <3>2
  <2>4. ASSUME NEW s \in Requests,
               (\E w \in Withdrawals : WithdrawCommit(s, w))
                   \/ WithdrawEnqueue(s) \/ RequestFails(s)
        PROVE  request'[r] = request[r]
    BY <1>4, <2>4 DEF WithdrawCommit, WithdrawEnqueue, RequestFails, TypeOK, Idle
  <2>5. QED
    BY <2>1, <2>2, <2>3, <2>4, NextCases
       DEF vars, Claim, InitiateTransfer, Record, RestoreRead, RestoreCredit, RestoreSave,
           JobRaises, JobLost, Settle, WebhookReceive, WebhookDispatch, WebhookFails,
           VerifyCommit, VerifyLost
<1>5. ASSUME NEW w \in Withdrawals, job'[w].at = "crediting"
      PROVE  job'[w].seen >= 0
  <2>1. CASE job'[w] = job[w]
    BY <1>5, <2>1 DEF CopiesCover
  <2>2. CASE RestoreRead(w)
    <3>1. job[w] \in Job
      BY DEF TypeOK
    <3>2. [job[w] EXCEPT !.at = "crediting", !.seen = balance].seen = balance
      BY <3>1 DEF Job
    <3>3. job'[w] = [job[w] EXCEPT !.at = "crediting", !.seen = balance]
      BY <2>2 DEF RestoreRead, TypeOK
    <3>4. QED
      BY <1>1, <3>2, <3>3
  <2>3. CASE RestoreCredit(w) \/ RestoreSave(w) \/ JobLost(w)
    <3>1. job[w] \in Job
      BY DEF TypeOK
    <3>2. \/ job' = [job EXCEPT ![w].at = "credited"]
          \/ job' = [job EXCEPT ![w].at = "done"]
          \/ job' = [job EXCEPT ![w].at = "lost"]
      BY <2>3 DEF RestoreCredit, RestoreSave, JobLost
    <3>3. job'[w].at \in {"credited", "done", "lost"}
      <4>1. \A at : [job[w] EXCEPT !.at = at].at = at
        BY <3>1 DEF Job
      <4>2. /\ [job EXCEPT ![w].at = "credited"][w] = [job[w] EXCEPT !.at = "credited"]
            /\ [job EXCEPT ![w].at = "done"][w] = [job[w] EXCEPT !.at = "done"]
            /\ [job EXCEPT ![w].at = "lost"][w] = [job[w] EXCEPT !.at = "lost"]
        BY DEF TypeOK
      <4>3. QED
        BY <3>2, <4>1, <4>2
    <3>4. QED
      BY <1>5, <3>3
  <2>4. QED
    BY <1>5, <2>1, <2>2, <2>3, JobMoves DEF JobMove
<1>6. QED
  BY <1>3, <1>4, <1>5 DEF CopiesCover

-----------------------------------------------------------------------------

\* Every step keeps the invariant.
LEMMA IInvStep == IInv /\ [Next]_vars => IInv'
BY TypeStep, EventToldStep, CoverStep, CompletedStep, VerdictsToldStep, FailedStep, CreditsStep,
   VerdictsOnceStep, GiveUpsOnceStep, QueuedOnceStep DEF IInv

\* The inductive invariant holds in every reachable state.
THEOREM InvariantHolds == Spec => []IInv
BY IInvInit, IInvStep, PTL DEF Spec

\* The wallet is never overdrawn (wallet/serializers.py:280-315).
THEOREM NeverOverdrawn == Spec => []NoOverdraft
<1>1. IInv => NoOverdraft
  BY DEF IInv
<1>2. QED
  BY <1>1, InvariantHolds, PTL

\* A completed withdrawal was paid (wallet/tasks.py:240).
THEOREM CompletedAlwaysPaid == Spec => []CompletedMeansPaid
<1>1. IInv => CompletedMeansPaid
  BY DEF IInv
<1>2. QED
  BY <1>1, InvariantHolds, PTL

\* A failed withdrawal was given back (wallet/transactions/services.py:53-59).
THEOREM FailedAlwaysCredited == Spec => []FailedMeansCredited
<1>1. IInv => FailedMeansCredited
  BY DEF IInv
<1>2. QED
  BY <1>1, InvariantHolds, PTL

\* Each task gives a withdrawal back at most once, and with a reason
\* (wallet/tasks.py:189-205 and 240-270, wallet/views.py:244).
THEOREM CreditsAlwaysJustified == Spec => []CreditsJustified
<1>1. IInv => CreditsJustified
  BY DEF IInv
<1>2. QED
  BY <1>1, InvariantHolds, PTL

-----------------------------------------------------------------------------
(* Idempotency keys.                                                       *)

\* The key that a POST has found unused is still unused.
KeyStaysUnused ==
    \A r \in Requests : request[r].at = "unique" => ~ KeyUsed(request[r].key)

\* No two withdrawals share a key.
KeyApart ==
    \A w1, w2 \in Withdrawals :
        Exists(w1) /\ Exists(w2) /\ withdrawal[w1].key = withdrawal[w2].key => w1 = w2

\* Without a race every step keeps the keys apart.
LEMMA KeyApartStep ==
    ASSUME ~ Race, TypeInv, KeyApart, KeyStaysUnused, [Next]_vars
    PROVE  KeyApart' /\ KeyStaysUnused'
<1> USE DEF TypeInv
<1>1. ASSUME NEW r \in Requests, NEW w \in Withdrawals, WithdrawCommit(r, w)
      PROVE  KeyApart' /\ KeyStaysUnused'
  <2>1. ~ KeyUsed(request[r].key)
    BY <1>1 DEF WithdrawCommit, KeyStaysUnused
  <2>2. \A x \in Withdrawals : Exists(x) => x # w /\ withdrawal[x].key # request[r].key
    BY <1>1, <2>1 DEF WithdrawCommit, KeyUsed
  <2>3. /\ withdrawal'[w].key = request[r].key
        /\ \A x \in Withdrawals \ {w} : withdrawal'[x] = withdrawal[x]
    BY <1>1 DEF WithdrawCommit, TypeOK
  <2>4. KeyApart'
    BY <2>2, <2>3 DEF KeyApart, Exists
  <2>5. /\ request'[r].at = "committed"
        /\ \A s \in Requests \ {r} : request'[s] = request[s]
        /\ request[r].at = "unique"
    BY <1>1 DEF WithdrawCommit, TypeOK
  <2>6. \A s \in Requests \ {r} : request[s].at = "unique" => request[s].key # request[r].key
    BY <2>5 DEF Race
  <2>7. \A key : KeyUsed(key)' => KeyUsed(key) \/ key = request[r].key
    BY <2>2, <2>3 DEF KeyUsed, Exists
  <2>8. QED
    BY <2>4, <2>5, <2>6, <2>7 DEF KeyStaysUnused
<1>2. ASSUME NEW x \in Withdrawals, Exists(x),
             NEW s \in {"PROCESSING", "COMPLETED", "FAILED"},
             withdrawal' = [withdrawal EXCEPT ![x].status = s]
      PROVE  \A y \in Withdrawals :
                 withdrawal'[y].key = withdrawal[y].key /\ (Exists(y)' <=> Exists(y))
  <2>1. withdrawal[x] \in WalletTransaction
    BY <1>2 DEF TypeOK, Exists, NoRow
  <2>2. [withdrawal[x] EXCEPT !.status = s].key = withdrawal[x].key
    BY <2>1 DEF WalletTransaction
  <2>3. \A y \in Withdrawals : Exists(y)' <=> Exists(y)
    BY <1>2, StatusUpdate
  <2>4. QED
    BY <1>2, <2>2, <2>3 DEF TypeOK
<1>3. CASE \A r \in Requests, w \in Withdrawals : ~ WithdrawCommit(r, w)
  <2>1. \A y \in Withdrawals :
            withdrawal'[y].key = withdrawal[y].key /\ (Exists(y)' <=> Exists(y))
    <3>1. CASE UNCHANGED withdrawal
      BY <3>1 DEF Exists
    <3>2. ASSUME NEW x \in Withdrawals,
                 Claim(x) \/ Record(x) \/ RestoreSave(x) \/ VerifyCommit(x)
          PROVE  \/ UNCHANGED withdrawal
                 \/ /\ Exists(x)
                    /\ \E s \in {"PROCESSING", "COMPLETED", "FAILED"} :
                           withdrawal' = [withdrawal EXCEPT ![x].status = s]
      BY <3>2 DEF Claim, Record, RestoreSave, VerifyCommit, Awaits, RowsExist, Exists
    <3>3. QED
      BY <1>2, <1>3, <3>1, <3>2, NextCases
         DEF vars, WithdrawValidate, WithdrawCheckKey, WithdrawEnqueue, RequestFails,
             InitiateTransfer, RestoreRead, RestoreCredit, JobRaises, JobLost, Settle,
             WebhookReceive, WebhookDispatch, WebhookFails, VerifyLost
  <2>2. KeyApart'
    BY <2>1 DEF KeyApart
  <2>3. \A key : KeyUsed(key)' <=> KeyUsed(key)
    BY <2>1 DEF KeyUsed
  <2>4. ASSUME NEW r \in Requests, request'[r].at = "unique"
        PROVE  ~ KeyUsed(request'[r].key)
    <3>1. CASE request'[r] = request[r]
      BY <2>4, <3>1 DEF KeyStaysUnused
    <3>2. CASE WithdrawCheckKey(r)
      <4>1. request[r] \in Withdrawing
        BY <3>2, RequestShape DEF WithdrawCheckKey
      <4>2. CASE KeyUsed(request[r].key)
        BY <2>4, <3>2, <4>2 DEF WithdrawCheckKey, TypeOK, Idle
      <4>3. CASE ~ KeyUsed(request[r].key)
        <5>1. request'[r] = [request[r] EXCEPT !.at = "unique"]
          BY <3>2, <4>3 DEF WithdrawCheckKey, TypeOK
        <5>2. QED
          BY <4>1, <4>3, <5>1 DEF Withdrawing
      <4>4. QED
        BY <4>2, <4>3
    <3>3. ASSUME NEW s \in Requests,
                 \/ \E key \in Keys, amount \in Amounts : WithdrawValidate(s, key, amount)
                 \/ s # r /\ WithdrawCheckKey(s)
                 \/ WithdrawEnqueue(s) \/ RequestFails(s)
          PROVE  request'[r] = request[r]
      BY <2>4, <3>3
         DEF WithdrawValidate, WithdrawCheckKey, WithdrawEnqueue, RequestFails, TypeOK, Idle
    <3>4. QED
      BY <1>3, <3>1, <3>2, <3>3, NextCases
         DEF vars, Claim, InitiateTransfer, Record, RestoreRead,
             RestoreCredit, RestoreSave, JobRaises, JobLost, Settle, WebhookReceive,
             WebhookDispatch, WebhookFails, VerifyCommit, VerifyLost
  <2>5. QED
    BY <2>2, <2>3, <2>4 DEF KeyStaysUnused
<1>4. QED
  BY <1>1, <1>3

\* An idempotency key names one withdrawal unless two POSTs with that key
\* have found it unused at once (wallet/views.py:136-146).
THEOREM OnePerKeyUnlessRaced == Spec => []OnePerKey
<1> DEFINE KInv == ~ raced => ~ Race /\ KeyApart /\ KeyStaysUnused
<1>1. Init => KInv
  <2> SUFFICES ASSUME Init PROVE ~ Race /\ KeyApart /\ KeyStaysUnused
    OBVIOUS
  <2>1. \A w \in Withdrawals : ~ Exists(w)
    BY DEF Init, Exists, NoRow
  <2>2. \A r \in Requests : request[r].at = "idle"
    BY DEF Init, Idle
  <2>3. QED
    BY <2>1, <2>2 DEF KeyApart, KeyStaysUnused, Race
<1>2. TypeInv /\ KInv /\ [Next]_vars => KInv'
  <2> SUFFICES ASSUME TypeInv, KInv, [Next]_vars, ~ raced'
               PROVE  ~ Race' /\ KeyApart' /\ KeyStaysUnused'
    OBVIOUS
  <2>1. ~ raced
    BY DEF Next, vars
  <2>2. ~ Race'
    <3>1. CASE Next
      BY <3>1 DEF Next
    <3>2. CASE UNCHANGED vars
      BY <2>1, <3>2 DEF vars, Race
    <3>3. QED
      BY <3>1, <3>2
  <2>3. KeyApart' /\ KeyStaysUnused'
    BY <2>1, KeyApartStep
  <2>4. QED
    BY <2>2, <2>3
<1>3. KInv => OnePerKey
  BY DEF OnePerKey, KeyApart
<1> HIDE DEF KInv
<1>4. QED
  BY <1>1, <1>2, <1>3, TypeInit, TypeStep, PTL DEF Spec
=============================================================================
