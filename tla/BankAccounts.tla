---------------------------- MODULE BankAccounts ----------------------------
(***************************************************************************)
(* One bank account number, which several users may add (apps/wallet,      *)
(* payments/views.py): bank/resolve asks Paystack for the holder and       *)
(* inserts a row, transfer/recipient asks it for the recipient code that   *)
(* withdrawals are sent to.                                                *)
(* Left out: the format of numbers, and names and ids that Paystack knows. *)
(*                                                                         *)
(* An operator marked "faulty" stands for a plausible bug: only the mutant *)
(* run uses it, in the place of the definition that follows it.            *)
(***************************************************************************)
EXTENDS Naturals, FiniteSets

CONSTANTS
    Users,    \* who may add the account
    Requests  \* slots for requests in flight (bounds the overlap)

VARIABLES
    account,  \* account[u] : u's BankAccount row: "none", "resolved" or "recipient"
    request   \* request[r] : where request r is

vars == <<account, request>>

Idle == [at |-> "idle"]

Running == [at : {"resolve", "recipient", "save"}, user : Users]

Init ==
    /\ account = [u \in Users |-> "none"]
    /\ request = [r \in Requests |-> Idle]

Goto(r, step, u) == request' = [request EXCEPT ![r] = [at |-> step, user |-> u]]

Done(r) == request' = [request EXCEPT ![r] = Idle]

\* BankAccountViewSet.create: a row that is found is returned.
Resolve(r, u) ==
    /\ request[r] = Idle
    /\ account[u] = "none"
    /\ Goto(r, "resolve", u)
    /\ UNCHANGED account

\* Paystack has answered; unique_together refuses a second row of the user.
ResolveSave(r) ==
    LET u == request[r].user IN
    /\ request[r].at = "resolve"
    /\ account' = IF account[u] = "none" THEN [account EXCEPT ![u] = "resolved"] ELSE account
    /\ Done(r)

\* TransferViewSet.create: a row that has its code is returned.
Recipient(r, u) ==
    /\ request[r] = Idle
    /\ account[u] # "recipient"
    /\ Goto(r, "recipient", u)
    /\ UNCHANGED account

Holders == {u \in Users : account[u] # "none"}

\* Faulty: the number is looked up among the user's own accounts.
FoundOwn(u) == u \in Holders

\* get(account_number=...) raises unless one row of all users has it; then
\* the row must be the user's.
Found(u) == Holders = {u}

Lookup(r) ==
    LET u == request[r].user IN
    /\ request[r].at = "recipient"
    /\ IF Found(u) THEN Goto(r, "save", u) ELSE Done(r)
    /\ UNCHANGED account

\* Paystack has made the recipient; only its columns are saved.
RecipientSave(r) ==
    /\ request[r].at = "save"
    /\ account' = [account EXCEPT ![request[r].user] = "recipient"]
    /\ Done(r)

\* Paystack refuses or cannot be reached, or the thread dies.
RequestFails(r) ==
    /\ request[r] # Idle
    /\ Done(r)
    /\ UNCHANGED account

Next ==
    \E r \in Requests :
        \/ \E u \in Users : Resolve(r, u) \/ Recipient(r, u)
        \/ ResolveSave(r) \/ Lookup(r) \/ RecipientSave(r) \/ RequestFails(r)

Spec == Init /\ [][Next]_vars

-----------------------------------------------------------------------------

\* Every variable keeps the shape the database and the threads give it.
TypeOK ==
    /\ account \in [Users -> {"none", "resolved", "recipient"}]
    /\ request \in [Requests -> {Idle} \cup Running]

\* Two users may add one account, but only one of them ever gets the
\* recipient code that Paystack gives it, also when they ask at once, so
\* that get(recipient_code=...) (wallet/services.py:129) finds one row.
OneRecipient == Cardinality({u \in Users : account[u] = "recipient"}) <= 1
=============================================================================
