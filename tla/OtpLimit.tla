------------------------------ MODULE OtpLimit ------------------------------
(***************************************************************************)
(* RateLimitOtpRequestMiddleware for one address: a counter in the cache,  *)
(* created with INITIAL_REQUEST for a day, compared with                   *)
(* OTP_RETRIES_PER_DAY and incremented, each in a call of its own.         *)
(* Left out: the second key, which nothing reads.                          *)
(*                                                                         *)
(* An operator marked "faulty" stands for a plausible bug: only the mutant *)
(* run uses it, in the place of the definition that follows it.            *)
(***************************************************************************)
EXTENDS Naturals, FiniteSets

CONSTANTS
    MaxRequest,  \* OTP_RETRIES_PER_DAY
    Initial,     \* INITIAL_REQUEST
    Requests     \* slots for requests in flight (bounds the overlap)

VARIABLES
    retries,  \* the counter, or NoKey
    request,  \* request[r] : where request r is in the middleware
    served    \* requests let through since the last counter expired

vars == <<retries, request, served>>

NoKey == 0

Init ==
    /\ retries = NoKey
    /\ request = [r \in Requests |-> "idle"]
    /\ served = 0

Goto(r, step) == request' = [request EXCEPT ![r] = step]

HasKey(r) ==
    /\ request[r] = "idle"
    /\ Goto(r, IF retries = NoKey THEN "set" ELSE "get")
    /\ UNCHANGED <<retries, served>>

Set(r) ==
    /\ request[r] = "set"
    /\ retries' = Initial
    /\ Goto(r, "get")
    /\ UNCHANGED served

\* Faulty: the last allowed number is let through once more.
OneMore(count) == count > MaxRequest

Exceeded(count) == count >= MaxRequest

\* The refusal is raised though it is a response, and answered with a 500.
Get(r) ==
    /\ request[r] = "get"
    /\ Goto(r, IF Exceeded(IF retries = NoKey THEN Initial ELSE retries)
               THEN "idle" ELSE "incr")
    /\ UNCHANGED <<retries, served>>

\* incr of a key that has expired meanwhile raises.
Incr(r) ==
    /\ request[r] = "incr"
    /\ IF retries = NoKey
       THEN UNCHANGED <<retries, served>>
       ELSE retries' = retries + 1 /\ served' = served + 1
    /\ Goto(r, "idle")

\* The day is over.
Expire ==
    /\ retries # NoKey
    /\ retries' = NoKey
    /\ served' = 0
    /\ UNCHANGED request

Next ==
    \/ \E r \in Requests : HasKey(r) \/ Set(r) \/ Get(r) \/ Incr(r)
    \/ Expire

Spec == Init /\ [][Next]_vars

-----------------------------------------------------------------------------

\* Every variable keeps its shape.
TypeOK ==
    /\ retries \in 0 .. MaxRequest + Cardinality(Requests)
    /\ request \in [Requests -> {"idle", "set", "get", "incr"}]
    /\ served \in Nat

\* In one life of the counter the codes that are sent stay bounded: by the
\* daily limit when requests come one after the other; each further request
\* in flight can start the count anew once, after which those in flight can
\* all pass the comparison together.
LimitHolds ==
    LET k == Cardinality(Requests) IN
    served <= k * (MaxRequest - Initial) + (k * (k - 1)) \div 2
=============================================================================
