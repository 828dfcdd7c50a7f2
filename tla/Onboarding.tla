----------------------------- MODULE Onboarding -----------------------------
(***************************************************************************)
(* One user chooses a role (apps/users, onboarding): the serializer looks  *)
(* for a customer or provider profile, then a service creates the one and  *)
(* sets the flag of the user row in one transaction.  Requests that edit   *)
(* the profile save the whole user row that they read.                     *)
(* Left out: what the profiles say.                                        *)
(*                                                                         *)
(* An operator marked "faulty" stands for a plausible bug: only the mutant *)
(* run uses it, in the place of the definition that follows it.            *)
(***************************************************************************)
CONSTANT Requests  \* slots for requests in flight (bounds the overlap)

VARIABLES
    profile,  \* roles with a CustomerModel or ProviderModel row
    flag,     \* is_customer, is_provider of the user row
    request   \* request[r] : where request r is

vars == <<profile, flag, request>>

Roles == {"CUSTOMER", "SERVICE_PROVIDER"}

Idle == [at |-> "idle"]

Running == [at : {"onboard"}, role : Roles] \cup [at : {"edit"}, copy : SUBSET Roles]

Init ==
    /\ profile = {}
    /\ flag = {}
    /\ request = [r \in Requests |-> Idle]

Goto(r, step) == request' = [request EXCEPT ![r] = step]

\* Faulty: only a profile of the same role is looked for.
HasThisProfile(role) == role \in profile

AlreadyHasAProfile(role) == profile # {}

Check(r, role) ==
    /\ request[r] = Idle
    /\ ~ AlreadyHasAProfile(role)
    /\ Goto(r, [at |-> "onboard", role |-> role])
    /\ UNCHANGED <<profile, flag>>

\* get_or_create, and save(update_fields).
Create(r) ==
    /\ request[r].at = "onboard"
    /\ profile' = profile \cup {request[r].role}
    /\ flag' = flag \cup {request[r].role}
    /\ Goto(r, Idle)

\* PATCH me with user data: BaseProfileCreateSerializer.update.
EditRead(r) ==
    /\ request[r] = Idle
    /\ Goto(r, [at |-> "edit", copy |-> flag])
    /\ UNCHANGED <<profile, flag>>

EditSave(r) ==
    /\ request[r].at = "edit"
    /\ flag' = request[r].copy
    /\ Goto(r, Idle)
    /\ UNCHANGED profile

RequestFails(r) ==
    /\ request[r] # Idle
    /\ Goto(r, Idle)
    /\ UNCHANGED <<profile, flag>>

Next ==
    \E r \in Requests :
        \/ \E role \in Roles : Check(r, role)
        \/ Create(r)
        \/ EditRead(r)
        \/ EditSave(r)
        \/ RequestFails(r)

Spec == Init /\ [][Next]_vars

-----------------------------------------------------------------------------

\* Every variable keeps the shape the database and the threads give it, and
\* a flag never names a role without a profile, which the view of "me" reads.
TypeOK ==
    /\ profile \subseteq Roles
    /\ flag \subseteq profile
    /\ request \in [Requests -> {Idle} \cup Running]

\* "profile already exists" (onboard.py:27): with one request at a time a
\* user has one role, and the flags say which.
OneRole == flag = profile /\ profile # Roles
=============================================================================
