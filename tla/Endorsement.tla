---------------------------- MODULE Endorsement ----------------------------
(***************************************************************************)
(* Endorsements of providers (apps/chats/endorsements): the serializer     *)
(* looks for an active endorsement by the same user and the view inserts   *)
(* or moves one afterwards; nothing in the table keeps them unique.        *)
(* The e-mail of the post_save signal changes no state.                    *)
(* Left out: staff users, who may move anybody's endorsement, which is     *)
(* then checked as if it were one of their own.                            *)
(*                                                                         *)
(* An operator marked "faulty" stands for a plausible bug: only the mutant *)
(* run uses it, in the place of the definition that follows it.            *)
(***************************************************************************)
EXTENDS FiniteSets

CONSTANTS
    Users,      \* who endorse
    Providers,  \* whom they endorse
    Ids,        \* primary keys (a bound)
    Requests    \* slots for requests in flight (bounds the overlap)

VARIABLES
    endorsement,  \* endorsement[i] : the row, or NoRow
    request       \* request[r]     : where request r is

vars == <<endorsement, request>>

Row == [endorsed_by : Users, provider : Providers]

NoRow == [endorsed_by |-> "none"]

Idle == [at |-> "idle"]

Validated ==
    [at : {"create"}, user : Users, provider : Providers] \cup
    [at : {"update"}, user : Users, provider : Providers, id : Ids]

Init ==
    /\ endorsement = [i \in Ids |-> NoRow]
    /\ request = [r \in Requests |-> Idle]

Rows == {i \in Ids : endorsement[i] # NoRow}

\* Faulty: the user's own endorsements are the ones left out.
EndorsedByOthers(provider, user) ==
    \E i \in Rows : endorsement[i].provider = provider /\ endorsement[i].endorsed_by # user

HasEndorsed(provider, user) ==
    \E i \in Rows : endorsement[i] = [endorsed_by |-> user, provider |-> provider]

CreateValidate(r, user, provider) ==
    /\ request[r] = Idle
    /\ ~ HasEndorsed(provider, user)
    /\ request' = [request EXCEPT ![r] =
            [at |-> "create", user |-> user, provider |-> provider]]
    /\ UNCHANGED endorsement

\* PUT and PATCH with a provider run the same validation.
UpdateValidate(r, i, provider) ==
    /\ request[r] = Idle
    /\ i \in Rows
    /\ ~ HasEndorsed(provider, endorsement[i].endorsed_by)
    /\ request' = [request EXCEPT ![r] =
            [at |-> "update", user |-> endorsement[i].endorsed_by,
             provider |-> provider, id |-> i]]
    /\ UNCHANGED endorsement

\* perform_create, perform_update; an updated row that is gone comes back.
Save(r) ==
    LET me == request[r] IN
    /\ me # Idle
    /\ \E i \in Ids :
          /\ IF me.at = "update" THEN i = me.id ELSE i \notin Rows
          /\ endorsement' = [endorsement EXCEPT ![i] =
                [endorsed_by |-> me.user, provider |-> me.provider]]
    /\ request' = [request EXCEPT ![r] = Idle]

Destroy(i) ==
    /\ i \in Rows
    /\ endorsement' = [endorsement EXCEPT ![i] = NoRow]
    /\ UNCHANGED request

Next ==
    \/ \E r \in Requests, user \in Users, provider \in Providers :
          CreateValidate(r, user, provider)
    \/ \E r \in Requests, i \in Ids, provider \in Providers :
          UpdateValidate(r, i, provider)
    \/ \E r \in Requests : Save(r)
    \/ \E i \in Ids : Destroy(i)

Spec == Init /\ [][Next]_vars

-----------------------------------------------------------------------------

\* Every variable keeps the shape the database and the threads give it.
TypeOK ==
    /\ endorsement \in [Ids -> {NoRow} \cup Row]
    /\ request \in [Requests -> {Idle} \cup Validated]

\* "You have already endorsed this profile" (serializers.py:29): with one
\* validated request at a time, and owners deleting rows between its check
\* and its save, a user never endorses a provider twice.
OneEndorsement ==
    \A i, j \in Rows : endorsement[i] = endorsement[j] => i = j
=============================================================================
