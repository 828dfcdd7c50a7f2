------------------------------ MODULE Catalog ------------------------------
(***************************************************************************)
(* What one provider offers (apps/users): skills, of which some are        *)
(* primary, and services with attachments; both are deleted softly.  A     *)
(* PATCH, and the deletion of a skill, save the whole row they read; a     *)
(* service is created in three statements without a transaction.           *)
(* Left out: names, levels, charges and who may see what.                  *)
(*                                                                         *)
(* An operator marked "faulty" stands for a plausible bug: only the mutant *)
(* run uses it, in the place of the definition that follows it.            *)
(***************************************************************************)
EXTENDS Naturals, FiniteSets

CONSTANTS
    Skills,      \* the skills on offer
    Services,    \* primary keys of services (a bound)
    MaxPrimary,  \* primary skills a provider may add
    Requests     \* slots for requests in flight (bounds the overlap)

VARIABLES
    skill,    \* skill[s]   : the ProviderSkill row, or NoRow
    service,  \* service[v] : the Service row with its attachments, or NoRow
    request   \* request[r] : where request r is

vars == <<skill, service, request>>

NoRow == [is_active |-> FALSE]

ProviderSkill == [is_active : BOOLEAN, is_primary : BOOLEAN]

Service == [is_active : BOOLEAN, attached : BOOLEAN]

Idle == [at |-> "idle"]

Running ==
    [at : {"add"}, skill : Skills, is_primary : BOOLEAN] \cup
    [at : {"skill"}, skill : Skills, copy : ProviderSkill] \cup
    [at : {"attach"}, service : Services] \cup
    [at : {"service"}, service : Services, copy : Service]

Init ==
    /\ skill = [s \in Skills |-> NoRow]
    /\ service = [v \in Services |-> NoRow]
    /\ request = [r \in Requests |-> Idle]

Goto(r, step) == request' = [request EXCEPT ![r] = step]

-----------------------------------------------------------------------------
(* Skills                                                                  *)

\* Deleted rows count too.
Primary == {s \in Skills : skill[s] # NoRow /\ skill[s].is_primary}

AddValidate(r, s, is_primary) ==
    /\ request[r] = Idle
    /\ is_primary => Cardinality(Primary) < MaxPrimary
    /\ Goto(r, [at |-> "add", skill |-> s, is_primary |-> is_primary])
    /\ UNCHANGED <<skill, service>>

\* Faulty: update_or_create, where the code inserts.
AddSaveUpserts(r) ==
    LET me == request[r] IN
    /\ me.at = "add"
    /\ skill' = [skill EXCEPT ![me.skill] =
            [is_active |-> TRUE, is_primary |-> me.is_primary]]
    /\ Goto(r, Idle)
    /\ UNCHANGED service

\* unique_provider_skill refuses a skill with a row, deleted or not.
AddSave(r) ==
    LET me == request[r] IN
    /\ me.at = "add"
    /\ skill' = IF skill[me.skill] = NoRow
                THEN [skill EXCEPT ![me.skill] =
                        [is_active |-> TRUE, is_primary |-> me.is_primary]]
                ELSE skill
    /\ Goto(r, Idle)
    /\ UNCHANGED service

\* The object of a PATCH or a DELETE is an active row.
SkillRead(r, s) ==
    /\ request[r] = Idle
    /\ skill[s].is_active
    /\ Goto(r, [at |-> "skill", skill |-> s, copy |-> skill[s]])
    /\ UNCHANGED <<skill, service>>

Patched(copy, is_primary) == [copy EXCEPT !.is_primary = is_primary]

SkillSave(r) ==
    LET me == request[r] IN
    /\ me.at = "skill"
    /\ \/ \E is_primary \in BOOLEAN :
             skill' = [skill EXCEPT ![me.skill] = Patched(me.copy, is_primary)]
       \/ skill' = [skill EXCEPT ![me.skill] = [me.copy EXCEPT !.is_active = FALSE]]
    /\ Goto(r, Idle)
    /\ UNCHANGED service

-----------------------------------------------------------------------------
(* Services                                                                *)

ServiceCreate(r) ==
    /\ request[r] = Idle
    /\ \E v \in Services :
          /\ service[v] = NoRow
          /\ service' = [service EXCEPT ![v] = [is_active |-> TRUE, attached |-> FALSE]]
          /\ Goto(r, [at |-> "attach", service |-> v])
    /\ UNCHANGED skill

ServiceAttach(r) ==
    /\ request[r].at = "attach"
    /\ service' = [service EXCEPT ![request[r].service].attached = TRUE]
    /\ Goto(r, Idle)
    /\ UNCHANGED skill

ServiceRead(r, v) ==
    /\ request[r] = Idle
    /\ service[v].is_active
    /\ Goto(r, [at |-> "service", service |-> v, copy |-> service[v]])
    /\ UNCHANGED <<skill, service>>

\* The whole row; attachments in the body raise afterwards and stay.
ServiceSave(r) ==
    LET me == request[r] IN
    /\ me.at = "service"
    /\ service' = [service EXCEPT ![me.service].is_active = me.copy.is_active]
    /\ Goto(r, Idle)
    /\ UNCHANGED skill

\* Only deleted_at and is_active are saved.
ServiceDestroy(v) ==
    /\ service[v].is_active
    /\ service' = [service EXCEPT ![v].is_active = FALSE]
    /\ UNCHANGED <<skill, request>>

RequestFails(r) ==
    /\ request[r] # Idle
    /\ Goto(r, Idle)
    /\ UNCHANGED <<skill, service>>

Next ==
    \/ \E r \in Requests, s \in Skills :
          SkillRead(r, s) \/ \E is_primary \in BOOLEAN : AddValidate(r, s, is_primary)
    \/ \E r \in Requests :
          AddSave(r) \/ SkillSave(r) \/ ServiceCreate(r) \/ ServiceAttach(r)
          \/ ServiceSave(r) \/ RequestFails(r)
    \/ \E r \in Requests, v \in Services : ServiceRead(r, v)
    \/ \E v \in Services : ServiceDestroy(v)

Spec == Init /\ [][Next]_vars

-----------------------------------------------------------------------------

\* Every variable keeps the shape the database and the threads give it.
TypeOK ==
    /\ skill \in [Skills -> {NoRow} \cup ProviderSkill]
    /\ service \in [Services -> {NoRow} \cup Service]
    /\ request \in [Requests -> {Idle} \cup Running]

\* A deleted skill or service comes back only through a PATCH that read the
\* row before it was deleted; adding the skill again does not bring it back.
DeletedStaysDeleted ==
    [][ /\ \A s \in Skills :
              /\ skill[s] # NoRow /\ ~ skill[s].is_active
              /\ \A r \in Requests :
                    request[r].at = "skill" => request[r].skill # s
              => ~ skill'[s].is_active
        /\ \A v \in Services :
              /\ service[v] # NoRow /\ ~ service[v].is_active
              /\ \A r \in Requests :
                    request[r].at = "service" => request[r].service # v
              => ~ service'[v].is_active]_vars
=============================================================================
