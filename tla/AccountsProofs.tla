--------------------------- MODULE AccountsProofs ---------------------------
(***************************************************************************)
(* What the modules that Accounts puts side by side guarantee for every    *)
(* value of their constants: any number of codes, tokens, resets, skills,  *)
(* services, users and requests in flight, and any daily limit.            *)
(***************************************************************************)
EXTENDS Accounts, TLAPS, FiniteSetTheorems

(***************************************************************************)
(* A behaviour of Accounts is one of each module, so what a module keeps   *)
(* by itself is kept here.                                                 *)
(***************************************************************************)
LEMMA OnePartMoves ==
    [AccountsNext]_accountsVars =>
        /\ [Next]_vars /\ [L!Next]_(L!vars) /\ [O!Next]_(O!vars)
        /\ [C!Next]_(C!vars) /\ [B!Next]_(B!vars)
<1> DEFINE Kept(p) == \A q \in Parts \ {p} : Frozen(q)
<1>1. \A p \in Parts : Kept(p) =>
        /\ p # "account" => UNCHANGED vars
        /\ p # "limit" => UNCHANGED L!vars
        /\ p # "roles" => UNCHANGED O!vars
        /\ p # "catalog" => UNCHANGED C!vars
        /\ p # "bank" => UNCHANGED B!vars
  BY DEF Parts, Frozen, L!vars, O!vars, C!vars, B!vars
<1>2. \A p : Only(p) => Kept(p)
  BY DEF Only
<1> HIDE DEF Kept
<1>3. CASE UNCHANGED accountsVars
  BY <1>3 DEF accountsVars
<1>4. CASE AccountsNext
  BY <1>1, <1>2, <1>4 DEF AccountsNext, Parts
<1>5. QED
  BY <1>3, <1>4

LEMMA EachPart ==
    AccountsSpec => Spec /\ L!Spec /\ O!Spec /\ C!Spec /\ B!Spec
<1>1. AccountsInit => Init /\ L!Init /\ O!Init /\ C!Init /\ B!Init
  BY DEF AccountsInit
<1>2. QED
  BY <1>1, OnePartMoves, PTL DEF AccountsSpec, Spec, L!Spec, O!Spec, C!Spec, B!Spec

\* Until the history variable says otherwise, no two requests have been in
\* flight at once.
LEMMA NoOverlapYet ==
    /\ AccountsInit => overlapped = FALSE
    /\ [AccountsNext]_accountsVars /\ ~ overlapped' => ~ overlapped
    /\ [AccountsNext]_accountsVars /\ ~ overlapped' /\ ~ Overlap => ~ Overlap'
<1>1. AccountsInit => overlapped = FALSE
  BY DEF AccountsInit
<1>2. CASE AccountsNext
  BY <1>1, <1>2 DEF AccountsNext
<1>3. CASE UNCHANGED accountsVars
  BY <1>1, <1>3 DEF accountsVars, vars, O!vars, Overlap, AtOnce
<1>4. QED
  BY <1>1, <1>2, <1>3

\* No two of the requests f are in flight.
Apart(f) == \A r, s \in Requests : f[r].at = "idle" \/ f[s].at = "idle" \/ r = s

\* Cardinality is the same operator inside the instances.
LEMMA SameCardinality ==
    \A S : L!Cardinality(S) = Cardinality(S) /\ B!Cardinality(S) = Cardinality(S)
BY DEF L!Cardinality, B!Cardinality, Cardinality, L!IsFiniteSet, B!IsFiniteSet, IsFiniteSet

-----------------------------------------------------------------------------
(* Onboarding                                                              *)

\* What an edit has read are flags of profiles that are still there.
CopiesHaveProfiles ==
    \A r \in Requests : onboarding[r].at = "edit" => onboarding[r].copy \subseteq profile

RolesInv == O!TypeOK /\ CopiesHaveProfiles

LEMMA RolesInvariant == O!Spec => []RolesInv
<1> USE DEF RolesInv, CopiesHaveProfiles, O!TypeOK
<1>1. O!Init => RolesInv
  BY DEF O!Init, O!Idle
<1>2. RolesInv /\ [O!Next]_(O!vars) => RolesInv'
  <2> SUFFICES ASSUME RolesInv, [O!Next]_(O!vars) PROVE RolesInv'
    OBVIOUS
  <2>1. ASSUME NEW r \in Requests, NEW role \in O!Roles, O!Check(r, role)
        PROVE  RolesInv'
    BY <2>1 DEF O!Check, O!Goto, O!Running, O!Idle
  <2>2. ASSUME NEW r \in Requests, O!Create(r)
        PROVE  RolesInv'
    <3>1. onboarding[r].role \in O!Roles
      BY <2>2 DEF O!Create, O!Running, O!Idle
    <3>2. QED
      BY <2>2, <3>1 DEF O!Create, O!Goto, O!Idle
  <2>3. ASSUME NEW r \in Requests, O!EditRead(r)
        PROVE  RolesInv'
    <3>1. [at |-> "edit", copy |-> flag] \in O!Running
      BY DEF O!Running
    <3>2. QED
      BY <2>3, <3>1 DEF O!EditRead, O!Goto, O!Idle
  <2>4. ASSUME NEW r \in Requests, O!EditSave(r) \/ O!RequestFails(r)
        PROVE  RolesInv'
    BY <2>4 DEF O!EditSave, O!RequestFails, O!Goto, O!Idle
  <2>5. CASE UNCHANGED O!vars
    BY <2>5 DEF O!vars
  <2>6. QED
    BY <2>1, <2>2, <2>3, <2>4, <2>5 DEF O!Next
<1>3. QED
  BY <1>1, <1>2, PTL DEF O!Spec

\* A request that has found no profile is still right.
NoneMeanwhile ==
    \A r \in Requests :
        /\ onboarding[r].at = "onboard" => profile = {}
        /\ onboarding[r].at = "edit" => onboarding[r].copy = flag

LEMMA OneRoleStep ==
    /\ RolesInv /\ NoneMeanwhile /\ O!OneRole /\ Apart(onboarding) /\ Apart(onboarding)'
    /\ [O!Next]_(O!vars)
    => NoneMeanwhile' /\ O!OneRole'
<1> USE DEF RolesInv, NoneMeanwhile, O!OneRole, O!TypeOK, Apart
<1> SUFFICES ASSUME RolesInv, NoneMeanwhile, O!OneRole, [O!Next]_(O!vars),
                    Apart(onboarding), Apart(onboarding)'
             PROVE  NoneMeanwhile' /\ O!OneRole'
  OBVIOUS
<1>1. ASSUME NEW r \in Requests, NEW role \in O!Roles, O!Check(r, role)
      PROVE  NoneMeanwhile' /\ O!OneRole'
  BY <1>1 DEF O!Check, O!Goto, O!AlreadyHasAProfile
<1>2. ASSUME NEW r \in Requests, O!Create(r)
      PROVE  NoneMeanwhile' /\ O!OneRole'
  <2>1. profile' = {onboarding[r].role} /\ flag' = profile'
    BY <1>2 DEF O!Create
  <2>2. profile' # O!Roles
    BY <2>1 DEF O!Roles
  <2>3. QED
    BY <1>2, <2>1, <2>2 DEF O!Create, O!Goto, O!Idle
<1>3. ASSUME NEW r \in Requests, O!EditRead(r)
      PROVE  NoneMeanwhile' /\ O!OneRole'
  BY <1>3 DEF O!EditRead, O!Goto
<1>4. ASSUME NEW r \in Requests, O!EditSave(r) \/ O!RequestFails(r)
      PROVE  NoneMeanwhile' /\ O!OneRole'
  BY <1>4 DEF O!EditSave, O!RequestFails, O!Goto, O!Idle
<1>5. CASE UNCHANGED O!vars
  BY <1>5 DEF O!vars
<1>6. QED
  BY <1>1, <1>2, <1>3, <1>4, <1>5 DEF O!Next

\* "profile already exists" (onboard.py:27): until two requests overlap a
\* user has one role at most, and the flags say which.
THEOREM OneRoleEach == AccountsSpec => []OneRole
<1> DEFINE Inv == ~ overlapped => NoneMeanwhile /\ O!OneRole /\ ~ Overlap
<1>1. AccountsInit => Inv
  <2>1. O!Init => NoneMeanwhile /\ O!OneRole
    BY DEF O!Init, O!Idle, O!Roles, NoneMeanwhile, O!OneRole
  <2>2. AccountsInit => ~ Overlap
    BY DEF AccountsInit, Init, O!Init, Idle, O!Idle, Overlap, AtOnce
  <2>3. QED
    BY <2>1, <2>2 DEF AccountsInit
<1>2. RolesInv /\ Inv /\ [AccountsNext]_accountsVars => Inv'
  <2> SUFFICES ASSUME RolesInv, Inv, [AccountsNext]_accountsVars, ~ overlapped'
               PROVE  NoneMeanwhile' /\ O!OneRole' /\ ~ Overlap'
    OBVIOUS
  <2>1. NoneMeanwhile /\ O!OneRole /\ ~ Overlap /\ ~ Overlap'
    BY NoOverlapYet
  <2>2. Apart(onboarding) /\ Apart(onboarding)'
    BY <2>1 DEF Overlap, AtOnce, Apart
  <2>3. QED
    BY <2>1, <2>2, OnePartMoves, OneRoleStep
<1>3. Inv => OneRole
  BY DEF OneRole
<1> HIDE DEF Inv
<1>4. QED
  BY <1>1, <1>2, <1>3, RolesInvariant, EachPart, PTL DEF AccountsSpec

-----------------------------------------------------------------------------
(* Bank accounts                                                           *)

\* Who has the recipient code, or is about to save it.
Chosen(u) ==
    \/ account[u] = "recipient"
    \/ \E r \in Requests : adding[r].at = "save" /\ adding[r].user = u

\* At most one user is chosen, and has a row, which the others' lookups see.
OneChosen ==
    /\ \A u \in Users : Chosen(u) => account[u] # "none"
    /\ \A u, v \in Users : Chosen(u) /\ Chosen(v) => u = v

BankInv == B!TypeOK /\ OneChosen

LEMMA BankInvariant == B!Spec => []BankInv
<1> USE DEF BankInv, B!TypeOK, B!Running
<1>1. B!Init => BankInv
  BY DEF B!Init, B!Idle, OneChosen, Chosen
<1>2. BankInv /\ [B!Next]_(B!vars) => BankInv'
  <2> SUFFICES ASSUME BankInv, [B!Next]_(B!vars) PROVE BankInv'
    OBVIOUS
  <2>a. \A r \in Requests : adding[r].at \in {"resolve", "recipient", "save"} => adding[r].user \in Users
    BY DEF B!Idle
  <2>1. ASSUME NEW r \in Requests, NEW u \in Users, B!Resolve(r, u) \/ B!Recipient(r, u)
        PROVE  BankInv'
    BY <2>1 DEF B!Resolve, B!Recipient, B!Goto, OneChosen, Chosen
  <2>2. ASSUME NEW r \in Requests, B!ResolveSave(r)
        PROVE  BankInv'
    BY <2>2, <2>a DEF B!ResolveSave, B!Done, B!Idle, OneChosen, Chosen
  <2>3. ASSUME NEW r \in Requests, B!Lookup(r)
        PROVE  BankInv'
    <3>1. PICK u \in Users : u = adding[r].user
      BY <2>3, <2>a DEF B!Lookup
    <3>2. CASE B!Found(u) /\ B!Goto(r, "save", u)
      <4>1. account[u] # "none" /\ \A v \in Users : account[v] # "none" => v = u
        BY <3>2 DEF B!Found, B!Holders
      <4>2. UNCHANGED account /\ adding' = [adding EXCEPT ![r] = [at |-> "save", user |-> u]]
        BY <2>3, <3>2 DEF B!Lookup, B!Goto
      <4>3. \A v \in Users : Chosen(v)' => Chosen(v) \/ v = u
        BY <4>2 DEF Chosen
      <4>4. QED
        BY <4>1, <4>2, <4>3 DEF OneChosen
    <3>3. CASE B!Done(r)
      BY <2>3, <3>3 DEF B!Lookup, B!Done, B!Idle, OneChosen, Chosen
    <3>4. QED
      BY <2>3, <3>1, <3>2, <3>3 DEF B!Lookup
  <2>4. ASSUME NEW r \in Requests, B!RecipientSave(r)
        PROVE  BankInv'
    <3>1. PICK u \in Users : u = adding[r].user
      BY <2>4, <2>a DEF B!RecipientSave
    <3>2. /\ account' = [account EXCEPT ![u] = "recipient"] /\ adding[r].at = "save"
          /\ adding' = [adding EXCEPT ![r] = B!Idle]
      BY <2>4, <3>1 DEF B!RecipientSave, B!Done
    <3>3. Chosen(u)
      BY <3>1, <3>2 DEF Chosen
    <3>4. \A v \in Users : Chosen(v)' => Chosen(v)
      BY <3>2, <3>3 DEF Chosen, B!Idle
    <3>5. QED
      BY <3>2, <3>4 DEF OneChosen
  <2>5. ASSUME NEW r \in Requests, B!RequestFails(r)
        PROVE  BankInv'
    BY <2>5 DEF B!RequestFails, B!Done, B!Idle, OneChosen, Chosen
  <2>6. CASE UNCHANGED B!vars
    BY <2>6 DEF B!vars, OneChosen, Chosen
  <2>7. QED
    BY <2>1, <2>2, <2>3, <2>4, <2>5, <2>6 DEF B!Next
<1>3. QED
  BY <1>1, <1>2, PTL DEF B!Spec

\* A set whose elements are all the same has one at most.
LEMMA AtMostOne ==
    ASSUME NEW S, \A x, y \in S : x = y
    PROVE  Cardinality(S) <= 1
<1>1. CASE S = {}
  BY <1>1, FS_EmptySet
<1>2. CASE S # {}
  <2>1. PICK x : S = {x}
    BY <1>2
  <2>2. Cardinality({x}) = 1
    BY FS_Singleton
  <2>3. QED
    BY <2>1, <2>2
<1>3. QED
  BY <1>1, <1>2

\* Only one of the users that add an account ever gets its recipient code,
\* also when they ask at once (wallet/services.py:129 expects one row).
THEOREM OneRecipientEach == AccountsSpec => []OneRecipient
<1>1. BankInv => OneRecipient
  <2> SUFFICES ASSUME BankInv PROVE OneRecipient
    OBVIOUS
  <2> DEFINE S == {u \in Users : account[u] = "recipient"}
  <2>1. \A u, v \in S : u = v
    BY DEF BankInv, OneChosen, Chosen
  <2> HIDE DEF S
  <2>2. B!Cardinality(S) <= 1
    BY <2>1, AtMostOne, SameCardinality
  <2>3. QED
    BY <2>2 DEF S, OneRecipient, B!OneRecipient
<1>2. QED
  BY <1>1, BankInvariant, EachPart, PTL

-----------------------------------------------------------------------------
(* Catalog                                                                 *)

\* A request at work on a service has its row.
ServicesExist ==
    \A r \in Requests :
        offering[r].at \in {"attach", "service"} => service[offering[r].service] # C!NoRow

CatalogInv == C!TypeOK /\ ServicesExist

LEMMA OfferingShape ==
    ASSUME C!TypeOK, NEW r \in Requests
    PROVE  LET me == offering[r] IN
           /\ me.at = "add" => me.skill \in Skills /\ me.is_primary \in BOOLEAN
           /\ me.at = "skill" => me.skill \in Skills /\ me.copy \in C!ProviderSkill
           /\ me.at = "attach" => me.service \in Services
           /\ me.at = "service" => me.service \in Services /\ me.copy \in C!Service
BY DEF C!TypeOK, C!Idle, C!Running

\* A change of one row that is there leaves it there, in its shape.
LEMMA ServiceChanged ==
    ASSUME C!TypeOK, NEW v \in Services, service[v] # C!NoRow, NEW b \in BOOLEAN,
           \/ service' = [service EXCEPT ![v].is_active = b]
           \/ service' = [service EXCEPT ![v].attached = b]
    PROVE  /\ service' \in [Services -> {C!NoRow} \cup C!Service]
           /\ \A w \in Services : service[w] # C!NoRow => service'[w] # C!NoRow
<1>1. service \in [Services -> {C!NoRow} \cup C!Service] /\ service[v] \in C!Service
  BY DEF C!TypeOK
<1>2. service'[v] \in C!Service
  BY <1>1 DEF C!Service
<1>3. \A w \in Services : w # v => service'[w] = service[w]
  BY <1>1
<1>4. service' \in [Services -> {C!NoRow} \cup C!Service]
  BY <1>1, <1>2
<1>5. service'[v] # C!NoRow
  BY <1>2 DEF C!Service, C!NoRow
<1>6. QED
  BY <1>3, <1>4, <1>5

LEMMA CatalogStep == CatalogInv /\ [C!Next]_(C!vars) => CatalogInv'
<1> SUFFICES ASSUME C!TypeOK, ServicesExist, [C!Next]_(C!vars) PROVE CatalogInv'
  BY DEF CatalogInv
<1> USE DEF CatalogInv
\* a request that only reads, or ends
<1>a. ASSUME NEW r \in Requests, NEW step \in {C!Idle} \cup C!Running,
             offering' = [offering EXCEPT ![r] = step],
             skill' \in [Skills -> {C!NoRow} \cup C!ProviderSkill],
             service' \in [Services -> {C!NoRow} \cup C!Service],
             \A w \in Services : service[w] # C!NoRow => service'[w] # C!NoRow,
             step.at \in {"attach", "service"} => service'[step.service] # C!NoRow
      PROVE  CatalogInv'
  <2>1. offering'[r] = step /\ \A s \in Requests : s # r => offering'[s] = offering[s]
    BY <1>a DEF C!TypeOK
  <2>2. offering' \in [Requests -> {C!Idle} \cup C!Running]
    BY <1>a DEF C!TypeOK
  <2>3. ServicesExist'
    BY <1>a, <2>1, OfferingShape DEF ServicesExist
  <2>4. QED
    BY <1>a, <2>2, <2>3 DEF C!TypeOK
<1>1. ASSUME NEW r \in Requests, NEW s \in Skills, C!SkillRead(r, s)
      PROVE  CatalogInv'
  <2>1. PICK step : step = [at |-> "skill", skill |-> s, copy |-> skill[s]]
    OBVIOUS
  <2>2. skill[s] \in C!ProviderSkill
    BY <1>1 DEF C!SkillRead, C!TypeOK, C!NoRow
  <2>3. step \in C!Running /\ step.at = "skill"
    BY <2>1, <2>2 DEF C!Running
  <2>4. /\ offering' = [offering EXCEPT ![r] = step] /\ UNCHANGED <<skill, service>>
    BY <1>1, <2>1 DEF C!SkillRead, C!Goto
  <2>5. QED
    BY <1>a, <2>3, <2>4 DEF C!TypeOK
<1>2. ASSUME NEW r \in Requests, NEW s \in Skills, NEW b \in BOOLEAN, C!AddValidate(r, s, b)
      PROVE  CatalogInv'
  <2>1. PICK step : step = [at |-> "add", skill |-> s, is_primary |-> b]
    OBVIOUS
  <2>2. step \in C!Running /\ step.at = "add"
    BY <2>1 DEF C!Running
  <2>3. offering' = [offering EXCEPT ![r] = step] /\ UNCHANGED <<skill, service>>
    BY <1>2, <2>1 DEF C!AddValidate, C!Goto
  <2>4. QED
    BY <1>a, <2>2, <2>3 DEF C!TypeOK
<1>3. ASSUME NEW r \in Requests, C!AddSave(r) \/ C!SkillSave(r) \/ C!RequestFails(r)
      PROVE  CatalogInv'
  <2>1. skill' \in [Skills -> {C!NoRow} \cup C!ProviderSkill]
    <3>1. CASE C!AddSave(r)
      <4>1. [is_active |-> TRUE, is_primary |-> offering[r].is_primary] \in C!ProviderSkill
        BY <3>1, OfferingShape DEF C!AddSave, C!ProviderSkill
      <4>2. QED
        BY <3>1, <4>1 DEF C!AddSave, C!TypeOK
    <3>2. CASE C!SkillSave(r)
      <4>1. PICK copy \in C!ProviderSkill : copy = offering[r].copy
        BY <3>2, OfferingShape DEF C!SkillSave
      <4>2. /\ \A b \in BOOLEAN : C!Patched(copy, b) \in C!ProviderSkill
            /\ [copy EXCEPT !.is_active = FALSE] \in C!ProviderSkill
        BY DEF C!Patched, C!ProviderSkill
      <4>3. QED
        BY <3>2, <4>1, <4>2 DEF C!SkillSave, C!TypeOK
    <3>3. CASE C!RequestFails(r)
      BY <3>3 DEF C!RequestFails, C!TypeOK
    <3>4. QED
      BY <1>3, <3>1, <3>2, <3>3
  <2>2. /\ offering' = [offering EXCEPT ![r] = C!Idle] /\ UNCHANGED service
    BY <1>3 DEF C!AddSave, C!SkillSave, C!RequestFails, C!Goto
  <2>3. C!Idle.at = "idle"
    BY DEF C!Idle
  <2>4. QED
    BY <1>a, <2>1, <2>2, <2>3 DEF C!TypeOK
<1>4. ASSUME NEW r \in Requests, C!ServiceCreate(r)
      PROVE  CatalogInv'
  <2>1. PICK v \in Services :
           /\ service[v] = C!NoRow
           /\ service' = [service EXCEPT ![v] = [is_active |-> TRUE, attached |-> FALSE]]
           /\ offering' = [offering EXCEPT ![r] = [at |-> "attach", service |-> v]]
    BY <1>4 DEF C!ServiceCreate, C!Goto
  <2>2. PICK row : row = [is_active |-> TRUE, attached |-> FALSE]
    OBVIOUS
  <2>3. row \in C!Service /\ row # C!NoRow
    BY <2>2 DEF C!Service, C!NoRow
  <2>4. /\ service' \in [Services -> {C!NoRow} \cup C!Service]
        /\ \A w \in Services : service[w] # C!NoRow => service'[w] # C!NoRow
        /\ service'[v] # C!NoRow
    BY <2>1, <2>2, <2>3 DEF C!TypeOK
  <2>5. PICK step : step = [at |-> "attach", service |-> v]
    OBVIOUS
  <2>6. step \in C!Running /\ step.service = v
    BY <2>5 DEF C!Running
  <2>7. UNCHANGED skill
    BY <1>4 DEF C!ServiceCreate
  <2>8. QED
    BY <1>a, <2>1, <2>4, <2>5, <2>6, <2>7 DEF C!TypeOK
<1>5. ASSUME NEW r \in Requests, C!ServiceAttach(r) \/ C!ServiceSave(r)
      PROVE  CatalogInv'
  <2>1. PICK v \in Services : v = offering[r].service /\ service[v] # C!NoRow
    BY <1>5, OfferingShape DEF C!ServiceAttach, C!ServiceSave, ServicesExist
  <2>2. PICK b \in BOOLEAN : \/ service' = [service EXCEPT ![v].is_active = b]
                             \/ service' = [service EXCEPT ![v].attached = b]
    <3>1. CASE C!ServiceAttach(r)
      BY <2>1, <3>1 DEF C!ServiceAttach
    <3>2. CASE C!ServiceSave(r)
      <4>1. offering[r].copy.is_active \in BOOLEAN
        BY <3>2, OfferingShape DEF C!ServiceSave, C!Service
      <4>2. QED
        BY <2>1, <3>2, <4>1 DEF C!ServiceSave
    <3>3. QED
      BY <1>5, <3>1, <3>2
  <2>3. /\ service' \in [Services -> {C!NoRow} \cup C!Service]
        /\ \A w \in Services : service[w] # C!NoRow => service'[w] # C!NoRow
    BY <2>1, <2>2, ServiceChanged
  <2>4. offering' = [offering EXCEPT ![r] = C!Idle] /\ UNCHANGED skill
    BY <1>5 DEF C!ServiceAttach, C!ServiceSave, C!Goto
  <2>5. C!Idle.at = "idle"
    BY DEF C!Idle
  <2>6. QED
    BY <1>a, <2>3, <2>4, <2>5 DEF C!TypeOK
<1>6. ASSUME NEW r \in Requests, NEW v \in Services, C!ServiceRead(r, v)
      PROVE  CatalogInv'
  <2>1. PICK step : step = [at |-> "service", service |-> v, copy |-> service[v]]
    OBVIOUS
  <2>2. service[v] \in C!Service /\ service[v] # C!NoRow
    BY <1>6 DEF C!ServiceRead, C!TypeOK, C!NoRow
  <2>3. step \in C!Running /\ step.service = v
    BY <2>1, <2>2 DEF C!Running
  <2>4. offering' = [offering EXCEPT ![r] = step] /\ UNCHANGED <<skill, service>>
    BY <1>6, <2>1 DEF C!ServiceRead, C!Goto
  <2>5. QED
    BY <1>a, <2>2, <2>3, <2>4 DEF C!TypeOK
<1>7. ASSUME NEW v \in Services, C!ServiceDestroy(v)
      PROVE  CatalogInv'
  <2>1. service[v] # C!NoRow /\ service' = [service EXCEPT ![v].is_active = FALSE]
    BY <1>7 DEF C!ServiceDestroy, C!NoRow
  <2>2. /\ service' \in [Services -> {C!NoRow} \cup C!Service]
        /\ \A w \in Services : service[w] # C!NoRow => service'[w] # C!NoRow
    BY <2>1, ServiceChanged
  <2>3. UNCHANGED <<skill, offering>>
    BY <1>7 DEF C!ServiceDestroy
  <2>4. QED
    BY <2>2, <2>3, OfferingShape DEF C!TypeOK, ServicesExist
<1>8. CASE UNCHANGED C!vars
  BY <1>8 DEF C!vars, C!TypeOK, ServicesExist
<1>9. QED
  BY <1>1, <1>2, <1>3, <1>4, <1>5, <1>6, <1>7, <1>8 DEF C!Next

LEMMA CatalogInvariant == C!Spec => []CatalogInv
<1>1. C!Init => CatalogInv
  BY DEF C!Init, CatalogInv, C!TypeOK, ServicesExist, C!Idle
<1>2. QED
  BY <1>1, CatalogStep, PTL DEF C!Spec

\* A deleted skill or service comes back only through a PATCH that read the
\* row before it was deleted; adding the skill again does not bring it back.
THEOREM DeletedForGood == AccountsSpec => DeletedStaysDeleted
<1> DEFINE Stays ==
        /\ \A s \in Skills :
              /\ skill[s] # C!NoRow /\ ~ skill[s].is_active
              /\ \A r \in Requests : offering[r].at = "skill" => offering[r].skill # s
              => ~ skill'[s].is_active
        /\ \A v \in Services :
              /\ service[v] # C!NoRow /\ ~ service[v].is_active
              /\ \A r \in Requests : offering[r].at = "service" => offering[r].service # v
              => ~ service'[v].is_active
<1>1. ASSUME C!TypeOK, [C!Next]_(C!vars), NEW s \in Skills,
             skill[s] # C!NoRow, ~ skill[s].is_active,
             \A r \in Requests : offering[r].at = "skill" => offering[r].skill # s
      PROVE  ~ skill'[s].is_active
  <2>1. \/ UNCHANGED skill
        \/ \E r \in Requests : C!AddSave(r) \/ C!SkillSave(r)
    BY <1>1
       DEF C!Next, C!vars, C!SkillRead, C!AddValidate, C!ServiceCreate, C!ServiceAttach,
           C!ServiceSave, C!RequestFails, C!ServiceRead, C!ServiceDestroy
  <2>2. skill'[s] = skill[s]
    BY <1>1, <2>1, OfferingShape DEF C!AddSave, C!SkillSave, C!TypeOK
  <2>3. QED
    BY <1>1, <2>2
<1>2. ASSUME C!TypeOK, [C!Next]_(C!vars), NEW v \in Services,
             service[v] # C!NoRow, ~ service[v].is_active,
             \A r \in Requests : offering[r].at = "service" => offering[r].service # v
      PROVE  ~ service'[v].is_active
  <2>1. \/ UNCHANGED service
        \/ \E r \in Requests : C!ServiceCreate(r) \/ C!ServiceAttach(r) \/ C!ServiceSave(r)
        \/ \E w \in Services : C!ServiceDestroy(w)
    BY <1>2
       DEF C!Next, C!vars, C!SkillRead, C!AddValidate, C!AddSave, C!SkillSave,
           C!RequestFails, C!ServiceRead
  <2>2. service[v] \in C!Service
    BY <1>2 DEF C!TypeOK
  <2>3. CASE \E r \in Requests : C!ServiceCreate(r) \/ C!ServiceSave(r)
    <3>1. service'[v] = service[v]
      BY <1>2, <2>3, OfferingShape DEF C!ServiceCreate, C!ServiceSave, C!TypeOK
    <3>2. QED
      BY <1>2, <3>1
  <2>4. CASE \E r \in Requests : C!ServiceAttach(r)
    <3>1. service'[v] = service[v] \/ service'[v] = [service[v] EXCEPT !.attached = TRUE]
      BY <1>2, <2>4 DEF C!ServiceAttach, C!TypeOK
    <3>2. QED
      BY <1>2, <2>2, <3>1 DEF C!Service
  <2>5. CASE \E w \in Services : C!ServiceDestroy(w)
    <3>1. service'[v] = service[v]
      BY <1>2, <2>5 DEF C!ServiceDestroy, C!TypeOK
    <3>2. QED
      BY <1>2, <3>1
  <2>6. QED
    BY <1>2, <2>1, <2>3, <2>4, <2>5
<1>3. CatalogInv /\ [C!Next]_(C!vars) => [Stays]_(C!vars)
  BY <1>1, <1>2 DEF CatalogInv
<1>4. DeletedStaysDeleted <=> [][Stays]_(C!vars)
  BY DEF DeletedStaysDeleted, C!DeletedStaysDeleted
<1>5. QED
  BY <1>3, <1>4, CatalogInvariant, EachPart, PTL DEF C!Spec

-----------------------------------------------------------------------------
(* Account                                                                 *)

\* Before the registration there is nothing.
NothingBefore ==
    user = NoUser =>
        /\ \A c \in Codes : code[c] = "none"
        /\ \A t \in Tokens : token[t] = NoToken
        /\ \A r \in Requests : request[r] = Idle

SomeUse == \E c \in Codes : uses[c] > 0

\* A copy of the row that says "verified" was read after a code was used.
CopiesVerified ==
    \A r \in Requests :
        request[r].at \in {"verify", "login", "save"} /\ request[r].copy.is_verified => SomeUse

AccountInv == TypeOK /\ NothingBefore /\ CopiesVerified

LEMMA RequestShape ==
    ASSUME TypeOK, NEW r \in Requests
    PROVE  LET me == request[r] IN
           /\ me.at = "verify" => me.code \in Codes /\ me.copy \in User
           /\ me.at = "confirm" => me.code \in Codes
           /\ me.at \in {"login", "save"} => me.copy \in User
           /\ me.at = "insert" => me.found \subseteq Tokens /\ me.since \in Nat
BY DEF TypeOK, Idle, Running

\* What a step leaves behind it, with the shapes it has to keep.
LEMMA AccountMoves ==
    ASSUME AccountInv,
           user' \in User, code' \in [Codes -> {"none", "active", "used", "expired"}],
           uses' \in [Codes -> Nat], \A c \in Codes : uses[c] <= uses'[c],
           token' \in [Tokens -> {NoToken} \cup Token], resets' \in Nat, ended' \in Nat,
           user'.is_verified => SomeUse',
           \/ UNCHANGED request
           \/ \E r \in Requests : \E step \in {Idle} \cup Running :
                 /\ request' = [request EXCEPT ![r] = step]
                 /\ step.at \in {"verify", "login", "save"} => (step.copy.is_verified => SomeUse')
    PROVE  AccountInv'
<1> USE DEF AccountInv
<1>1. request' \in [Requests -> {Idle} \cup Running]
  BY DEF TypeOK
<1>2. SomeUse => SomeUse'
  <2>1. \A c \in Codes : uses[c] \in Nat /\ uses'[c] \in Nat
    BY DEF TypeOK
  <2>2. \A m, n \in Nat : m > 0 /\ m <= n => n > 0
    OBVIOUS
  <2>3. QED
    BY <2>1, <2>2 DEF SomeUse
<1>3. user' # NoUser
  BY DEF User, NoUser
<1>4. CopiesVerified'
  BY <1>2 DEF CopiesVerified, TypeOK
<1>5. TypeOK'
  BY <1>1 DEF TypeOK, SomeUse
<1>6. NothingBefore'
  BY <1>3 DEF NothingBefore
<1>7. QED
  BY <1>4, <1>5, <1>6

LEMMA UsedCode ==
    ASSUME TypeOK, NEW c \in Codes, Use(c)
    PROVE  /\ code' \in [Codes -> {"none", "active", "used", "expired"}]
           /\ uses' \in [Codes -> Nat] /\ \A d \in Codes : uses[d] <= uses'[d]
           /\ SomeUse'
<1>1. /\ uses \in [Codes -> Nat] /\ uses' = [uses EXCEPT ![c] = uses[c] + 1]
      /\ code \in [Codes -> {"none", "active", "used", "expired"}]
      /\ code' = [code EXCEPT ![c] = "used"]
  BY DEF Use, TypeOK
<1>2. uses'[c] = uses[c] + 1 /\ uses[c] \in Nat /\ \A d \in Codes : d # c => uses'[d] = uses[d]
  BY <1>1
<1>3. uses'[c] > 0 /\ uses[c] <= uses'[c]
  BY <1>2
<1>4. QED
  BY <1>1, <1>2, <1>3 DEF SomeUse

LEMMA AccountStep == AccountInv /\ [Next]_vars => AccountInv'
<1> SUFFICES ASSUME AccountInv, [Next]_vars PROVE AccountInv'
  OBVIOUS
<1>e. resets' \in Nat /\ ended' \in Nat
  <2>1. resets \in Nat /\ ended \in Nat
    BY DEF AccountInv, TypeOK
  <2>2. ASSUME NEW r \in Requests, ConfirmCommit(r)
        PROVE  resets' \in Nat /\ ended' \in Nat
    BY <2>1, <2>2 DEF ConfirmCommit
  <2>3. ASSUME NEW r \in Requests, BlacklistInsert(r)
        PROVE  resets' \in Nat /\ ended' \in Nat
    <3>1. request[r].since \in Nat /\ ended' = Later(ended, request[r].since) /\ UNCHANGED resets
      BY <2>3, RequestShape DEF BlacklistInsert, AccountInv
    <3>2. QED
      BY <2>1, <3>1 DEF Later
  <2>4. QED
    BY <2>1, <2>2, <2>3 DEF Next, vars
<1> USE DEF AccountInv, Goto
<1> USE <1>e
<1>a. /\ user # NoUser => user \in User
      /\ \A r \in Requests : request[r] # Idle => user # NoUser
      /\ \A c \in Codes : code[c] # "none" => user # NoUser
      /\ \A t \in Tokens : token[t] # NoToken => user # NoUser
      /\ user # NoUser /\ user.is_verified => SomeUse
  BY DEF TypeOK, NothingBefore, SomeUse
\* a step that leaves the rows alone
<1>b. ASSUME user # NoUser, UNCHANGED <<user, code, uses, token>>,
             NEW r \in Requests, NEW step \in {Idle} \cup Running,
             request' = [request EXCEPT ![r] = step],
             step.at \in {"verify", "login", "save"} => (step.copy.is_verified => SomeUse)
      PROVE  AccountInv'
  <2>1. user' \in User /\ (user'.is_verified => SomeUse')
    BY <1>a, <1>b DEF SomeUse
  <2>2. SomeUse' <=> SomeUse
    BY <1>b DEF SomeUse
  <2>3. \A c \in Codes : uses[c] <= uses'[c]
    BY <1>b DEF TypeOK
  <2>4. QED
    BY <1>b, <2>1, <2>2, <2>3, AccountMoves DEF TypeOK
\* a step that leaves the codes' uses alone
<1>c. ASSUME user' \in User, UNCHANGED uses, user'.is_verified => SomeUse,
             code' \in [Codes -> {"none", "active", "used", "expired"}],
             token' \in [Tokens -> {NoToken} \cup Token],
             \/ UNCHANGED request
             \/ \E r \in Requests : \E step \in {Idle} \cup Running :
                   /\ request' = [request EXCEPT ![r] = step]
                   /\ step.at \in {"verify", "login", "save"} => (step.copy.is_verified => SomeUse)
      PROVE  AccountInv'
  <2>1. SomeUse' <=> SomeUse
    BY <1>c DEF SomeUse
  <2>2. \A c \in Codes : uses[c] <= uses'[c]
    BY <1>c DEF TypeOK
  <2>3. QED
    BY <1>c, <2>1, <2>2, AccountMoves DEF TypeOK
<1>d. Idle.at = "idle" /\ Idle \in {Idle} \cup Running
  BY DEF Idle
<1>1. ASSUME NEW r \in Requests, Register(r)
      PROVE  AccountInv'
  <2>1. user' \in User /\ ~ user'.is_verified
    BY <1>1, BoundsAssumption DEF Register, Registered, User
  <2>2. code' \in [Codes -> {"none", "active", "used", "expired"}]
    BY <1>1 DEF Register, NewCode, TypeOK
  <2>3. QED
    BY <1>1, <1>c, <2>1, <2>2 DEF Register, TypeOK
<1>2. ASSUME NEW r \in Requests, SendCode(r)
      PROVE  AccountInv'
  <2>1. code' \in [Codes -> {"none", "active", "used", "expired"}]
    BY <1>2 DEF SendCode, NewCode, TypeOK
  <2>2. QED
    BY <1>2, <1>a, <1>c, <2>1 DEF SendCode, TypeOK
<1>3. ASSUME NEW c \in Codes, Expire(c)
      PROVE  AccountInv'
  <2>1. code' \in [Codes -> {"none", "active", "used", "expired"}]
    BY <1>3 DEF Expire, TypeOK
  <2>2. QED
    BY <1>3, <1>a, <1>c, <2>1 DEF Expire, TypeOK
<1>4. ASSUME NEW r \in Requests, NEW c \in Codes, VerifyRead(r, c)
      PROVE  AccountInv'
  <2>1. user # NoUser /\ user \in User
    BY <1>4, <1>a DEF VerifyRead, Usable
  <2>2. PICK step : step = [at |-> "verify", code |-> c, copy |-> user]
    OBVIOUS
  <2>3. step \in Running /\ step.copy = user
    BY <2>1, <2>2 DEF Running
  <2>4. request' = [request EXCEPT ![r] = step] /\ UNCHANGED <<user, code, uses, token>>
    BY <1>4, <2>2 DEF VerifyRead
  <2>5. QED
    BY <1>a, <1>b, <2>1, <2>3, <2>4
<1>5. ASSUME NEW r \in Requests, VerifyCommit(r)
      PROVE  AccountInv'
  <2>1. PICK c \in Codes, copy \in User : c = request[r].code /\ copy = request[r].copy
    BY <1>5, RequestShape DEF VerifyCommit
  <2>2. user' = [copy EXCEPT !.is_active = TRUE, !.is_verified = TRUE] /\ Use(c)
    BY <1>5, <2>1 DEF VerifyCommit
  <2>3. user' \in User
    BY <2>2 DEF User
  <2>4. request' = [request EXCEPT ![r] = Idle] /\ UNCHANGED token
    BY <1>5 DEF VerifyCommit
  <2>5. /\ code' \in [Codes -> {"none", "active", "used", "expired"}]
        /\ uses' \in [Codes -> Nat] /\ \A d \in Codes : uses[d] <= uses'[d] /\ SomeUse'
    BY <2>2, UsedCode
  <2>6. \E s \in Requests : \E step \in {Idle} \cup Running :
                 /\ request' = [request EXCEPT ![s] = step]
                 /\ step.at \in {"verify", "login", "save"} => (step.copy.is_verified => SomeUse')
    BY <1>d, <2>4
  <2>7. SomeUse' /\ token' \in [Tokens -> {NoToken} \cup Token]
    BY <2>2, <2>4, UsedCode DEF TypeOK
  <2>8. QED
    BY <2>3, <2>5, <2>6, <2>7, AccountMoves
<1>6. ASSUME NEW r \in Requests, NEW c \in Codes, ConfirmRead(r, c)
      PROVE  AccountInv'
  <2>1. user # NoUser
    BY <1>6, <1>a DEF ConfirmRead, Usable
  <2>2. PICK step : step = [at |-> "confirm", code |-> c]
    OBVIOUS
  <2>3. step \in Running /\ step.at = "confirm"
    BY <2>2 DEF Running
  <2>4. request' = [request EXCEPT ![r] = step] /\ UNCHANGED <<user, code, uses, token>>
    BY <1>6, <2>2 DEF ConfirmRead
  <2>5. QED
    BY <1>b, <2>1, <2>3, <2>4
<1>7. ASSUME NEW r \in Requests, ConfirmCommit(r)
      PROVE  AccountInv'
  <2>1. PICK c \in Codes : c = request[r].code
    BY <1>7, RequestShape DEF ConfirmCommit
  <2>2. user \in User
    BY <1>7, <1>a, <1>d DEF ConfirmCommit
  <2>3. user' = [user EXCEPT !.password = user.password + 1] /\ Use(c) /\ user.password < MaxResets
    BY <1>7, <2>1 DEF ConfirmCommit
  <2>4. user' \in User
    <3>1. user.password \in 0 .. MaxResets /\ MaxResets \in Nat
      BY <2>2, BoundsAssumption DEF User
    <3>2. user.password + 1 \in 0 .. MaxResets
      BY <2>3, <3>1
    <3>3. QED
      BY <2>2, <2>3, <3>2 DEF User
  <2>5. PICK step : step = [at |-> "blacklist"]
    OBVIOUS
  <2>6. step \in Running /\ step.at = "blacklist"
    BY <2>5 DEF Running
  <2>7. request' = [request EXCEPT ![r] = step] /\ UNCHANGED token
    BY <1>7, <2>5 DEF ConfirmCommit
  <2>8. \E s \in Requests : \E st \in {Idle} \cup Running :
                 /\ request' = [request EXCEPT ![s] = st]
                 /\ st.at \in {"verify", "login", "save"} => (st.copy.is_verified => SomeUse')
    BY <2>6, <2>7
  <2>9. token' \in [Tokens -> {NoToken} \cup Token]
    BY <2>7 DEF TypeOK
  <2>10. QED
    BY <2>3, <2>4, <2>8, <2>9, UsedCode, AccountMoves
<1>8. ASSUME NEW r \in Requests, BlacklistInsert(r)
      PROVE  AccountInv'
  <2>1. user \in User /\ user # NoUser
    BY <1>8, <1>a, <1>d DEF BlacklistInsert
  <2>2. \A k \in {NoToken} \cup Token : [k EXCEPT !.blacklisted = TRUE] \in {NoToken} \cup Token
    <3>1. \A k \in Token : [k EXCEPT !.blacklisted = TRUE] \in Token
      BY DEF Token
    <3>2. [NoToken EXCEPT !.blacklisted = TRUE] = NoToken
      <4>1. PICK revoked : revoked = TRUE
        OBVIOUS
      <4>2. NoToken = [blacklisted |-> revoked]
        BY <4>1 DEF NoToken
      <4>3. [NoToken EXCEPT !.blacklisted = revoked] = NoToken
        BY <4>2
      <4>4. QED
        BY <4>1, <4>3
    <3>3. QED
      BY <3>1, <3>2
  <2>3. token' \in [Tokens -> {NoToken} \cup Token]
    BY <1>8, <2>2 DEF BlacklistInsert, TypeOK
  <2>4. request' = [request EXCEPT ![r] = Idle] /\ UNCHANGED <<user, code, uses>>
    BY <1>8 DEF BlacklistInsert
  <2>5. QED
    BY <1>a, <1>c, <1>d, <2>1, <2>3, <2>4 DEF TypeOK
<1>18. ASSUME NEW r \in Requests, BlacklistRead(r)
       PROVE  AccountInv'
  <2>1. user \in User /\ user # NoUser
    BY <1>18, <1>a, <1>d DEF BlacklistRead
  <2>2. PICK step : step = [at |-> "insert", found |-> Outstanding, since |-> resets]
    OBVIOUS
  <2>3. Outstanding \in SUBSET Tokens /\ resets \in Nat
    BY DEF Outstanding, TypeOK
  <2>4. step \in Running /\ step.at = "insert"
    BY <2>2, <2>3 DEF Running
  <2>5. request' = [request EXCEPT ![r] = step] /\ UNCHANGED <<user, code, uses, token>>
    BY <1>18, <2>2 DEF BlacklistRead
  <2>6. QED
    BY <1>b, <2>1, <2>4, <2>5
<1>9. ASSUME NEW r \in Requests, LoginRead(r)
      PROVE  AccountInv'
  <2>1. user # NoUser /\ user \in User
    BY <1>9, <1>a DEF LoginRead, MayAuthenticate
  <2>2. PICK step : step = [at |-> "login", copy |-> user]
    OBVIOUS
  <2>3. step \in Running /\ step.copy = user
    BY <2>1, <2>2 DEF Running
  <2>4. request' = [request EXCEPT ![r] = step] /\ UNCHANGED <<user, code, uses, token>>
    BY <1>9, <2>2 DEF LoginRead
  <2>5. QED
    BY <1>a, <1>b, <2>1, <2>3, <2>4
<1>10. ASSUME NEW r \in Requests, LoginToken(r)
       PROVE  AccountInv'
  <2>1. PICK copy \in User : copy = request[r].copy /\ request[r].at = "login"
    BY <1>10, RequestShape DEF LoginToken
  <2>2. PICK step : step = [at |-> "save", copy |-> copy]
    OBVIOUS
  <2>3. step \in Running /\ step.copy = copy
    BY <2>1, <2>2 DEF Running
  <2>4. request' = [request EXCEPT ![r] = step] /\ UNCHANGED <<user, code, uses>>
    BY <1>10, <2>1, <2>2 DEF LoginToken
  <2>5. copy.is_verified => SomeUse
    BY <2>1 DEF CopiesVerified
  <2>6. token' \in [Tokens -> {NoToken} \cup Token]
    <3>1. [resets |-> resets, recorded |-> FALSE, blacklisted |-> FALSE] \in Token
      BY DEF Token, TypeOK
    <3>2. QED
      BY <1>10, <2>1, <3>1 DEF LoginToken, TypeOK
  <2>7. user \in User /\ user # NoUser
    BY <1>a, <1>d, <2>1
  <2>8. QED
    BY <1>a, <1>c, <2>3, <2>4, <2>5, <2>6, <2>7 DEF TypeOK
<1>11. ASSUME NEW r \in Requests, EditRead(r)
       PROVE  AccountInv'
  <2>1. user # NoUser /\ user \in User
    BY <1>11, <1>a DEF EditRead
  <2>2. PICK step : step = [at |-> "save", copy |-> user]
    OBVIOUS
  <2>3. step \in Running /\ step.copy = user
    BY <2>1, <2>2 DEF Running
  <2>4. request' = [request EXCEPT ![r] = step] /\ UNCHANGED <<user, code, uses, token>>
    BY <1>11, <2>2 DEF EditRead
  <2>5. QED
    BY <1>a, <1>b, <2>1, <2>3, <2>4
<1>12. ASSUME NEW r \in Requests, SaveCopy(r)
       PROVE  AccountInv'
  <2>1. user' \in User /\ (user'.is_verified => SomeUse)
    BY <1>12, RequestShape DEF SaveCopy, Saved, CopiesVerified
  <2>2. request' = [request EXCEPT ![r] = Idle] /\ UNCHANGED <<code, uses, token>>
    BY <1>12 DEF SaveCopy
  <2>3. QED
    BY <1>c, <1>d, <2>1, <2>2 DEF TypeOK
<1>13. ASSUME NEW t \in Tokens, Logout(t)
       PROVE  AccountInv'
  <2>1. user \in User /\ user # NoUser /\ token[t] \in Token
    BY <1>13, <1>a DEF Logout, Live, TypeOK
  <2>2. Revoked(t) \in Token
    BY <2>1 DEF Token, Revoked
  <2>3. token' \in [Tokens -> {NoToken} \cup Token]
    BY <1>13, <2>2 DEF Logout, TypeOK
  <2>4. UNCHANGED <<user, code, uses, request>>
    BY <1>13 DEF Logout
  <2>5. QED
    BY <1>a, <1>c, <2>1, <2>3, <2>4 DEF TypeOK
<1>19. ASSUME NEW t \in Tokens, NEW s \in Tokens, Refresh(t, s)
       PROVE  AccountInv'
  <2>1. user \in User /\ user # NoUser /\ token[t] \in Token
    BY <1>19, <1>a DEF Refresh, Live, TypeOK
  <2>2. Revoked(t) \in Token
    BY <2>1 DEF Token, Revoked
  <2>3. PICK new \in Token : token' = [token EXCEPT ![t] = Revoked(t), ![s] = new]
    <3>1. PICK kept \in BOOLEAN : token' = [token EXCEPT ![t] = Revoked(t),
               ![s] = [resets |-> resets, recorded |-> kept, blacklisted |-> FALSE]]
      BY <1>19 DEF Refresh
    <3>2. [resets |-> resets, recorded |-> kept, blacklisted |-> FALSE] \in Token
      BY <3>1 DEF Token, TypeOK
    <3>3. QED
      BY <3>1, <3>2
  <2>4. token' \in [Tokens -> {NoToken} \cup Token]
    BY <2>2, <2>3 DEF TypeOK
  <2>5. UNCHANGED <<user, code, uses, request>>
    BY <1>19 DEF Refresh
  <2>6. QED
    BY <1>a, <1>c, <2>1, <2>4, <2>5 DEF TypeOK
<1>14. ASSUME NEW r \in Requests, SuspendUserAccount(r) \/ DeleteUserAccount(r)
       PROVE  AccountInv'
  <2>1. user # NoUser /\ user \in User
    BY <1>14, <1>a DEF SuspendUserAccount, DeleteUserAccount
  <2>2. user' \in User /\ user'.is_verified = user.is_verified
    BY <1>14, <2>1 DEF SuspendUserAccount, DeleteUserAccount, User
  <2>3. UNCHANGED <<code, uses, token, request>>
    BY <1>14 DEF SuspendUserAccount, DeleteUserAccount
  <2>4. QED
    BY <1>a, <1>c, <2>1, <2>2, <2>3 DEF TypeOK
<1>15. ASSUME NEW r \in Requests, RequestFails(r)
       PROVE  AccountInv'
  BY <1>15, <1>a, <1>b, <1>d DEF RequestFails
<1>16. CASE UNCHANGED vars
  BY <1>16 DEF vars, TypeOK, NothingBefore, CopiesVerified, SomeUse
<1>17. QED
  BY <1>1, <1>2, <1>3, <1>4, <1>5, <1>6, <1>7, <1>8, <1>9, <1>10, <1>11, <1>12, <1>13,
     <1>14, <1>15, <1>16, <1>18, <1>19 DEF Next, UserStep

LEMMA AccountInvariant == Spec => []AccountInv
<1>1. Init => AccountInv
  <2>1. Init => resets \in Nat /\ ended \in Nat
    BY DEF Init
  <2>2. QED
    BY <2>1 DEF Init, AccountInv, TypeOK, NothingBefore, CopiesVerified, Idle, NoUser
<1>2. QED
  BY <1>1, AccountStep, PTL DEF Spec

\* What one request at a time can rely on: the code it has found is not used
\* meanwhile, and the copy it has read has the password of the row.
Undisturbed ==
    /\ \A c \in Codes : code[c] \in {"none", "active"} => uses[c] = 0
    /\ \A r \in Requests :
          /\ request[r].at \in {"verify", "confirm"} => uses[request[r].code] = 0
          /\ request[r].at \in {"verify", "login", "save"} =>
                user # NoUser /\ request[r].copy.password = user.password

LEMMA UndisturbedStep ==
    AccountInv /\ Undisturbed /\ Apart(request) /\ Apart(request)' /\ [Next]_vars => Undisturbed'
<1> SUFFICES ASSUME TypeOK, NothingBefore, Undisturbed, Apart(request), Apart(request)', [Next]_vars
             PROVE  Undisturbed'
  BY DEF AccountInv
<1>a. Idle.at = "idle" /\ \A r \in Requests : request[r] # Idle => user \in User /\ user # NoUser
  BY DEF Idle, TypeOK, NothingBefore
\* the step of a request r that leaves the uses, and the password if there is a user
<1>b. ASSUME NEW r \in Requests, NEW step \in {Idle} \cup Running,
             UNCHANGED <<user, code, uses>>, request' = [request EXCEPT ![r] = step],
             step.at \in {"verify", "confirm"} => uses[step.code] = 0,
             step.at \in {"verify", "login", "save"} =>
                user # NoUser /\ step.copy.password = user.password
      PROVE  Undisturbed'
  <2>1. request'[r] = step /\ \A s \in Requests : s # r => request'[s] = request[s]
    BY <1>b DEF TypeOK
  <2>2. QED
    BY <1>b, <2>1 DEF Undisturbed
\* a step that leaves the requests alone, and the password if there is one in flight
<1>c. ASSUME UNCHANGED <<uses, request>>,
             user # NoUser => user' # NoUser /\ user'.password = user.password,
             \A c \in Codes : code'[c] \in {"none", "active"} => uses[c] = 0
      PROVE  Undisturbed'
  BY <1>a, <1>c DEF Undisturbed
\* whoever ends was the only one
<1>e. ASSUME NEW r \in Requests, NEW step, request' = [request EXCEPT ![r] = step],
             request[r].at # "idle"
      PROVE  \A s \in Requests : s # r => request'[s].at = "idle"
  BY <1>e DEF Apart, TypeOK
\* a code is used, and the request copies no row
<1>d. ASSUME NEW r \in Requests, NEW step, request' = [request EXCEPT ![r] = step],
             request[r].at # "idle", step.at \in {"idle", "blacklist"}, NEW c \in Codes, Use(c)
      PROVE  Undisturbed'
  <2>1. request'[r] = step /\ \A s \in Requests : s # r => request'[s].at = "idle"
    BY <1>d, <1>e DEF TypeOK
  <2>2. /\ code'[c] = "used"
        /\ \A d \in Codes : d # c => code'[d] = code[d] /\ uses'[d] = uses[d]
    BY <1>d DEF Use, TypeOK
  <2>3. QED
    BY <1>d, <2>1, <2>2 DEF Undisturbed
<1>1. ASSUME NEW r \in Requests, Register(r) \/ SendCode(r)
      PROVE  Undisturbed'
  <2>1. /\ request[r] = Idle /\ UNCHANGED <<uses, request>>
        /\ UNCHANGED code \/ \E c \in Codes : code[c] = "none" /\ code' = [code EXCEPT ![c] = "active"]
    BY <1>1 DEF Register, SendCode, NewCode
  <2>2. \A c \in Codes : code'[c] \in {"none", "active"} => uses[c] = 0
    BY <2>1 DEF Undisturbed, TypeOK
  <2>3. user # NoUser => UNCHANGED user
    BY <1>1 DEF Register, SendCode
  <2>4. QED
    BY <1>c, <2>1, <2>2, <2>3
<1>2. ASSUME NEW c \in Codes, Expire(c)
      PROVE  Undisturbed'
  BY <1>2 DEF Expire, Undisturbed, TypeOK
<1>3. ASSUME NEW r \in Requests, NEW c \in Codes, VerifyRead(r, c)
      PROVE  Undisturbed'
  <2>1. user # NoUser /\ user \in User
    BY <1>3 DEF VerifyRead, Usable, NothingBefore, TypeOK
  <2>2. PICK step : step = [at |-> "verify", code |-> c, copy |-> user]
    OBVIOUS
  <2>3. step \in Running /\ step.copy = user /\ step.code = c
    BY <2>1, <2>2 DEF Running
  <2>4. request' = [request EXCEPT ![r] = step] /\ UNCHANGED <<user, code, uses>>
    BY <1>3, <2>2 DEF VerifyRead, Goto
  <2>5. uses[c] = 0
    BY <1>3 DEF VerifyRead, Usable, Undisturbed
  <2>6. QED
    BY <1>b, <2>1, <2>3, <2>4, <2>5
<1>4. ASSUME NEW r \in Requests, NEW c \in Codes, ConfirmRead(r, c)
      PROVE  Undisturbed'
  <2>1. PICK step : step = [at |-> "confirm", code |-> c]
    OBVIOUS
  <2>2. step \in Running /\ step.at = "confirm" /\ step.code = c
    BY <2>1 DEF Running
  <2>3. request' = [request EXCEPT ![r] = step] /\ UNCHANGED <<user, code, uses>>
    BY <1>4, <2>1 DEF ConfirmRead, Goto
  <2>4. uses[c] = 0
    BY <1>4 DEF ConfirmRead, Usable, Undisturbed
  <2>5. QED
    BY <1>b, <2>2, <2>3, <2>4
<1>5. ASSUME NEW r \in Requests, VerifyCommit(r)
      PROVE  Undisturbed'
  <2>1. PICK c \in Codes : c = request[r].code /\ Use(c)
    BY <1>5, RequestShape DEF VerifyCommit
  <2>2. request' = [request EXCEPT ![r] = Idle] /\ request[r].at # "idle"
    BY <1>5 DEF VerifyCommit, Goto
  <2>3. QED
    BY <1>a, <1>d, <2>1, <2>2
<1>6. ASSUME NEW r \in Requests, ConfirmCommit(r)
      PROVE  Undisturbed'
  <2>1. PICK c \in Codes : c = request[r].code /\ Use(c)
    BY <1>6, RequestShape DEF ConfirmCommit
  <2>2. PICK step : step = [at |-> "blacklist"]
    OBVIOUS
  <2>3. /\ request' = [request EXCEPT ![r] = step] /\ step.at = "blacklist"
        /\ request[r].at # "idle"
    BY <1>6, <2>2 DEF ConfirmCommit, Goto
  <2>4. QED
    BY <1>d, <2>1, <2>3
<1>7. ASSUME NEW r \in Requests, BlacklistInsert(r) \/ RequestFails(r)
      PROVE  Undisturbed'
  <2>1. request' = [request EXCEPT ![r] = Idle] /\ UNCHANGED <<user, code, uses>>
    BY <1>7 DEF BlacklistInsert, RequestFails, Goto
  <2>2. QED
    BY <1>a, <1>b, <2>1
<1>15. ASSUME NEW r \in Requests, BlacklistRead(r)
       PROVE  Undisturbed'
  <2>1. PICK step : step = [at |-> "insert", found |-> Outstanding, since |-> resets]
    OBVIOUS
  <2>2. Outstanding \in SUBSET Tokens /\ resets \in Nat
    BY DEF Outstanding, TypeOK
  <2>3. step \in Running /\ step.at = "insert"
    BY <2>1, <2>2 DEF Running
  <2>4. request' = [request EXCEPT ![r] = step] /\ UNCHANGED <<user, code, uses>>
    BY <1>15, <2>1 DEF BlacklistRead, Goto
  <2>5. QED
    BY <1>b, <2>3, <2>4
<1>8. ASSUME NEW r \in Requests, LoginRead(r) \/ EditRead(r)
      PROVE  Undisturbed'
  <2>1. user # NoUser /\ user \in User
    BY <1>8 DEF LoginRead, EditRead, MayAuthenticate, TypeOK
  <2>2. PICK at \in {"login", "save"} :
           request' = [request EXCEPT ![r] = [at |-> at, copy |-> user]]
    BY <1>8 DEF LoginRead, EditRead, Goto
  <2>3. PICK step : step = [at |-> at, copy |-> user]
    OBVIOUS
  <2>4. step \in Running /\ step.copy = user /\ step.at \in {"login", "save"}
    BY <2>1, <2>3 DEF Running
  <2>5. request' = [request EXCEPT ![r] = step] /\ UNCHANGED <<user, code, uses>>
    BY <1>8, <2>2, <2>3 DEF LoginRead, EditRead
  <2>6. QED
    BY <1>b, <2>1, <2>4, <2>5
<1>9. ASSUME NEW r \in Requests, LoginToken(r)
      PROVE  Undisturbed'
  <2>1. PICK copy \in User : copy = request[r].copy /\ request[r].at = "login"
    BY <1>9, RequestShape DEF LoginToken
  <2>2. PICK step : step = [at |-> "save", copy |-> copy]
    OBVIOUS
  <2>3. step \in Running /\ step.copy = copy /\ step.at = "save"
    BY <2>1, <2>2 DEF Running
  <2>4. request' = [request EXCEPT ![r] = step] /\ UNCHANGED <<user, code, uses>>
    BY <1>9, <2>1, <2>2 DEF LoginToken, Goto
  <2>5. user # NoUser /\ copy.password = user.password
    BY <2>1 DEF Undisturbed
  <2>6. QED
    BY <1>b, <2>3, <2>4, <2>5
<1>10. ASSUME NEW r \in Requests, SaveCopy(r)
       PROVE  Undisturbed'
  <2>1. /\ request' = [request EXCEPT ![r] = Idle] /\ UNCHANGED <<code, uses>>
        /\ request[r].at # "idle"
    BY <1>10 DEF SaveCopy, Goto
  <2>2. request'[r] = Idle /\ \A s \in Requests : s # r => request'[s].at = "idle"
    BY <2>1, <1>e DEF TypeOK
  <2>3. QED
    BY <1>a, <2>1, <2>2 DEF Undisturbed
<1>11. ASSUME NEW t \in Tokens, Logout(t) \/ \E s \in Tokens : Refresh(t, s)
       PROVE  Undisturbed'
  BY <1>11 DEF Logout, Refresh, Undisturbed
<1>12. ASSUME NEW r \in Requests, SuspendUserAccount(r) \/ DeleteUserAccount(r)
       PROVE  Undisturbed'
  <2>1. user # NoUser /\ user \in User /\ UNCHANGED <<code, uses, request>>
    BY <1>12 DEF SuspendUserAccount, DeleteUserAccount, TypeOK
  <2>2. user' \in User /\ user'.password = user.password
    BY <1>12, <2>1 DEF SuspendUserAccount, DeleteUserAccount, User
  <2>3. user' # NoUser
    BY <2>2 DEF User, NoUser
  <2>4. QED
    BY <1>c, <2>1, <2>2, <2>3 DEF Undisturbed
<1>13. CASE UNCHANGED vars
  BY <1>13 DEF vars, Undisturbed
<1>14. QED
  BY <1>1, <1>2, <1>3, <1>4, <1>5, <1>6, <1>7, <1>8, <1>9, <1>10, <1>11, <1>12, <1>13,
     <1>15 DEF Next, UserStep

\* The invariant for as long as no two requests have been in flight.
Alone == ~ overlapped => Undisturbed /\ ~ Overlap

LEMMA AloneStep ==
    /\ AccountsInit => Alone
    /\ AccountInv /\ Alone /\ [AccountsNext]_accountsVars => Alone'
    /\ Alone /\ [AccountsNext]_accountsVars /\ ~ overlapped' =>
          Undisturbed /\ Apart(request) /\ Apart(request)'
<1>1. AccountsInit => Alone
  <2>1. Init => Undisturbed
    BY DEF Init, Undisturbed, Idle
  <2>2. AccountsInit => ~ Overlap
    BY DEF AccountsInit, Init, O!Init, Idle, O!Idle, Overlap, AtOnce
  <2>3. QED
    BY <2>1, <2>2 DEF AccountsInit, Alone
<1>2. Alone /\ [AccountsNext]_accountsVars /\ ~ overlapped' =>
          Undisturbed /\ ~ Overlap' /\ Apart(request) /\ Apart(request)'
  <2> SUFFICES ASSUME Alone, [AccountsNext]_accountsVars, ~ overlapped'
               PROVE  Undisturbed /\ ~ Overlap' /\ Apart(request) /\ Apart(request)'
    OBVIOUS
  <2>1. Undisturbed /\ ~ Overlap /\ ~ Overlap'
    BY NoOverlapYet DEF Alone
  <2>2. QED
    BY <2>1 DEF Overlap, AtOnce, Apart
<1>3. AccountInv /\ Alone /\ [AccountsNext]_accountsVars => Alone'
  BY <1>2, OnePartMoves, UndisturbedStep DEF Alone
<1>4. QED
  BY <1>1, <1>2, <1>3

LEMMA AlwaysAlone == AccountsSpec => [](AccountInv /\ Alone)
BY AloneStep, AccountInvariant, EachPart, PTL DEF AccountsSpec

\* A code is one-time (one_time_password.py:8): until two requests
\* overlap it verifies an account or resets a password once.
THEOREM CodesUsedOnce == AccountsSpec => []CodeUsedOnce
<1>1. AccountsInit => CodeUsedOnce
  <2> SUFFICES ASSUME uses = [c \in Codes |-> 0], NEW c \in Codes PROVE uses[c] <= 1
    BY Zenon DEF AccountsInit, Init, CodeUsedOnce
  <2>1. uses[c] = 0
    OBVIOUS
  <2>2. QED
    BY <2>1
<1> DEFINE Once == \A c \in Codes : uses[c] <= 1
<1>2. AccountInv /\ Undisturbed /\ Once /\ [Next]_vars => Once'
  <2> SUFFICES ASSUME TypeOK, Undisturbed, Once, [Next]_vars PROVE Once'
    BY DEF AccountInv
  <2>1. \/ UNCHANGED uses
        \/ \E r \in Requests : (VerifyCommit(r) \/ ConfirmCommit(r))
    BY DEF Next, UserStep, vars, Register, SendCode, Expire, VerifyRead, ConfirmRead, BlacklistRead,
           BlacklistInsert, LoginRead, LoginToken, EditRead, SaveCopy, Logout, Refresh,
           SuspendUserAccount, DeleteUserAccount, RequestFails
  <2>2. ASSUME NEW r \in Requests, VerifyCommit(r) \/ ConfirmCommit(r)
        PROVE  Once'
    <3>1. PICK c \in Codes : c = request[r].code /\ uses[c] = 0 /\ Use(c)
      BY <2>2, RequestShape DEF VerifyCommit, ConfirmCommit, Undisturbed
    <3>2. uses' = [uses EXCEPT ![c] = 1]
      BY <3>1 DEF Use
    <3>3. QED
      BY <3>2 DEF TypeOK
  <2>3. QED
    BY <2>1, <2>2
<1>3. AccountInv /\ Alone /\ CodeUsedOnce /\ [AccountsNext]_accountsVars => CodeUsedOnce'
  <2> SUFFICES ASSUME AccountInv, Alone, CodeUsedOnce, [AccountsNext]_accountsVars, ~ overlapped'
               PROVE  Once'
    BY DEF CodeUsedOnce
  <2>1. Undisturbed
    BY AloneStep
  <2>2. Once
    BY NoOverlapYet DEF CodeUsedOnce
  <2>3. QED
    BY <1>2, <2>1, <2>2, OnePartMoves
<1>4. QED
  BY <1>1, <1>3, AlwaysAlone, PTL DEF AccountsSpec

\* No step takes a password back that was replaced.
LEMMA PasswordStep ==
    ASSUME AccountInv, Undisturbed, [Next]_vars, user # NoUser
    PROVE  user'.password >= user.password
<1> USE DEF AccountInv
<1>1. user \in User /\ user.password \in Nat
  BY BoundsAssumption DEF TypeOK, User
<1>2. CASE \E r \in Requests : VerifyCommit(r) \/ SaveCopy(r)
  <2>1. PICK r \in Requests : VerifyCommit(r) \/ SaveCopy(r)
    BY <1>2
  <2>2. request[r].copy \in User /\ request[r].copy.password = user.password
    BY <2>1, RequestShape DEF VerifyCommit, SaveCopy, Undisturbed
  <2>3. user'.password = request[r].copy.password
    BY <2>1, <2>2 DEF VerifyCommit, SaveCopy, Saved, User
  <2>4. QED
    BY <1>1, <2>2, <2>3
<1>3. CASE \E r \in Requests : ConfirmCommit(r)
  <2>1. user'.password = user.password + 1
    BY <1>1, <1>3 DEF ConfirmCommit, User
  <2>2. QED
    BY <1>1, <2>1
<1>4. CASE \E r \in Requests : SuspendUserAccount(r) \/ DeleteUserAccount(r)
  <2>1. user'.password = user.password
    BY <1>1, <1>4 DEF SuspendUserAccount, DeleteUserAccount, User
  <2>2. QED
    BY <1>1, <2>1
<1>5. CASE UNCHANGED user
  BY <1>1, <1>5
<1>6. QED
  BY <1>2, <1>3, <1>4, <1>5
     DEF Next, vars, Register, SendCode, Expire, VerifyRead, ConfirmRead, BlacklistRead,
         BlacklistInsert, LoginRead, LoginToken, EditRead, Logout, Refresh, RequestFails, UserStep

\* Until two requests overlap nothing that read the row before a reset
\* writes the old password back (serializers.py:229).
THEOREM ResetsAreKept == AccountsSpec => ResetIsKept
<1>1. AccountInv /\ Alone /\ [AccountsNext]_accountsVars
      => [~ overlapped' /\ user # NoUser => user'.password >= user.password]_accountsVars
  <2> SUFFICES ASSUME AccountInv, Alone, [AccountsNext]_accountsVars, ~ overlapped', user # NoUser
               PROVE  user'.password >= user.password
    OBVIOUS
  <2>1. Undisturbed
    BY AloneStep
  <2>2. QED
    BY <2>1, OnePartMoves, PasswordStep
<1>2. QED
  BY <1>1, AlwaysAlone, PTL DEF AccountsSpec, ResetIsKept

\* On record and live.
Listed(t) == t \in Outstanding /\ ~ token[t].blacklisted

\* A reset that is about to blacklist what it read has read every token on
\* record that was issued before.
ReadsAll ==
    \A r \in Requests : request[r].at = "insert" =>
        /\ request[r].since <= resets
        /\ \A t \in Tokens : Listed(t) =>
              t \in request[r].found \/ token[t].resets >= request[r].since

EndInv ==
    /\ ended <= resets
    /\ ReadsAll
    /\ \A t \in Tokens : Listed(t) => token[t].resets >= ended

\* It is enough that a step ends nothing, lists only new tokens, and starts
\* at most a reset that has read them all.
LEMMA EndMoves ==
    ASSUME TypeOK, TypeOK', EndInv,
           ended' = ended, resets' >= resets,
           \A t \in Tokens : Listed(t)' =>
               \/ Listed(t) /\ token'[t].resets = token[t].resets
               \/ token'[t].resets = resets,
           \A r \in Requests : request'[r].at = "insert" =>
               \/ request'[r] = request[r]
               \/ /\ request'[r].since = resets
                  /\ \A t \in Tokens : Listed(t)' => t \in request'[r].found
    PROVE  EndInv'
<1>1. resets \in Nat /\ resets' \in Nat /\ ended \in Nat
  BY DEF TypeOK
<1>2. ended' <= resets'
  BY <1>1 DEF EndInv
<1>3. ASSUME NEW t \in Tokens, Listed(t)'
      PROVE  token'[t].resets >= ended'
  <2>1. CASE Listed(t) /\ token'[t].resets = token[t].resets
    BY <2>1 DEF EndInv
  <2>2. CASE token'[t].resets = resets
    BY <1>1, <2>2 DEF EndInv
  <2>3. QED
    BY <1>3, <2>1, <2>2
<1>4. ASSUME NEW r \in Requests, request'[r].at = "insert"
      PROVE  /\ request'[r].since <= resets'
             /\ \A t \in Tokens : Listed(t)' =>
                   t \in request'[r].found \/ token'[t].resets >= request'[r].since
  <2>1. CASE request'[r] = request[r]
    <3>1. request[r].since \in Nat /\ request[r].since <= resets
      BY <1>4, <2>1, RequestShape DEF EndInv, ReadsAll
    <3>2. request'[r].since <= resets'
      BY <1>1, <2>1, <3>1
    <3>3. ASSUME NEW t \in Tokens, Listed(t)'
          PROVE  t \in request'[r].found \/ token'[t].resets >= request'[r].since
      <4>1. CASE Listed(t) /\ token'[t].resets = token[t].resets
        BY <1>4, <2>1, <4>1 DEF EndInv, ReadsAll
      <4>2. CASE token'[t].resets = resets
        BY <1>1, <2>1, <3>1, <4>2
      <4>3. QED
        BY <3>3, <4>1, <4>2
    <3>4. QED
      BY <3>2, <3>3
  <2>2. CASE /\ request'[r].since = resets
             /\ \A t \in Tokens : Listed(t)' => t \in request'[r].found
    BY <1>1, <2>2
  <2>3. QED
    BY <1>4, <2>1, <2>2
<1>5. ReadsAll'
  BY <1>4 DEF ReadsAll
<1>6. QED
  BY <1>2, <1>3, <1>5 DEF EndInv

LEMMA EndStep ==
    ASSUME TypeOK, TypeOK', EndInv, [Next]_vars
    PROVE  EndInv'
<1>0. Idle.at # "insert" /\ resets \in Nat
  BY DEF Idle, TypeOK
\* what a step does to the requests, if it starts no insertion
<1>a. ASSUME \/ UNCHANGED request
             \/ \E r \in Requests : \E step :
                   step.at # "insert" /\ request' = [request EXCEPT ![r] = step]
      PROVE  \A r \in Requests : request'[r].at = "insert" => request'[r] = request[r]
  BY <1>a DEF TypeOK
\* a step that leaves the tokens alone
<1>b. ASSUME UNCHANGED <<token, ended>>, resets' >= resets,
             \A r \in Requests : request'[r].at = "insert" => request'[r] = request[r]
      PROVE  EndInv'
  <2>1. \A t \in Tokens : Listed(t)' => Listed(t) /\ token'[t].resets = token[t].resets
    BY <1>b DEF Listed, Outstanding
  <2>2. QED
    BY <1>b, <2>1, EndMoves
<1>1. ASSUME NEW r \in Requests, UNCHANGED <<resets, ended>>,
             \/ Register(r) \/ SendCode(r) \/ VerifyCommit(r) \/ LoginRead(r) \/ EditRead(r)
             \/ SaveCopy(r) \/ SuspendUserAccount(r) \/ DeleteUserAccount(r) \/ RequestFails(r)
             \/ \E c \in Codes : VerifyRead(r, c) \/ ConfirmRead(r, c)
      PROVE  EndInv'
  <2>1. token' = token
    BY <1>1 DEF Register, SendCode, VerifyCommit, LoginRead, EditRead, SaveCopy,
           SuspendUserAccount, DeleteUserAccount, RequestFails, VerifyRead, ConfirmRead
  <2>2. CASE \E c \in Codes : VerifyRead(r, c)
    <3>1. PICK c \in Codes : request' = [request EXCEPT ![r] =
                                [at |-> "verify", code |-> c, copy |-> user]]
      BY <2>2 DEF VerifyRead, Goto
    <3>2. QED
      BY <3>1, <1>a, <1>b, <1>0, <1>1, <2>1
  <2>3. CASE \E c \in Codes : ConfirmRead(r, c)
    <3>1. PICK c \in Codes : request' = [request EXCEPT ![r] = [at |-> "confirm", code |-> c]]
      BY <2>3 DEF ConfirmRead, Goto
    <3>2. QED
      BY <3>1, <1>a, <1>b, <1>0, <1>1, <2>1
  <2>4. CASE LoginRead(r) \/ EditRead(r)
    <3>1. PICK at \in {"login", "save"} :
             request' = [request EXCEPT ![r] = [at |-> at, copy |-> user]]
      BY <2>4 DEF LoginRead, EditRead, Goto
    <3>2. QED
      BY <3>1, <1>a, <1>b, <1>0, <1>1, <2>1
  <2>5. CASE \/ UNCHANGED request
             \/ request' = [request EXCEPT ![r] = Idle]
    BY <2>5, <1>a, <1>b, <1>0, <1>1, <2>1
  <2>6. QED
    BY <1>1, <2>2, <2>3, <2>4, <2>5
       DEF Register, SendCode, VerifyCommit, SaveCopy, SuspendUserAccount,
           DeleteUserAccount, RequestFails, Goto
<1>2. ASSUME NEW c \in Codes, Expire(c), UNCHANGED <<resets, ended>>
      PROVE  EndInv'
  BY <1>0, <1>2, <1>a, <1>b DEF Expire
<1>3. ASSUME NEW r \in Requests, ConfirmCommit(r)
      PROVE  EndInv'
  <2>1. request' = [request EXCEPT ![r] = [at |-> "blacklist"]]
    BY <1>3 DEF ConfirmCommit, Goto
  <2>2. UNCHANGED <<token, ended>> /\ resets' >= resets
    BY <1>0, <1>3 DEF ConfirmCommit
  <2>3. QED
    BY <2>1, <2>2, <1>a, <1>b
<1>4. ASSUME NEW r \in Requests, LoginToken(r), UNCHANGED <<resets, ended>>
      PROVE  EndInv'
  <2>1. \A t \in Tokens : Listed(t)' => token'[t] = token[t]
    BY <1>4 DEF LoginToken, Listed, Outstanding, TypeOK
  <2>2. \A t \in Tokens : Listed(t)' => Listed(t) /\ token'[t].resets = token[t].resets
    BY <2>1 DEF Listed, Outstanding
  <2>3. request' = [request EXCEPT ![r] = [at |-> "save", copy |-> request[r].copy]]
    BY <1>4 DEF LoginToken, Goto
  <2>4. \A q \in Requests : request'[q].at = "insert" => request'[q] = request[q]
    BY <1>a, <2>3
  <2>5. QED
    BY <1>0, <1>4, <2>2, <2>4, EndMoves
<1>5. ASSUME NEW t \in Tokens, Logout(t), UNCHANGED <<resets, ended>>
      PROVE  EndInv'
  <2>1. token[t] \in Token
    BY <1>5 DEF Logout, Live, TypeOK
  <2>2. Revoked(t).blacklisted /\ token' = [token EXCEPT ![t] = Revoked(t)] /\ UNCHANGED request
    BY <1>5, <2>1 DEF Logout, Revoked, Token
  <2>3. \A u \in Tokens : Listed(u)' => token'[u] = token[u]
    BY <2>2 DEF Listed, Outstanding, TypeOK
  <2>4. \A u \in Tokens : Listed(u)' => Listed(u) /\ token'[u].resets = token[u].resets
    BY <2>3 DEF Listed, Outstanding
  <2>5. QED
    BY <1>0, <1>5, <2>2, <2>4, EndMoves
<1>6. ASSUME NEW t \in Tokens, NEW s \in Tokens, Refresh(t, s), UNCHANGED <<resets, ended>>
      PROVE  EndInv'
  <2>1. token[t] \in Token /\ t # s
    BY <1>6 DEF Refresh, Live, TypeOK
  <2>2. PICK new : /\ token' = [token EXCEPT ![t] = Revoked(t), ![s] = new]
                   /\ new.resets = resets
    <3>1. PICK kept \in BOOLEAN : token' = [token EXCEPT ![t] = Revoked(t),
               ![s] = [resets |-> resets, recorded |-> kept, blacklisted |-> FALSE]]
      BY <1>6 DEF Refresh
    <3>2. PICK new : new = [resets |-> resets, recorded |-> kept, blacklisted |-> FALSE]
      OBVIOUS
    <3>3. new.resets = resets
      BY <3>2
    <3>4. QED
      BY <3>1, <3>2, <3>3
  <2>3. Revoked(t).blacklisted /\ UNCHANGED request
    BY <1>6, <2>1 DEF Refresh, Revoked, Token
  <2>4. \A u \in Tokens : Listed(u)' => token'[u] = token[u] \/ token'[u].resets = resets
    BY <2>1, <2>2, <2>3 DEF Listed, Outstanding, TypeOK
  <2>5. \A u \in Tokens : Listed(u)' =>
            \/ Listed(u) /\ token'[u].resets = token[u].resets
            \/ token'[u].resets = resets
    BY <2>4 DEF Listed, Outstanding
  <2>6. QED
    BY <1>0, <1>6, <2>3, <2>5, EndMoves
<1>7. ASSUME NEW r \in Requests, BlacklistRead(r), UNCHANGED <<resets, ended>>
      PROVE  EndInv'
  <2>1. \A t \in Tokens : Listed(t)' => t \in Outstanding /\ Listed(t)
                                   /\ token'[t].resets = token[t].resets
    BY <1>7 DEF BlacklistRead, Listed, Outstanding
  <2>2. PICK step : step = [at |-> "insert", found |-> Outstanding, since |-> resets]
    OBVIOUS
  <2>3. /\ request'[r] = step /\ step.found = Outstanding /\ step.since = resets
        /\ \A q \in Requests : q # r => request'[q] = request[q]
    BY <1>7, <2>2 DEF BlacklistRead, Goto, TypeOK
  <2>4. QED
    BY <1>0, <1>7, <2>1, <2>3, EndMoves
<1>8. ASSUME NEW r \in Requests, BlacklistInsert(r)
      PROVE  EndInv'
  <2>1. PICK n \in Nat : n = request[r].since /\ n <= resets
    BY <1>8, RequestShape DEF BlacklistInsert, EndInv, ReadsAll
  <2>2. UNCHANGED resets /\ ended' = Later(ended, n)
    BY <1>8, <2>1 DEF BlacklistInsert
  <2>3. /\ \A q \in Requests : request'[q].at = "insert" => request'[q] = request[q]
    BY <1>0, <1>8 DEF BlacklistInsert, Goto, TypeOK
  <2>4. \A t \in Tokens : token'[t] = IF t \in request[r].found
               THEN [token[t] EXCEPT !.blacklisted = TRUE] ELSE token[t]
    BY <1>8 DEF BlacklistInsert
  <2>5. \A k \in {NoToken} \cup Token : [k EXCEPT !.blacklisted = TRUE].blacklisted
    BY DEF NoToken, Token
  <2>6. \A t \in Tokens : Listed(t)' => t \notin request[r].found /\ token'[t] = token[t]
    BY <2>4, <2>5 DEF Listed, TypeOK
  <2>7. \A t \in Tokens : Listed(t)' => Listed(t) /\ token'[t] = token[t]
                                   /\ token[t].resets >= n
    BY <1>8, <2>1, <2>6 DEF Listed, Outstanding, EndInv, ReadsAll, BlacklistInsert
  <2>8. ended \in Nat /\ ended' \in {ended, n} /\ ended' <= resets
    BY <1>0, <2>1, <2>2 DEF Later, EndInv, TypeOK
  <2>9. \A t \in Tokens : Listed(t)' => token'[t].resets >= ended'
    BY <2>7, <2>8 DEF EndInv
  <2>10. ReadsAll'
    BY <2>2, <2>3, <2>7 DEF ReadsAll, EndInv
  <2>11. QED
    BY <2>2, <2>8, <2>9, <2>10 DEF EndInv
<1>9. CASE UNCHANGED vars
  BY <1>0, <1>9, <1>a, <1>b DEF vars
<1>10. CASE UserStep /\ UNCHANGED <<resets, ended>>
  BY <1>1, <1>2, <1>4, <1>5, <1>6, <1>7, <1>10 DEF UserStep
<1>11. QED
  BY <1>3, <1>8, <1>9, <1>10 DEF Next

\* A token on record that was issued before the resets which a returned
\* reset followed is not live (helpers.py:62-75), however many resets, logins
\* and rotations overlap.
THEOREM ResetsEndRecorded == AccountsSpec => []ResetEndsRecorded
<1>1. Init => EndInv
  <2> SUFFICES ASSUME Init PROVE EndInv
    OBVIOUS
  <2>1. \A r \in Requests : request[r] = Idle
    BY DEF Init
  <2>2. \A r \in Requests : request[r].at # "insert"
    BY <2>1 DEF Idle
  <2>3. \A t \in Tokens : ~ Listed(t)
    BY DEF Init, Listed, Outstanding
  <2>4. ended <= resets
    BY DEF Init
  <2>5. QED
    BY <2>2, <2>3, <2>4 DEF EndInv, ReadsAll
<1>2. AccountInv /\ AccountInv' /\ EndInv /\ [Next]_vars => EndInv'
  BY EndStep DEF AccountInv
<1>3. EndInv => ResetEndsRecorded
  BY DEF EndInv, ResetEndsRecorded, Listed, Outstanding
<1>4. QED
  BY <1>1, <1>2, <1>3, AccountInvariant, EachPart, PTL DEF Spec

-----------------------------------------------------------------------------
(* OtpLimit                                                                *)

InFlight == Cardinality(Requests)

\* How many requests are at a step of the middleware.
Number(f, step) == Cardinality({r \in Requests : f[r] = step})

\* Twice the number of codes that n restarts of the count allow, the first
\* of them with one request less in flight that has not set the counter.
Twice(n) == n * (2 * (MaxRequest - Initial) + 2 * InFlight - n - 1)

\* Each request about to set the counter may restart the count once; then
\* the count runs up to the limit, and whoever has passed the comparison by
\* then may still go through.
WithinLimit ==
    LET set == Number(limited, "set")
        incr == Number(limited, "incr")
    IN  /\ set < InFlight
        /\ retries < MaxRequest =>
              2 * (passed + MaxRequest - retries + InFlight - set - 1) + Twice(set) <= Twice(InFlight)
        /\ retries >= MaxRequest =>
              /\ 2 * (passed + incr) + Twice(set) <= Twice(InFlight)
              /\ retries + incr <= MaxRequest + InFlight

LimitInv ==
    /\ retries \in Nat /\ passed \in Nat
    /\ limited \in [Requests -> {"idle", "set", "get", "incr"}]
    /\ IF retries = L!NoKey THEN passed = 0 ELSE WithinLimit

LEMMA InFlightIsNat == InFlight \in Nat
BY BoundsAssumption, FS_CardinalityType DEF InFlight

LEMMA NumberBounds ==
    ASSUME NEW f
    PROVE  /\ \A step : Number(f, step) \in Nat
           /\ Number(f, "set") + Number(f, "incr") <= InFlight
<1> DEFINE At(step) == {r \in Requests : f[r] = step}
<1>1. ASSUME NEW S \in SUBSET Requests
      PROVE  IsFiniteSet(S) /\ Cardinality(S) \in Nat /\ Cardinality(S) <= InFlight
  BY BoundsAssumption, FS_Subset, FS_CardinalityType DEF InFlight
<1>2. \A step : IsFiniteSet(At(step)) /\ Cardinality(At(step)) \in Nat
  BY <1>1
<1>3. At("set") \cap At("incr") = {} /\ At("set") \cup At("incr") \in SUBSET Requests
  OBVIOUS
<1> HIDE DEF At
<1>4. Cardinality(At("set") \cup At("incr"))
      = Cardinality(At("set")) + Cardinality(At("incr")) - Cardinality(At("set") \cap At("incr"))
  BY <1>2, FS_Union
<1>5. Cardinality(At("set")) + Cardinality(At("incr")) <= InFlight
  BY <1>1, <1>2, <1>3, <1>4, FS_EmptySet
<1>6. QED
  BY <1>2, <1>5 DEF Number, At

LEMMA OneMoves ==
    ASSUME NEW r \in Requests, NEW to \in {"idle", "set", "get", "incr"},
           NEW from \in {"idle", "set", "get", "incr"},
           limited \in [Requests -> {"idle", "set", "get", "incr"}],
           limited' = [limited EXCEPT ![r] = to],
           from = limited[r], to # from
    PROVE  /\ Number(limited', to) = Number(limited, to) + 1
           /\ Number(limited', from) = Number(limited, from) - 1
           /\ \A step : step # to /\ step # from =>
                 Number(limited', step) = Number(limited, step)
<1> DEFINE At(step) == {q \in Requests : limited[q] = step}
<1>1. /\ {q \in Requests : limited'[q] = to} = At(to) \cup {r} /\ r \notin At(to)
      /\ {q \in Requests : limited'[q] = from} = At(from) \ {r} /\ r \in At(from)
      /\ \A step : step # to /\ step # from => {q \in Requests : limited'[q] = step} = At(step)
  OBVIOUS
<1>2. \A step : IsFiniteSet(At(step))
  BY BoundsAssumption, FS_Subset
<1> HIDE DEF At
<1>3. Cardinality(At(to) \cup {r}) = Cardinality(At(to)) + 1
  BY <1>1, <1>2, FS_AddElement
<1>4. Cardinality(At(from) \ {r}) = Cardinality(At(from)) - 1
  BY <1>1, <1>2, FS_RemoveElement
<1>5. QED
  BY <1>1, <1>3, <1>4 DEF Number, At

\* One restart less to come is worth a whole count.
LEMMA RestartsAddUp ==
    /\ \A n \in 1 .. InFlight :
          Twice(n) = Twice(n - 1) + 2 * (MaxRequest - Initial + InFlight - n)
    /\ \A n \in 0 .. InFlight :
          Twice(n) \in Int /\ 0 <= Twice(n) /\ Twice(n) <= Twice(InFlight)
<1>1. PICK k \in Nat, d \in Nat : k = InFlight /\ d = MaxRequest - Initial
  BY InFlightIsNat, LimitAssumption
<1>2. \A n \in Int : Twice(n) = n * (2 * d + 2 * k - n - 1)
  BY <1>1 DEF Twice
<1>3. ASSUME NEW n \in Int
      PROVE  Twice(n) = Twice(n - 1) + 2 * (d + k - n)
  <2>1. n * (2 * d + 2 * k - n - 1) = (n - 1) * (2 * d + 2 * k - (n - 1) - 1) + 2 * (d + k - n)
    BY <1>1, <1>3
  <2>2. QED
    BY <1>2, <1>3, <2>1
<1>4. ASSUME NEW n \in 0 .. k
      PROVE  Twice(n) \in Int /\ Twice(n) <= Twice(k)
  <2>1. PICK e \in Nat : e = k - n
    BY <1>1, <1>4
  <2>2. k * (2 * d + 2 * k - k - 1) - n * (2 * d + 2 * k - n - 1) = e * (2 * d + e - 1)
    BY <1>1, <1>4, <2>1
  <2>3. e * (2 * d + e - 1) >= 0
    <3>1. CASE e = 0
      BY <1>1, <3>1
    <3>2. CASE e # 0
      <4>1. 2 * d + e - 1 \in Nat
        BY <1>1, <2>1, <3>2
      <4>2. \A x, y \in Nat : x * y >= 0
        OBVIOUS
      <4>3. QED
        BY <2>1, <4>1, <4>2
    <3>3. QED
      BY <3>1, <3>2
  <2>4. \A x, y, z \in Int : x - y = z /\ z >= 0 => y <= x
    OBVIOUS
  <2>5. /\ k * (2 * d + 2 * k - k - 1) \in Int /\ n * (2 * d + 2 * k - n - 1) \in Int
        /\ e * (2 * d + e - 1) \in Int
    BY <1>1, <1>4, <2>1
  <2>6. n * (2 * d + 2 * k - n - 1) <= k * (2 * d + 2 * k - k - 1)
    BY <2>2, <2>3, <2>4, <2>5
  <2>7. QED
    BY <1>1, <1>2, <1>4, <2>5, <2>6
<1>5. ASSUME NEW n \in 0 .. k
      PROVE  0 <= Twice(n)
  <2>1. CASE n = 0
    BY <1>1, <1>2, <2>1
  <2>2. CASE n # 0
    <3>1. n \in Nat /\ 2 * d + 2 * k - n - 1 \in Nat
      BY <1>1, <1>5, <2>2
    <3>2. \A x, y \in Nat : x * y >= 0
      OBVIOUS
    <3>3. n * (2 * d + 2 * k - n - 1) >= 0 /\ n * (2 * d + 2 * k - n - 1) \in Int
      BY <3>1, <3>2
    <3>4. Twice(n) = n * (2 * d + 2 * k - n - 1)
      BY <1>2, <3>1
    <3>5. QED
      BY <3>3, <3>4
  <2>3. QED
    BY <2>1, <2>2
<1>6. \A n \in 1 .. k : n \in Int
  OBVIOUS
<1>7. \A n \in 1 .. k : Twice(n) = Twice(n - 1) + 2 * (d + k - n)
  BY <1>3, <1>6
<1>8. QED
  BY <1>1, <1>4, <1>5, <1>7

LEMMA LimitStep == LimitInv /\ [L!Next]_(L!vars) => LimitInv'
<1> SUFFICES ASSUME LimitInv, [L!Next]_(L!vars) PROVE LimitInv'
  OBVIOUS
<1> DEFINE k == InFlight
           set == Number(limited, "set")
           incr == Number(limited, "incr")
<1>a. /\ retries \in Nat /\ passed \in Nat
      /\ limited \in [Requests -> {"idle", "set", "get", "incr"}]
      /\ k \in Nat /\ set \in Nat /\ incr \in Nat /\ set + incr <= k
      /\ MaxRequest \in Nat /\ Initial \in Nat /\ 0 < Initial /\ Initial < MaxRequest
  BY NumberBounds, InFlightIsNat, LimitAssumption DEF LimitInv
<1>b. /\ retries # L!NoKey => WithinLimit
      /\ retries = L!NoKey => passed = 0
  BY DEF LimitInv
\* a step of one request that counts nothing
<1>c. ASSUME NEW r \in Requests, NEW to \in {"idle", "set", "get", "incr"},
             limited' = [limited EXCEPT ![r] = to], UNCHANGED <<retries, passed>>,
             retries # L!NoKey =>
                 /\ limited[r] \in {"idle", "get"} /\ to \in {"idle", "get", "incr"}
                 /\ to = "incr" => retries < MaxRequest
      PROVE  LimitInv'
  <2>1. limited' \in [Requests -> {"idle", "set", "get", "incr"}]
    BY <1>a, <1>c
  <2>2. CASE retries = L!NoKey
    BY <1>a, <1>b, <1>c, <2>1, <2>2 DEF LimitInv
  <2>3. CASE retries # L!NoKey
    <3>1. Number(limited', "set") = set
      <4>1. CASE to = limited[r]
        BY <1>a, <1>c, <4>1
      <4>2. CASE to # limited[r]
        <5>1. PICK from \in {"idle", "set", "get", "incr"} : from = limited[r]
          BY <1>a
        <5>2. /\ "set" # to /\ "set" # from /\ to # from /\ from = limited[r]
              /\ limited' = [limited EXCEPT ![r] = to]
          BY <1>c, <2>3, <4>2, <5>1
        <5>3. Number(limited', "set") = Number(limited, "set")
          BY <1>a, <5>2, OneMoves
        <5>4. QED
          BY <5>3
      <4>3. QED
        BY <4>1, <4>2
    <3>2. to # "incr" => Number(limited', "incr") = incr
      <4>1. CASE to = limited[r]
        BY <1>a, <1>c, <4>1
      <4>2. CASE to # limited[r]
        <5>1. PICK from \in {"idle", "set", "get", "incr"} : from = limited[r]
          BY <1>a
        <5>2. /\ "incr" # from
              /\ to # from /\ from = limited[r]
              /\ limited' = [limited EXCEPT ![r] = to]
          BY <1>c, <2>3, <4>2, <5>1
        <5>3. to # "incr" => Number(limited', "incr") = Number(limited, "incr")
          BY <1>a, <5>2, OneMoves
        <5>4. QED
          BY <5>3
      <4>3. QED
        BY <4>1, <4>2
    <3>3. WithinLimit
      BY <1>b, <2>3
    <3>4. ASSUME retries >= MaxRequest
          PROVE  Number(limited', "incr") = incr
      <4>1. to # "incr"
        BY <1>a, <1>c, <2>3, <3>4
      <4>2. QED
        BY <3>2, <4>1
    <3>5. retries' = retries /\ passed' = passed
      BY <1>c
    <3>6. WithinLimit'
      BY <3>1, <3>3, <3>4, <3>5 DEF WithinLimit, InFlight
    <3>7. QED
      BY <1>a, <2>1, <2>3, <3>5, <3>6 DEF LimitInv
  <2>4. QED
    BY <2>2, <2>3
<1>1. ASSUME NEW r \in Requests, L!HasKey(r)
      PROVE  LimitInv'
  <2>1. PICK to \in {"set", "get"} :
           /\ limited[r] = "idle" /\ limited' = [limited EXCEPT ![r] = to]
           /\ UNCHANGED <<retries, passed>> /\ (retries # L!NoKey => to = "get")
    BY <1>1 DEF L!HasKey, L!Goto
  <2>2. QED
    BY <1>c, <2>1
<1>2. ASSUME NEW r \in Requests, L!Get(r)
      PROVE  LimitInv'
  <2>1. PICK to \in {"idle", "incr"} :
           /\ limited[r] = "get" /\ limited' = [limited EXCEPT ![r] = to]
           /\ UNCHANGED <<retries, passed>>
           /\ (retries # L!NoKey /\ to = "incr" => ~ retries >= MaxRequest)
    BY <1>2 DEF L!Get, L!Goto, L!Exceeded
  <2>2. retries # L!NoKey /\ to = "incr" => retries < MaxRequest
    BY <1>a, <2>1
  <2>3. QED
    BY <1>c, <2>1, <2>2
<1>3. ASSUME NEW r \in Requests, L!Set(r)
      PROVE  LimitInv'
  <2>1. /\ limited[r] = "set" /\ retries' = Initial /\ passed' = passed
        /\ limited' = [limited EXCEPT ![r] = "get"]
    BY <1>3 DEF L!Set, L!Goto
  <2>2. Number(limited', "set") = set - 1 /\ Number(limited', "incr") = incr
    BY <1>a, <2>1, OneMoves
  <2>3. set - 1 \in Nat
    BY <2>2, NumberBounds
  <2>4. 2 * passed + Twice(set) <= Twice(k)
    <3>1. set \in 0 .. k /\ Twice(set) \in Int /\ Twice(k) \in Int /\ Twice(set) <= Twice(k)
      <4>1. set \in 0 .. k /\ k \in 0 .. k
        BY <1>a
      <4>2. QED
        BY <4>1, RestartsAddUp
    <3>2. CASE retries = L!NoKey
      BY <1>a, <1>b, <3>1, <3>2
    <3>3. CASE retries # L!NoKey /\ retries < MaxRequest
      <4>1. /\ set < k
            /\ 2 * (passed + MaxRequest - retries + k - set - 1) + Twice(set) <= Twice(k)
        BY <1>b, <3>3 DEF WithinLimit
      <4>2. \A p, m, c, n, s, x, y \in Int :
               c < m /\ s < n /\ 2 * (p + m - c + n - s - 1) + x <= y => 2 * p + x <= y
        OBVIOUS
      <4>3. QED
        BY <1>a, <3>1, <3>3, <4>1, <4>2
    <3>4. CASE retries # L!NoKey /\ retries >= MaxRequest
      <4>1. 2 * (passed + incr) + Twice(set) <= Twice(k)
        BY <1>b, <3>4 DEF WithinLimit
      <4>2. QED
        BY <1>a, <3>1, <4>1
    <3>5. QED
      BY <1>a, <3>2, <3>3, <3>4
  <2>5. /\ Twice(set) = Twice(set - 1) + 2 * (MaxRequest - Initial + k - set)
        /\ Twice(set) \in Int /\ Twice(set - 1) \in Int /\ Twice(k) \in Int
    <3>1. set \in 1 .. k /\ set \in 0 .. k /\ set - 1 \in 0 .. k /\ k \in 0 .. k
      BY <1>a, <2>3
    <3>2. QED
      BY <3>1, RestartsAddUp
  <2>6. 2 * (passed + MaxRequest - Initial + k - (set - 1) - 1) + Twice(set - 1) <= Twice(k)
    <3>1. \A p, m, i, n, s, x, y, z \in Int :
             2 * p + x <= z /\ x = y + 2 * (m - i + n - s)
             => 2 * (p + m - i + n - (s - 1) - 1) + y <= z
      OBVIOUS
    <3>2. QED
      BY <1>a, <2>4, <2>5, <3>1
  <2>7. set - 1 < k
    BY <1>a
  <2>8. WithinLimit'
    BY <1>a, <2>1, <2>2, <2>6, <2>7 DEF WithinLimit, InFlight, Twice
  <2>9. limited' \in [Requests -> {"idle", "set", "get", "incr"}] /\ Initial # L!NoKey
    BY <1>a, <2>1 DEF L!NoKey
  <2>10. QED
    BY <1>a, <2>1, <2>8, <2>9 DEF LimitInv
<1>4. ASSUME NEW r \in Requests, L!Incr(r)
      PROVE  LimitInv'
  <2>1. limited[r] = "incr" /\ limited' = [limited EXCEPT ![r] = "idle"]
    BY <1>4 DEF L!Incr, L!Goto
  <2>2. CASE retries = L!NoKey
    BY <1>4, <1>c, <2>1, <2>2 DEF L!Incr
  <2>3. CASE retries # L!NoKey
    <3>1. retries' = retries + 1 /\ passed' = passed + 1
      BY <1>4, <2>3 DEF L!Incr
    <3>2. Number(limited', "set") = set /\ Number(limited', "incr") = incr - 1
      BY <1>a, <2>1, OneMoves
    <3>3. WithinLimit /\ incr - 1 \in Nat /\ Twice(set) \in Int /\ Twice(k) \in Int
      <4>1. set \in 0 .. k /\ k \in 0 .. k
        BY <1>a
      <4>2. QED
        BY <1>b, <2>3, <3>2, <4>1, NumberBounds, RestartsAddUp
    <3>4. /\ set < k
          /\ retries + 1 < MaxRequest =>
               2 * ((passed + 1) + MaxRequest - (retries + 1) + k - set - 1) + Twice(set) <= Twice(k)
          /\ retries + 1 >= MaxRequest =>
               /\ 2 * ((passed + 1) + (incr - 1)) + Twice(set) <= Twice(k)
               /\ (retries + 1) + (incr - 1) <= MaxRequest + k
      <4>1. \A p, m, c, n, s, i, x, y \in Int :
               /\ s < n /\ s + i <= n
               /\ c < m => 2 * (p + m - c + n - s - 1) + x <= y
               /\ c >= m => 2 * (p + i) + x <= y /\ c + i <= m + n
               /\ 0 <= s
               => /\ c + 1 < m => 2 * ((p + 1) + m - (c + 1) + n - s - 1) + x <= y
                  /\ c + 1 >= m =>
                        2 * ((p + 1) + (i - 1)) + x <= y /\ (c + 1) + (i - 1) <= m + n
        OBVIOUS
      <4>2. /\ set < k /\ set + incr <= k
            /\ retries < MaxRequest =>
                 2 * (passed + MaxRequest - retries + k - set - 1) + Twice(set) <= Twice(k)
            /\ retries >= MaxRequest =>
                 2 * (passed + incr) + Twice(set) <= Twice(k) /\ retries + incr <= MaxRequest + k
            /\ 0 <= set
        BY <1>a, <3>3 DEF WithinLimit
      <4>3. QED
        BY <1>a, <3>3, <4>1, <4>2
    <3>5. WithinLimit'
      BY <3>1, <3>2, <3>4 DEF WithinLimit, InFlight, Twice
    <3>6. limited' \in [Requests -> {"idle", "set", "get", "incr"}]
      BY <1>a, <2>1
    <3>7. retries' \in Nat /\ passed' \in Nat /\ retries' # L!NoKey
      BY <1>a, <3>1 DEF L!NoKey
    <3>8. QED
      BY <3>5, <3>6, <3>7 DEF LimitInv
  <2>4. QED
    BY <2>2, <2>3
<1>5. CASE L!Expire
  BY <1>a, <1>5 DEF L!Expire, LimitInv, L!NoKey
<1>6. CASE UNCHANGED L!vars
  BY <1>6 DEF L!vars, LimitInv, WithinLimit, InFlight, Twice
<1>7. QED
  BY <1>1, <1>2, <1>3, <1>4, <1>5, <1>6 DEF L!Next

LEMMA LimitInvariant == L!Spec => []LimitInv
<1>1. L!Init => LimitInv
  BY DEF L!Init, LimitInv, L!NoKey
<1>2. QED
  BY <1>1, LimitStep, PTL DEF L!Spec

\* The daily limit of one-time codes holds up to what the requests in flight
\* add: for any limit and any number of them.
THEOREM LimitAlwaysHolds == AccountsSpec => []LimitHolds
<1>1. LimitInv => LimitHolds
  <2> SUFFICES ASSUME LimitInv PROVE LimitHolds
    OBVIOUS
  <2>1. PICK k \in Nat, d \in Nat, p \in Nat :
           k = InFlight /\ d = MaxRequest - Initial /\ p = passed
    BY InFlightIsNat, LimitAssumption DEF LimitInv
  <2>2. Twice(k) = k * (2 * d + 2 * k - k - 1)
    BY <2>1 DEF Twice
  <2>3. 2 * p <= k * (2 * d + 2 * k - k - 1)
    <3>1. PICK set \in 0 .. k, incr \in Nat :
             set = Number(limited, "set") /\ incr = Number(limited, "incr")
      <4>1. \A m, n, s \in Nat : m + n <= s => m \in 0 .. s
        OBVIOUS
      <4>2. QED
        BY <2>1, <4>1, NumberBounds
    <3>2. PICK t \in Int, b \in Int : t = Twice(set) /\ b = Twice(k) /\ 0 <= t /\ 0 <= b
      <4>1. k \in 0 .. k
        BY <2>1
      <4>2. QED
        BY <2>1, <4>1, RestartsAddUp
    <3>3. PICK c \in Nat, m \in Nat : c = retries /\ m = MaxRequest
      BY LimitAssumption DEF LimitInv
    <3>4. \/ p = 0
          \/ set < k /\ c < m /\ 2 * (p + m - c + k - set - 1) + t <= b
          \/ 2 * (p + incr) + t <= b
      <4>1. retries = L!NoKey => passed = 0
        BY DEF LimitInv
      <4>2. retries # L!NoKey => WithinLimit
        BY DEF LimitInv
      <4>3. CASE retries = L!NoKey
        BY <2>1, <4>1, <4>3
      <4>4. CASE retries # L!NoKey /\ c < m
        BY <2>1, <3>1, <3>2, <3>3, <4>2, <4>4 DEF WithinLimit
      <4>5. CASE retries # L!NoKey /\ c >= m
        BY <2>1, <3>1, <3>2, <3>3, <4>2, <4>5 DEF WithinLimit
      <4>6. QED
        BY <3>3, <4>3, <4>4, <4>5
    <3>5. 2 * p <= b
      BY <2>1, <3>1, <3>2, <3>3, <3>4
    <3>6. QED
      BY <2>2, <3>2, <3>5
  <2>4. k * (2 * d + 2 * k - k - 1) = 2 * (k * d) + k * (k - 1)
    BY <2>1
  <2>5. PICK x \in Int, y \in Int : x = k * d /\ y = k * (k - 1)
    BY <2>1
  <2>6. 2 * p <= 2 * x + y
    BY <2>3, <2>4, <2>5
  <2>7. p <= x + (y \div 2)
    <3>1. 2 * (p - x) <= y
      BY <2>1, <2>5, <2>6
    <3>2. \A m, n \in Int : 2 * m <= n => m <= n \div 2 /\ n \div 2 \in Int
      OBVIOUS
    <3>3. p - x \in Int /\ y \in Int
      OBVIOUS
    <3>4. p - x <= y \div 2 /\ y \div 2 \in Int
      BY <3>1, <3>2, <3>3, Zenon
    <3>5. QED
      BY <3>4
  <2>8. passed <= InFlight * (MaxRequest - Initial) + ((InFlight * (InFlight - 1)) \div 2)
    BY <2>1, <2>5, <2>7
  <2>9. QED
    BY <2>8, SameCardinality DEF LimitHolds, L!LimitHolds, InFlight
<1>2. QED
  BY <1>1, LimitInvariant, EachPart, PTL

-----------------------------------------------------------------------------

\* However requests overlap and fail, every module's variables keep their
\* shapes, a verified user has used a code, no flag names a role without a
\* profile, and the counter of codes stays within the limit and the overlap.
THEOREM ShapesAlwaysKept == AccountsSpec => []ShapesKept
<1>1. LimitInv => L!TypeOK
  <2> SUFFICES ASSUME LimitInv PROVE L!TypeOK
    OBVIOUS
  <2>1. PICK k \in Nat, incr \in Nat : k = InFlight /\ incr = Number(limited, "incr")
    BY InFlightIsNat, NumberBounds
  <2>2. PICK c \in Nat, m \in Nat : c = retries /\ m = MaxRequest
    BY LimitAssumption DEF LimitInv
  <2>3. c >= m => c + incr <= m + k
    BY <2>1, <2>2, LimitAssumption DEF LimitInv, WithinLimit, L!NoKey
  <2>4. c \in 0 .. m + k
    BY <2>1, <2>2, <2>3
  <2>5. retries \in 0 .. MaxRequest + L!Cardinality(Requests)
    BY <2>1, <2>2, <2>4, SameCardinality DEF InFlight
  <2>6. QED
    BY <2>5 DEF LimitInv, L!TypeOK
<1>2. TypeOK /\ L!TypeOK /\ O!TypeOK /\ C!TypeOK /\ B!TypeOK => ShapesKept
  BY DEF ShapesKept
<1>3. /\ AccountInv => TypeOK
      /\ RolesInv => O!TypeOK
      /\ CatalogInv => C!TypeOK
      /\ BankInv => B!TypeOK
  BY DEF AccountInv, RolesInv, CatalogInv, BankInv
<1>4. QED
  BY <1>1, <1>2, <1>3, AccountInvariant, LimitInvariant, RolesInvariant, CatalogInvariant,
     BankInvariant, EachPart, PTL
=============================================================================
