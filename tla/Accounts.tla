------------------------------ MODULE Accounts ------------------------------
(***************************************************************************)
(* The modules about one user's account, side by side: Account (extended   *)
(* here), OtpLimit, Onboarding, Catalog and BankAccounts.  They share no   *)
(* variable, so part picks one of them for a whole behaviour, as in Chats. *)
(* In the code the middleware of OtpLimit stands before the requests of    *)
(* Account that send a code, and the rest needs a login; neither tells the *)
(* other more than that the request came through.                          *)
(*                                                                         *)
(* Some of the properties are the code's whatever overlaps.  Others hold   *)
(* only until two requests have been in flight at once, which the history  *)
(* variable overlapped remembers.  AccountsProofs proves the properties    *)
(* for every value of the constants.                                       *)
(***************************************************************************)
EXTENDS Account, FiniteSets

CONSTANTS
    Explored,    \* the parts that a run explores
    MaxRequest,  \* OTP_RETRIES_PER_DAY
    Initial,     \* INITIAL_REQUEST
    Skills,      \* the skills on offer
    Services,    \* primary keys of services (a bound)
    MaxPrimary,  \* primary skills a provider may add
    Users        \* who may add the bank account

Parts == {"account", "limit", "roles", "catalog", "bank"}

ASSUME PartsAssumption == Explored \subseteq Parts

\* A limit that lets somebody through: the defaults are 1 and 3.
ASSUME LimitAssumption ==
    /\ Initial \in Nat \ {0} /\ MaxRequest \in Nat
    /\ Initial < MaxRequest

ASSUME BoundsAssumption ==
    /\ IsFiniteSet(Requests) /\ IsFiniteSet(Users)
    /\ MaxResets \in Nat

VARIABLES
    part, overlapped,
    retries, limited, passed,
    profile, flag, onboarding,
    skill, service, offering,
    account, adding

L == INSTANCE OtpLimit WITH request <- limited, served <- passed

O == INSTANCE Onboarding WITH request <- onboarding

C == INSTANCE Catalog WITH request <- offering

B == INSTANCE BankAccounts WITH request <- adding

Frozen(p) ==
    CASE p = "account" -> UNCHANGED vars
      [] p = "limit"   -> UNCHANGED <<retries, limited, passed>>
      [] p = "roles"   -> UNCHANGED <<profile, flag, onboarding>>
      [] p = "catalog" -> UNCHANGED <<skill, service, offering>>
      [] p = "bank"    -> UNCHANGED <<account, adding>>

\* Two requests of which none has returned.
AtOnce(f) == \E r, s \in Requests : r # s /\ f[r].at # "idle" /\ f[s].at # "idle"

Overlap == AtOnce(request) \/ AtOnce(onboarding)

Only(p) == part = p /\ UNCHANGED part /\ \A q \in Parts \ {p} : Frozen(q)

AccountsInit ==
    /\ part \in Explored
    /\ overlapped = FALSE
    /\ Init /\ L!Init /\ O!Init /\ C!Init /\ B!Init

AccountsNext ==
    /\ \/ Only("account") /\ Next
       \/ Only("limit") /\ L!Next
       \/ Only("roles") /\ O!Next
       \/ Only("catalog") /\ C!Next
       \/ Only("bank") /\ B!Next
    /\ overlapped' = (overlapped \/ Overlap')

accountsVars == <<part, overlapped, vars, L!vars, O!vars, C!vars, B!vars>>

AccountsSpec == AccountsInit /\ [][AccountsNext]_accountsVars

-----------------------------------------------------------------------------
(* What the module promises.                                               *)

\* Every module's variables keep their shapes; a verified user has used a
\* code, and no flag names a role without a profile.
ShapesKept == TypeOK /\ L!TypeOK /\ O!TypeOK /\ C!TypeOK /\ B!TypeOK

\* A code is one-time (one_time_password.py:8): whichever of
\* verification and reset it serves, it serves once, until two requests
\* overlap, which both find it unused.
CodeUsedOnce == ~ overlapped => \A c \in Codes : uses[c] <= 1

\* What a reset does to sessions (views.py:178), however requests overlap,
\* fail and rotate tokens: once it has blacklisted what it read, no refresh
\* token that was on record and issued before the resets it followed is
\* live.  It is no more than that: the token of a login has no row, so it
\* outlives every reset and may be rotated into a new one afterwards.
ResetEndsRecorded ==
    \A t \in Outstanding : ~ token[t].blacklisted => token[t].resets >= ended

\* Until two requests overlap no later login, edit, verification or failure
\* brings back a password that was replaced; a login that overlaps with the
\* reset does (serializers.py:229 saves the row it has read before).
ResetIsKept ==
    [][~ overlapped' /\ user # NoUser => user'.password >= user.password]_accountsVars

\* The properties of the other modules, under their names and as explained
\* there, the check-then-insert one for requests that come one after the
\* other.
LimitHolds == L!LimitHolds
OneRole == ~ overlapped => O!OneRole
OneRecipient == B!OneRecipient
DeletedStaysDeleted == C!DeletedStaysDeleted
=============================================================================
