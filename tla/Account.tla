------------------------------ MODULE Account ------------------------------
(***************************************************************************)
(* The account of one user (apps/authentication, and the administrators'   *)
(* apps/admin/user_management): registration, one-time codes, the          *)
(* verification, password resets, logins with their refresh tokens,        *)
(* logout, suspension and deletion.  A verification, a login and an edit   *)
(* of the profile save the whole user row that they read.                  *)
(*                                                                         *)
(* The JWT library (simplejwt) keeps a row of every refresh token it       *)
(* issues, under the token's jti, and a list of those that are revoked.    *)
(* A login draws a new jti after that row was made, so the token that the  *)
(* client gets has no row (serializers.py:234-237); only a rotation or a   *)
(* logout gives it one.                                                    *)
(*                                                                         *)
(* Left out: e-mails, the hash of a code, first logins with a social       *)
(* account, access tokens and the lifetime of tokens.                      *)
(*                                                                         *)
(* An operator marked "faulty" stands for a plausible bug: only the mutant *)
(* runs use it, in the place of the definition that follows it.            *)
(***************************************************************************)
EXTENDS Naturals

CONSTANTS
    Codes,      \* primary keys of one-time codes (a bound)
    Tokens,     \* primary keys of refresh tokens (a bound)
    MaxResets,  \* bound on the passwords that are set
    Requests    \* slots for requests in flight (bounds the overlap)

VARIABLES
    user,       \* the CustomUser row, or NoUser
    code,       \* code[c]  : the status of the OneTimePassword row
    uses,       \* uses[c]  : how often c verified an account or set a password
    token,      \* token[t] : the refresh token that a client holds, or NoToken
    request,    \* request[r] : where request r is
    resets,     \* history: the number of resets that set a password
    ended       \* history: the resets before the latest table of tokens that
                \*   a reset read and then blacklisted

vars == <<user, code, uses, token, request, resets, ended>>

-----------------------------------------------------------------------------

\* Passwords are numbered in the order in which they are set.
User ==
    [password : 0 .. MaxResets, is_active : BOOLEAN,
     is_verified : BOOLEAN, is_deleted : BOOLEAN]

NoUser == [is_active |-> FALSE]

\* A token knows how many resets there had been when it was issued, and
\* whether the library has a row of its jti.
Token == [resets : Nat, recorded : BOOLEAN, blacklisted : BOOLEAN]

NoToken == [blacklisted |-> TRUE]

Idle == [at |-> "idle"]

Running ==
    [at : {"verify"}, code : Codes, copy : User] \cup
    [at : {"confirm"}, code : Codes] \cup
    [at : {"blacklist"}] \cup
    [at : {"insert"}, found : SUBSET Tokens, since : Nat] \cup
    [at : {"login", "save"}, copy : User]

Init ==
    /\ user = NoUser
    /\ code = [c \in Codes |-> "none"]
    /\ uses = [c \in Codes |-> 0]
    /\ token = [t \in Tokens |-> NoToken]
    /\ request = [r \in Requests |-> Idle]
    /\ resets = 0
    /\ ended = 0

Goto(r, step) == request' = [request EXCEPT ![r] = step]

NewCode(c) == code[c] = "none" /\ code' = [code EXCEPT ![c] = "active"]

-----------------------------------------------------------------------------
(* Registration and codes                                                  *)

\* Faulty: the row is made as create_superuser makes it.
RegisteredVerified == [password |-> 0, is_active |-> TRUE,
                       is_verified |-> TRUE, is_deleted |-> FALSE]

Registered == [password |-> 0, is_active |-> FALSE,
               is_verified |-> FALSE, is_deleted |-> FALSE]

\* create_user; the signal that sends the code swallows its errors.
Register(r) ==
    /\ request[r] = Idle
    /\ user = NoUser
    /\ user' = Registered
    /\ (\E c \in Codes : NewCode(c)) \/ UNCHANGED code
    /\ UNCHANGED <<uses, token, request>>

\* resend/otp and password/reset.  A second registration with the address
\* raises, as e-mails are unique, and register_service takes its code back.
SendCode(r) ==
    /\ request[r] = Idle
    /\ user # NoUser /\ ~ user.is_deleted
    /\ \E c \in Codes : NewCode(c)
    /\ UNCHANGED <<user, uses, token, request>>

\* OTP_EXPIRY minutes have passed (auto_delete_otp would mark it too).
Expire(c) ==
    /\ code[c] = "active"
    /\ code' = [code EXCEPT ![c] = "expired"]
    /\ UNCHANGED <<user, uses, token, request>>

\* Faulty: a code that was used is still found.
FoundOnceSent(c) == code[c] \in {"active", "used"}

Usable(c) == code[c] = "active"

VerifyRead(r, c) ==
    /\ request[r] = Idle
    /\ Usable(c)
    /\ Goto(r, [at |-> "verify", code |-> c, copy |-> user])
    /\ UNCHANGED <<user, code, uses, token>>

Use(c) ==
    /\ code' = [code EXCEPT ![c] = "used"]
    /\ uses' = [uses EXCEPT ![c] = @ + 1]

\* verify_account.
VerifyCommit(r) ==
    LET me == request[r] IN
    /\ me.at = "verify"
    /\ user' = [me.copy EXCEPT !.is_active = TRUE, !.is_verified = TRUE]
    /\ Use(me.code)
    /\ Goto(r, Idle)
    /\ UNCHANGED token

ConfirmRead(r, c) ==
    /\ request[r] = Idle
    /\ Usable(c)
    /\ user.password < MaxResets
    /\ Goto(r, [at |-> "confirm", code |-> c])
    /\ UNCHANGED <<user, code, uses, token>>

\* The password is saved with update_fields.
ConfirmCommit(r) ==
    /\ request[r].at = "confirm"
    /\ user.password < MaxResets
    /\ user' = [user EXCEPT !.password = @ + 1]
    /\ resets' = resets + 1
    /\ Use(request[r].code)
    /\ Goto(r, [at |-> "blacklist"])
    /\ UNCHANGED <<token, ended>>

\* The rows that the library has of the user's tokens.  (Those of the jtis
\* that a login drew first belong to no client's token.)
Outstanding == {t \in Tokens : token[t] # NoToken /\ token[t].recorded}

\* Faulty: .first(), which may be a row that is blacklisted already.
BlacklistReadFirst(r) ==
    /\ request[r].at = "blacklist"
    /\ \E t \in Outstanding :
          Goto(r, [at |-> "insert", found |-> {t}, since |-> resets])
    /\ UNCHANGED <<user, code, uses, token>>

\* blacklist_outstanding_token, after the transaction: it reads the rows,
BlacklistRead(r) ==
    /\ request[r].at = "blacklist"
    /\ Goto(r, [at |-> "insert", found |-> Outstanding, since |-> resets])
    /\ UNCHANGED <<user, code, uses, token>>

Later(n, k) == IF n < k THEN k ELSE n

\* and inserts a row into the blacklist for each that it read.
BlacklistInsert(r) ==
    LET me == request[r] IN
    /\ me.at = "insert"
    /\ token' = [t \in Tokens |->
            IF t \in me.found THEN [token[t] EXCEPT !.blacklisted = TRUE] ELSE token[t]]
    /\ ended' = Later(ended, me.since)
    /\ Goto(r, Idle)
    /\ UNCHANGED <<user, code, uses, resets>>

-----------------------------------------------------------------------------
(* Login and logout, and edits of the user row                             *)

MayAuthenticate == user # NoUser /\ user.is_active /\ user.is_verified

LoginRead(r) ==
    /\ request[r] = Idle
    /\ MayAuthenticate
    /\ Goto(r, [at |-> "login", copy |-> user])
    /\ UNCHANGED <<user, code, uses, token>>

\* get_token: the library records the token, then set_jti renames it.
LoginToken(r) ==
    /\ request[r].at = "login"
    /\ \E t \in Tokens :
          /\ token[t] = NoToken
          /\ token' = [token EXCEPT ![t] =
                [resets |-> resets, recorded |-> FALSE, blacklisted |-> FALSE]]
    /\ Goto(r, [at |-> "save", copy |-> request[r].copy])
    /\ UNCHANGED <<user, code, uses>>

\* PATCH me with user data reads the row with the access token.
EditRead(r) ==
    /\ request[r] = Idle
    /\ user # NoUser /\ user.is_active
    /\ Goto(r, [at |-> "save", copy |-> user])
    /\ UNCHANGED <<user, code, uses, token>>

\* Faulty: the row that is saved carries the password of the registration.
SavedAsRegistered(copy) == [copy EXCEPT !.password = 0]

Saved(copy) == copy

\* user.save() writes every column of the copy.
SaveCopy(r) ==
    /\ request[r].at = "save"
    /\ user' = Saved(request[r].copy)
    /\ Goto(r, Idle)
    /\ UNCHANGED <<code, uses, token>>

Live(t) == token[t] # NoToken /\ ~ token[t].blacklisted

\* What the library leaves of a token that it revokes: it makes the row
\* that is missing.
Revoked(t) == [token[t] EXCEPT !.recorded = TRUE, !.blacklisted = TRUE]

Logout(t) ==
    /\ Live(t)
    /\ token' = [token EXCEPT ![t] = Revoked(t)]
    /\ UNCHANGED <<user, code, uses, request>>

\* refresh/token, a view of the library: t is revoked, and s issued in its
\* place.  Whether s is recorded too depends on the library's release.
Refresh(t, s) ==
    /\ Live(t) /\ token[s] = NoToken
    /\ user.is_active
    /\ \E kept \in BOOLEAN :
          token' = [token EXCEPT
              ![t] = Revoked(t),
              ![s] = [resets |-> resets, recorded |-> kept, blacklisted |-> FALSE]]
    /\ UNCHANGED <<user, code, uses, request>>

-----------------------------------------------------------------------------
(* Administrators                                                          *)

SuspendUserAccount(r) ==
    /\ request[r] = Idle
    /\ user # NoUser /\ ~ user.is_deleted
    /\ user' = [user EXCEPT !.is_active = FALSE]
    /\ UNCHANGED <<code, uses, token, request>>

\* Clears is_active too, but saves only is_deleted.
DeleteUserAccount(r) ==
    /\ request[r] = Idle
    /\ user # NoUser /\ ~ user.is_deleted
    /\ user' = [user EXCEPT !.is_deleted = TRUE]
    /\ UNCHANGED <<code, uses, token, request>>

RequestFails(r) ==
    /\ request[r] # Idle
    /\ Goto(r, Idle)
    /\ UNCHANGED <<user, code, uses, token>>

UserStep ==
    \/ \E r \in Requests :
          \/ Register(r) \/ SendCode(r) \/ VerifyCommit(r) \/ BlacklistRead(r)
          \/ LoginRead(r) \/ LoginToken(r) \/ EditRead(r) \/ SaveCopy(r)
          \/ SuspendUserAccount(r) \/ DeleteUserAccount(r) \/ RequestFails(r)
    \/ \E r \in Requests, c \in Codes : VerifyRead(r, c) \/ ConfirmRead(r, c)
    \/ \E c \in Codes : Expire(c)
    \/ \E t \in Tokens : Logout(t)
    \/ \E t, s \in Tokens : Refresh(t, s)

Next ==
    \/ UserStep /\ UNCHANGED <<resets, ended>>
    \/ \E r \in Requests : ConfirmCommit(r) \/ BlacklistInsert(r)

Spec == Init /\ [][Next]_vars

-----------------------------------------------------------------------------

\* Every variable keeps the shape the database and the threads give it; and
\* however requests overlap and fail, a verified user has used a code.
TypeOK ==
    /\ user \in {NoUser} \cup User
    /\ code \in [Codes -> {"none", "active", "used", "expired"}]
    /\ uses \in [Codes -> Nat]
    /\ token \in [Tokens -> {NoToken} \cup Token]
    /\ request \in [Requests -> {Idle} \cup Running]
    /\ resets \in Nat /\ ended \in Nat
    /\ user # NoUser /\ user.is_verified => \E c \in Codes : uses[c] > 0
=============================================================================
