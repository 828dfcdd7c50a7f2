------------------------------- MODULE Chats -------------------------------
(***************************************************************************)
(* The modules about people who talk to each other, side by side:          *)
(* Negotiation (extended here), Rooms, Messages, SupportTicket,            *)
(* Notifications and Endorsement.  They share no variable, so part picks   *)
(* one of them for a whole behaviour: the state spaces add up instead of   *)
(* multiplying, and each is explored completely.                           *)
(*                                                                         *)
(* Some of the properties are the code's whatever overlaps.  Others hold   *)
(* only until two requests have been in flight at once, which the history  *)
(* variable overlapped remembers.  ChatsProofs proves the properties for   *)
(* every value of the constants.                                           *)
(***************************************************************************)
EXTENDS Negotiation

CONSTANTS
    Explored,        \* the parts that a run explores
    Users,           \* who open conversations
    People,          \* the two participants of one conversation
    MaxMessages,     \* bound on its rows
    PageSize,        \* of its listing
    Pages,           \* page numbers that are asked for
    Admins,          \* staff users
    NoAdmin,         \* Support.admin is null
    Customer,        \* who opens the ticket
    MaxReplies,      \* bound on its messages
    Sockets,         \* websockets of one user
    Alerts,          \* events that are broadcast
    Endorsers,       \* who endorse
    Providers,       \* whom they endorse
    EndorsementIds   \* primary keys (a bound)

Parts == {"answers", "rooms", "messages", "ticket", "sockets", "praise"}

ASSUME PartsAssumption == Explored \subseteq Parts

ASSUME MessagesAssumption ==
    /\ MaxMessages \in Nat
    /\ PageSize \in Nat \ {0}
    /\ Pages \subseteq Nat \ {0}

ASSUME TicketAssumption ==
    /\ NoAdmin \notin Admins \cup {Customer}
    /\ MaxReplies \in Nat

VARIABLES
    part, overlapped,
    conversation, opening,
    message, messaging, served, cut,
    ticket, room, reply, ticketRequest, assigned,
    open, handling, sent, notification, shown,
    endorsement, endorsing

R == INSTANCE Rooms WITH request <- opening

M == INSTANCE Messages WITH request <- messaging

T == INSTANCE SupportTicket WITH request <- ticketRequest

N == INSTANCE Notifications WITH row <- notification

E == INSTANCE Endorsement WITH
    request <- endorsing, Users <- Endorsers, Ids <- EndorsementIds

Frozen(p) ==
    CASE p = "answers"  -> UNCHANGED vars
      [] p = "rooms"    -> UNCHANGED <<conversation, opening>>
      [] p = "messages" -> UNCHANGED <<message, messaging, served, cut>>
      [] p = "ticket"   -> UNCHANGED <<ticket, room, reply, ticketRequest, assigned>>
      [] p = "sockets"  -> UNCHANGED <<open, handling, sent, notification, shown>>
      [] p = "praise"   -> UNCHANGED <<endorsement, endorsing>>

\* Two requests of which none has returned.
AtOnce(f) == \E r, s \in Requests : r # s /\ f[r].at # "idle" /\ f[s].at # "idle"

Overlap == AtOnce(request) \/ AtOnce(opening) \/ AtOnce(endorsing)

Only(p) == part = p /\ UNCHANGED part /\ \A q \in Parts \ {p} : Frozen(q)

ChatsInit ==
    /\ part \in Explored
    /\ overlapped = FALSE
    /\ Init /\ R!Init /\ M!Init /\ T!Init /\ N!Init /\ E!Init

ChatsNext ==
    /\ \/ Only("answers") /\ Next
       \/ Only("rooms") /\ R!Next
       \/ Only("messages") /\ M!Next
       \/ Only("ticket") /\ T!Next
       \/ Only("sockets") /\ N!Next
       \/ Only("praise") /\ E!Next
    /\ overlapped' = (overlapped \/ Overlap')

chatsVars == <<part, overlapped, vars, R!vars, M!vars, T!vars, N!vars, E!vars>>

ChatsSpec == ChatsInit /\ [][ChatsNext]_chatsVars

-----------------------------------------------------------------------------
(* What the module promises beside the properties of Negotiation itself.   *)

\* Every module's variables keep their shapes.
ShapesKept ==
    /\ TypeOK
    /\ R!TypeOK /\ M!TypeOK /\ T!TypeOK /\ N!TypeOK /\ E!TypeOK

\* "Negotiation already accepted and closed" (serializers.py:452): until two
\* answers overlap no later write takes a negotiation out of ACCEPTED, also
\* when answers die halfway.  Answers that overlap do reopen it: bulk_update
\* (models.py:503) saves a copy that was read before the acceptance.
AcceptedIsFinal ==
    [][~ overlapped' /\ row # NoRow /\ row.status = "ACCEPTED"
        => row'.status = "ACCEPTED"]_chatsVars

\* The properties of the other modules, under their names and as explained
\* there, those of the check-then-insert ones for requests that come one
\* after the other.
OneRoom == ~ overlapped => R!OneRoom
EditsAreFlagged == M!EditsAreFlagged
NothingUndone == M!NothingUndone
ReadWasServed == M!ReadWasServed
StaffRepliesAssigned == T!StaffRepliesAssigned
AssignmentKept == T!AssignmentKept
SeenIsSaved == N!SeenIsSaved
OneEndorsement == ~ overlapped => E!OneEndorsement
=============================================================================
