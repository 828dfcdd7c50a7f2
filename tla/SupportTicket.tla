---------------------------- MODULE SupportTicket ----------------------------
(***************************************************************************)
(* One support ticket (apps/admin): a customer opens it with three         *)
(* separate commits, admins assign it and change its status on copies that *)
(* they save whole, and both sides reply in its conversation.              *)
(*                                                                         *)
(* Any status may follow any other, and a reply does not look at the       *)
(* status.  Left out: reading the conversation, which only sets is_read.   *)
(*                                                                         *)
(* An operator marked "faulty" stands for a plausible bug: only the mutant *)
(* runs use it, in the place of the definition that follows it.            *)
(***************************************************************************)
EXTENDS Naturals

CONSTANTS
    Admins,      \* staff users
    NoAdmin,     \* Support.admin is null
    Customer,    \* who opens the ticket
    MaxReplies,  \* bound on the messages
    Requests     \* slots for requests in flight (bounds the overlap)

VARIABLES
    ticket,    \* the Support row
    room,      \* "none" or "open": the SupportConversation row
    reply,     \* the SupportMessage rows, by number
    request,   \* request[r]  : where request r is, and the copy it works on
    assigned   \* who has been assigned so far (history)

vars == <<ticket, room, reply, request, assigned>>

-----------------------------------------------------------------------------

Statuses == {"open", "resolved", "critical", "closed"}

Ticket ==
    [status : Statuses, admin : Admins \cup {NoAdmin},
     resolved_at : BOOLEAN, closed_at : BOOLEAN]

NoTicket == [status |-> "Absent"]

Message == [sender : Admins \cup {Customer}, is_staff : BOOLEAN]

NoMessage == [sender |-> NoAdmin, is_staff |-> FALSE]

Idle == [at |-> "idle"]

Opening == [at : {"ticket", "room"}]

Assigning == [at : {"assigning"}, copy : Ticket, admin : Admins]

Reviewing == [at : {"reviewing"}, copy : Ticket, status : Statuses]

Replying ==
    [at : {"replying"}, sender : Admins \cup {Customer}, is_staff : BOOLEAN,
     admin : Admins \cup {NoAdmin}]

Init ==
    /\ ticket = NoTicket
    /\ room = "none"
    /\ reply = [n \in 1 .. MaxReplies |-> NoMessage]
    /\ request = [r \in Requests |-> Idle]
    /\ assigned = {}

Finish(r) == request' = [request EXCEPT ![r] = Idle]

Unused == {n \in 1 .. MaxReplies : reply[n] = NoMessage}

Insert(m) ==
    \E n \in Unused :
        /\ \A k \in Unused : n <= k
        /\ reply' = [reply EXCEPT ![n] = m]

-----------------------------------------------------------------------------
(* OpenTicketSerializer.create: ticket, conversation and first message     *)

OpenTicket(r) ==
    /\ request[r] = Idle
    /\ ticket = NoTicket
    /\ ticket' = [status |-> "open", admin |-> NoAdmin,
                  resolved_at |-> FALSE, closed_at |-> FALSE]
    /\ request' = [request EXCEPT ![r] = [at |-> "ticket"]]
    /\ UNCHANGED <<room, reply, assigned>>

OpenRoom(r) ==
    /\ request[r].at = "ticket"
    /\ room' = "open"
    /\ request' = [request EXCEPT ![r] = [at |-> "room"]]
    /\ UNCHANGED <<ticket, reply, assigned>>

OpenMessage(r) ==
    /\ request[r].at = "room"
    /\ Insert([sender |-> Customer, is_staff |-> FALSE])
    /\ Finish(r)
    /\ UNCHANGED <<ticket, room, assigned>>

-----------------------------------------------------------------------------
(* PATCH /supports/{id}/assign and /supports/{id}/<status>                 *)

AssignRead(r, admin) ==
    /\ request[r] = Idle
    /\ ticket # NoTicket
    /\ request' = [request EXCEPT ![r] =
            [at |-> "assigning", copy |-> ticket, admin |-> admin]]
    /\ UNCHANGED <<ticket, room, reply, assigned>>

AssignSave(r) ==
    LET me == request[r] IN
    /\ me.at = "assigning"
    /\ ticket' = [me.copy EXCEPT !.admin = me.admin]
    /\ assigned' = assigned \cup {me.admin}
    /\ Finish(r)
    /\ UNCHANGED <<room, reply>>

ReviewRead(r, status) ==
    /\ request[r] = Idle
    /\ ticket # NoTicket
    /\ status # "open"
    /\ request' = [request EXCEPT ![r] =
            [at |-> "reviewing", copy |-> ticket, status |-> status]]
    /\ UNCHANGED <<ticket, room, reply, assigned>>

\* Faulty: a review is written as if nobody had the ticket.
ReviewedAnew(copy, status) ==
    [copy EXCEPT !.status = status, !.admin = NoAdmin,
                 !.resolved_at = @ \/ status = "resolved",
                 !.closed_at = @ \/ status = "closed"]

Reviewed(copy, status) ==
    [copy EXCEPT !.status = status,
                 !.resolved_at = @ \/ status = "resolved",
                 !.closed_at = @ \/ status = "closed"]

ReviewSave(r) ==
    LET me == request[r] IN
    /\ me.at = "reviewing"
    /\ ticket' = Reviewed(me.copy, me.status)
    /\ Finish(r)
    /\ UNCHANGED <<room, reply, assigned>>

-----------------------------------------------------------------------------
(* POST /conversations/{id}/reply: the sender says whether it is a staff   *)
(* message; the ticket's admin was loaded with the conversation.           *)

ReplyRead(r, sender, is_staff) ==
    /\ request[r] = Idle
    /\ room = "open"
    /\ request' = [request EXCEPT ![r] =
            [at |-> "replying", sender |-> sender, is_staff |-> is_staff,
             admin |-> ticket.admin]]
    /\ UNCHANGED <<ticket, room, reply, assigned>>

\* Faulty: any staff user may answer.
StaffMay(me) == me.is_staff => me.sender \in Admins

\* "You are not the one assign to this room"
MayReply(me) == me.is_staff => me.sender = me.admin

ReplySave(r) ==
    LET me == request[r] IN
    /\ me.at = "replying"
    /\ IF MayReply(me)
       THEN Insert([sender |-> me.sender, is_staff |-> me.is_staff])
       ELSE UNCHANGED reply
    /\ Finish(r)
    /\ UNCHANGED <<ticket, room, assigned>>

-----------------------------------------------------------------------------

\* The thread dies or a statement raises: the error is turned into a 400,
\* the rows committed before it stay.
RequestFails(r) ==
    /\ request[r] # Idle
    /\ Finish(r)
    /\ UNCHANGED <<ticket, room, reply, assigned>>

AdminStep(r) ==
    \/ \E admin \in Admins : AssignRead(r, admin)
    \/ AssignSave(r)
    \/ \E status \in Statuses : ReviewRead(r, status)
    \/ ReviewSave(r)

ReplyStep(r) ==
    \/ \E sender \in Admins \cup {Customer}, is_staff \in BOOLEAN :
          ReplyRead(r, sender, is_staff)
    \/ ReplySave(r)

Next ==
    \E r \in Requests :
        \/ OpenTicket(r) \/ OpenRoom(r) \/ OpenMessage(r)
        \/ AdminStep(r)
        \/ ReplyStep(r)
        \/ RequestFails(r)

Spec == Init /\ [][Next]_vars

-----------------------------------------------------------------------------

\* Every variable keeps the shape the database and the threads give it.
TypeOK ==
    /\ ticket \in {NoTicket} \cup Ticket
    /\ room \in {"none", "open"}
    /\ reply \in [1 .. MaxReplies -> {NoMessage} \cup Message]
    /\ request \in [Requests ->
            {Idle} \cup Opening \cup Assigning \cup Reviewing \cup Replying]
    /\ assigned \subseteq Admins

\* A message marked as staff comes from an admin who had been given this
\* ticket (serializers.py:100), although the check reads a copy and the
\* ticket may be reassigned, or an assignment undone, while it is written.
StaffRepliesAssigned ==
    \A n \in 1 .. MaxReplies : reply[n].is_staff => reply[n].sender \in assigned

\* A ticket in an admin's hands is not taken away by a status change: only
\* an admin request that read the ticket before it was assigned, and saves
\* that copy whole (views.py:90), can undo an assignment.
AssignmentKept ==
    [][ /\ ticket # NoTicket
        /\ ticket.admin # NoAdmin
        /\ \A r \in Requests : request[r].at \in {"assigning", "reviewing"}
                              => request[r].copy.admin # NoAdmin
        => ticket'.admin # NoAdmin]_vars
=============================================================================
