---------------------------- MODULE Notifications ----------------------------
(***************************************************************************)
(* Notifications to one user (apps/notification): broadcast_notification   *)
(* sends an event to the user's group, each open websocket's consumer      *)
(* saves a row for it and then forwards it to its client.  There is no row *)
(* when no websocket is open, and one per websocket otherwise.             *)
(*                                                                         *)
(* Left out: reading the list (it raises on obj.user as soon as there is a *)
(* row to show) and deleting (delete passes update_fields as a string,     *)
(* which raises before anything is saved).                                 *)
(*                                                                         *)
(* An operator marked "faulty" stands for a plausible bug: only the mutant *)
(* runs use it, in the place of the definition that follows it.            *)
(***************************************************************************)
EXTENDS Naturals, FiniteSets

CONSTANTS
    Sockets,  \* websockets of the user (a bound)
    Alerts    \* events that are broadcast (a bound)

VARIABLES
    open,      \* sockets that are in the user's group
    handling,  \* handling[s] : the events in s's channel, by what is done
    sent,      \* alerts that were broadcast
    row,       \* row[<<s, e>>] : the Notification s saved for e, or "none"
    shown      \* pairs <<socket, event>> its client has been sent

vars == <<open, handling, sent, row, shown>>

Stages == {"none", "queued", "saved"}

Init ==
    /\ open = {}
    /\ handling = [s \in Sockets |-> [e \in Alerts |-> "none"]]
    /\ sent = {}
    /\ row = [d \in Sockets \X Alerts |-> "none"]
    /\ shown = {}

Connect(s) ==
    /\ s \notin open
    /\ open' = open \cup {s}
    /\ UNCHANGED <<handling, sent, row, shown>>

\* group_discard; what is still in the channel is lost.
Disconnect(s) ==
    /\ s \in open
    /\ open' = open \ {s}
    /\ handling' = [handling EXCEPT ![s] = [e \in Alerts |-> "none"]]
    /\ UNCHANGED <<sent, row, shown>>

\* booking_notifications, booking_payment_notification: one group_send.
Broadcast(e) ==
    /\ e \notin sent
    /\ sent' = sent \cup {e}
    /\ handling' = [s \in Sockets |->
            IF s \in open THEN [handling[s] EXCEPT ![e] = "queued"] ELSE handling[s]]
    /\ UNCHANGED <<open, row, shown>>

\* A consumer handles one event after the other.
Free(s) == \A e \in Alerts : handling[s][e] # "saved"

\* create_notification: the row in an atomic block of its own.
SaveNotification(s, e) ==
    /\ Free(s)
    /\ handling[s][e] = "queued"
    /\ handling' = [handling EXCEPT ![s][e] = "saved"]
    /\ row' = [row EXCEPT ![<<s, e>>] = "unread"]
    /\ UNCHANGED <<open, sent, shown>>

\* Saving raises: the handler ends, and the consumer with it.
SaveRaises(s, e) ==
    /\ Free(s)
    /\ handling[s][e] = "queued"
    /\ open' = open \ {s}
    /\ handling' = [handling EXCEPT ![s] = [f \in Alerts |-> "none"]]
    /\ UNCHANGED <<sent, row, shown>>

\* Faulty: the client is told before the row is there.
ForwardableEarly(stage) == stage \in {"queued", "saved"}

Forwardable(stage) == stage = "saved"

Forward(s, e) ==
    /\ Forwardable(handling[s][e])
    /\ handling' = [handling EXCEPT ![s][e] = "none"]
    /\ shown' = shown \cup {<<s, e>>}
    /\ UNCHANGED <<open, sent, row>>

\* POST /notifications/{id}/mark-read
MarkRead(d) ==
    /\ row[d] # "none"
    /\ row' = [row EXCEPT ![d] = "read"]
    /\ UNCHANGED <<open, handling, sent, shown>>

Next ==
    \/ \E s \in Sockets : Connect(s) \/ Disconnect(s)
    \/ \E e \in Alerts : Broadcast(e)
    \/ \E s \in Sockets, e \in Alerts :
          \/ SaveNotification(s, e)
          \/ SaveRaises(s, e)
          \/ Forward(s, e)
    \/ \E d \in Sockets \X Alerts : MarkRead(d)

Spec == Init /\ [][Next]_vars

-----------------------------------------------------------------------------

\* Every variable keeps the shape the channel layer and the table give it.
TypeOK ==
    /\ open \subseteq Sockets
    /\ handling \in [Sockets -> [Alerts -> Stages]]
    /\ sent \subseteq Alerts
    /\ row \in [Sockets \X Alerts -> {"none", "unread", "read"}]
    /\ shown \subseteq Sockets \X Alerts

\* A client that was shown an event finds its notification among the saved
\* ones (consumers.py:33 awaits the save before :37 sends), however sockets
\* come and go and saves fail meanwhile.
SeenIsSaved == \A d \in shown : row[d] # "none"
=============================================================================
