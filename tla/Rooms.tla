-------------------------------- MODULE Rooms --------------------------------
(***************************************************************************)
(* Opening conversations (apps/chats): POST /conversations/ looks for a    *)
(* row between the two users in either order and then inserts one; the     *)
(* database's unique constraint knows only the order of the columns.       *)
(* The two statements share a transaction, but at READ COMMITTED another   *)
(* request's insert may come between them.                                 *)
(*                                                                         *)
(* The check inside Conversation.clean never runs: it asks for pk = None,  *)
(* and a UUID key is there from the start.                                 *)
(***************************************************************************)
EXTENDS FiniteSets

CONSTANTS
    Users,     \* verified, active users
    Requests   \* slots for POSTs in flight (bounds the overlap)

VARIABLES
    conversation,  \* the rows, as pairs <<participant_one, participant_two>>
    request        \* request[r] : where POST r is

vars == <<conversation, request>>

Pair == Users \X Users

Idle == [at |-> "idle"]

Checked == [at : {"checked"}, pair : Pair]

Init == conversation = {} /\ request = [r \in Requests |-> Idle]

Swap(pair) == <<pair[2], pair[1]>>

\* Faulty: the other order forgotten.
ExistingSameOrder(pair) == pair \in conversation

\* ConversationCreateSerializer.validate looks at both orders.
Existing(pair) == pair \in conversation \/ Swap(pair) \in conversation

CreateValidate(r, pair) ==
    /\ request[r] = Idle
    /\ pair[1] # pair[2]
    /\ ~ Existing(pair)
    /\ request' = [request EXCEPT ![r] = [at |-> "checked", pair |-> pair]]
    /\ UNCHANGED conversation

\* unique_conversation_participants: this order only.
Violates(pair) == pair \in conversation

\* create_conversation; a violated constraint is "Failed to create".
CreateInsert(r) ==
    LET pair == request[r].pair IN
    /\ request[r].at = "checked"
    /\ conversation' = IF Violates(pair) THEN conversation ELSE conversation \cup {pair}
    /\ request' = [request EXCEPT ![r] = Idle]

Next ==
    \E r \in Requests :
        \/ \E pair \in Pair : CreateValidate(r, pair)
        \/ CreateInsert(r)

Spec == Init /\ [][Next]_vars

-----------------------------------------------------------------------------

\* Every variable keeps the shape the database and the threads give it.
TypeOK ==
    /\ conversation \subseteq Pair
    /\ request \in [Requests -> {Idle} \cup Checked]

\* "Prevents duplicate conversations between same users" (models.py:31):
\* no two users share two rooms, one in each order.
OneRoom == \A pair \in conversation : Swap(pair) \notin conversation
=============================================================================
