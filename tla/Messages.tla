------------------------------ MODULE Messages ------------------------------
(***************************************************************************)
(* The messages of one conversation (apps/chats): the two participants     *)
(* post, edit, delete and list them.  Every statement commits by itself;   *)
(* an edit or a deletion works on the copy it has read.                    *)
(*                                                                         *)
(* Left out: the conversation's updated_at (every save of a message writes *)
(* it, nothing here reads it), support rooms (no code creates one) and the *)
(* chat websocket, which forwards rows and changes none.                   *)
(*                                                                         *)
(* An operator marked "faulty" stands for a plausible bug: only the mutant *)
(* runs use it, in the place of the definition that follows it.            *)
(***************************************************************************)
EXTENDS Integers, Sequences, FiniteSets

CONSTANTS
    People,       \* the two participants
    MaxMessages,  \* bound on the rows
    PageSize,     \* of ConversationPagination (20 there)
    Pages,        \* page numbers that clients ask for
    Requests      \* slots for requests in flight (bounds the overlap)

VARIABLES
    message,   \* the rows, oldest first
    request,   \* request[r] : where request r is, and the copy it works on
    served,    \* indices of messages that a response has shown the recipient
    cut        \* people whose request died or got an error page (history)

vars == <<message, request, served, cut>>

-----------------------------------------------------------------------------

\* Of the content only whether it is another one than was posted.
Message ==
    [sender : People, changed : BOOLEAN,
     is_read : BOOLEAN, is_active : BOOLEAN, is_edited : BOOLEAN]

Idle == [at |-> "idle"]

Editing ==
    [at : {"editing"}, id : 1 .. MaxMessages, copy : Message] \cup
    [at : {"flagged"}, id : 1 .. MaxMessages]

\* Of its copy a deletion uses only is_active.
Deleting == [at : {"deleting"}, id : 1 .. MaxMessages, was_active : BOOLEAN]

Listing == [at : {"listing"}, user : People, page : Pages]

Init ==
    /\ message = <<>>
    /\ request = [r \in Requests |-> Idle]
    /\ served = {}
    /\ cut = {}

Finish(r) == request' = [request EXCEPT ![r] = Idle]

-----------------------------------------------------------------------------
(* POST /conversations/{id}/messages                                       *)

Post(r, user) ==
    /\ request[r] = Idle
    /\ Len(message) < MaxMessages
    /\ message' = Append(message,
            [sender |-> user, changed |-> FALSE, is_read |-> FALSE,
             is_active |-> TRUE, is_edited |-> FALSE])
    /\ UNCHANGED <<request, served, cut>>

-----------------------------------------------------------------------------
(* PATCH of a message, by its sender; deleted ones can still be edited.    *)

EditRead(r, i) ==
    /\ request[r] = Idle
    /\ request' = [request EXCEPT ![r] =
            [at |-> "editing", id |-> i, copy |-> message[i]]]
    /\ UNCHANGED <<message, served, cut>>

\* Faulty: a save without update_fields.
SaveFlagWhole(row, copy) == [copy EXCEPT !.is_edited = TRUE]

\* update_message_content saves is_edited and edited_at, nothing else.
SaveFlag(row, copy) == [row EXCEPT !.is_edited = TRUE]

EditFlag(r) ==
    LET me == request[r] IN
    /\ me.at = "editing"
    /\ message' = [message EXCEPT ![me.id] = SaveFlag(@, me.copy)]
    /\ request' = [request EXCEPT ![r] = [at |-> "flagged", id |-> me.id]]
    /\ UNCHANGED <<served, cut>>

\* Faulty: the content is saved before the flag.
ContentDueEarly(at) == at \in {"editing", "flagged"}

ContentDue(at) == at = "flagged"

\* The second save of update: the content alone.
EditContent(r) ==
    LET me == request[r] IN
    /\ ContentDue(me.at)
    /\ message' = [message EXCEPT ![me.id].changed = TRUE]
    /\ Finish(r)
    /\ UNCHANGED <<served, cut>>

-----------------------------------------------------------------------------
(* DELETE of a message, by its sender                                      *)

DeleteRead(r, i) ==
    /\ request[r] = Idle
    /\ request' = [request EXCEPT ![r] =
            [at |-> "deleting", id |-> i, was_active |-> message[i].is_active]]
    /\ UNCHANGED <<message, served, cut>>

\* soft_delete saves is_active when the copy was still active.
SoftDelete(r) ==
    LET me == request[r] IN
    /\ me.at = "deleting"
    /\ message' = IF me.was_active
                  THEN [message EXCEPT ![me.id].is_active = FALSE]
                  ELSE message
    /\ Finish(r)
    /\ UNCHANGED <<served, cut>>

-----------------------------------------------------------------------------
(* GET /conversations/{id}/messages                                        *)

Received(row, user) == row.sender # user

\* Faulty: the sender's own messages are marked too.
MarkAllAsRead(rows, user) ==
    [i \in DOMAIN rows |-> [rows[i] EXCEPT !.is_read = TRUE]]

\* mark_messages_as_read: one UPDATE, deleted messages included.
MarkAsRead(rows, user) ==
    [i \in DOMAIN rows |->
        IF Received(rows[i], user) THEN [rows[i] EXCEPT !.is_read = TRUE] ELSE rows[i]]

ListMark(r, user, page) ==
    /\ request[r] = Idle
    /\ message' = MarkAsRead(message, user)
    /\ request' = [request EXCEPT ![r] = [at |-> "listing", user |-> user, page |-> page]]
    /\ UNCHANGED <<served, cut>>

\* The page counts active messages from the newest one.
Newer(i) == Cardinality({j \in DOMAIN message : j > i /\ message[j].is_active})

OnPage(i, page) ==
    /\ message[i].is_active
    /\ Newer(i) \div PageSize = page - 1

\* A page without messages is an error, except the first.
ListServe(r) ==
    LET me == request[r]
        shown == {i \in DOMAIN message : OnPage(i, me.page)} IN
    /\ me.at = "listing"
    /\ served' = served \cup {i \in shown : Received(message[i], me.user)}
    /\ cut' = IF shown = {} /\ me.page # 1 THEN cut \cup {me.user} ELSE cut
    /\ Finish(r)
    /\ UNCHANGED message

\* The thread dies: only what was committed stays.
RequestFails(r) ==
    /\ request[r] # Idle
    /\ cut' = IF request[r].at = "listing" THEN cut \cup {request[r].user} ELSE cut
    /\ Finish(r)
    /\ UNCHANGED <<message, served>>

-----------------------------------------------------------------------------

WriteStep(r) ==
    \/ \E user \in People : Post(r, user)
    \/ \E i \in DOMAIN message : EditRead(r, i)
    \/ EditFlag(r)
    \/ EditContent(r)
    \/ \E i \in DOMAIN message : DeleteRead(r, i)
    \/ SoftDelete(r)

ListStep(r) ==
    \/ \E user \in People, page \in Pages : ListMark(r, user, page)
    \/ ListServe(r)

Next == \E r \in Requests : WriteStep(r) \/ ListStep(r) \/ RequestFails(r)

Spec == Init /\ [][Next]_vars

-----------------------------------------------------------------------------

\* Every variable keeps the shape the database and the threads give it.
TypeOK ==
    /\ message \in Seq(Message)
    /\ request \in [Requests -> {Idle} \cup Editing \cup Deleting \cup Listing]
    /\ served \subseteq 1 .. MaxMessages
    /\ cut \subseteq People

\* Nobody sees a changed text that is not marked as edited, whichever edits
\* overlap or die between the two saves of update (serializers.py:176-178).
EditsAreFlagged ==
    \A i \in DOMAIN message : message[i].changed => message[i].is_edited

\* Edits and deletions work on stale copies (views.py:289) but never undo
\* what came in between: a deleted message stays deleted, a read one read.
NothingUndone ==
    [][\A i \in DOMAIN message :
        /\ ~ message[i].is_active => ~ message'[i].is_active
        /\ message[i].is_read => message'[i].is_read]_vars

\* Listing marks first and fetches afterwards (views.py:174-177), so a
\* message that arrives in between is not marked as read unseen: what is
\* marked and still there has been shown to its recipient, while the rows
\* fit on the page asked for and no listing of theirs was cut short.
ReadWasServed ==
    \A i \in DOMAIN message :
        (message[i].is_read /\ message[i].is_active
            /\ \A user \in People \ {message[i].sender} :
                 /\ user \notin cut
                 /\ \A r \in Requests : request[r].at = "listing" => request[r].user # user)
        => i \in served
=============================================================================
