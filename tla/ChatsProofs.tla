---------------------------- MODULE ChatsProofs ----------------------------
(***************************************************************************)
(* What the modules that Chats puts side by side guarantee for every value *)
(* of their constants: any number of people, messages, requests in flight, *)
(* websockets and primary keys.                                            *)
(***************************************************************************)
EXTENDS Chats, NegotiationProofs, FiniteSetTheorems

(***************************************************************************)
(* A behaviour of Chats is one of each module, so what a module keeps by   *)
(* itself is kept here.                                                    *)
(***************************************************************************)
LEMMA OnePartMoves ==
    [ChatsNext]_chatsVars =>
        /\ [Next]_vars /\ [R!Next]_(R!vars) /\ [M!Next]_(M!vars)
        /\ [T!Next]_(T!vars) /\ [N!Next]_(N!vars) /\ [E!Next]_(E!vars)
<1> DEFINE Kept(p) == \A q \in Parts \ {p} : Frozen(q)
<1>1. \A p \in Parts : Kept(p) =>
        /\ p # "answers" => UNCHANGED vars
        /\ p # "rooms" => UNCHANGED R!vars
        /\ p # "messages" => UNCHANGED M!vars
        /\ p # "ticket" => UNCHANGED T!vars
        /\ p # "sockets" => UNCHANGED N!vars
        /\ p # "praise" => UNCHANGED E!vars
  BY DEF Parts, Frozen, R!vars, M!vars, T!vars, N!vars, E!vars
<1>2. \A p : Only(p) => Kept(p)
  BY DEF Only
<1> HIDE DEF Kept
<1>3. CASE UNCHANGED chatsVars
  BY <1>3 DEF chatsVars
<1>4. CASE ChatsNext
  BY <1>1, <1>2, <1>4 DEF ChatsNext, Parts
<1>5. QED
  BY <1>3, <1>4

\* Before two requests have been in flight at once, none are.
LEMMA NoOverlapYet ==
    /\ ChatsInit => overlapped = FALSE
    /\ [ChatsNext]_chatsVars /\ ~ overlapped' => ~ overlapped
    /\ [ChatsNext]_chatsVars /\ ~ overlapped' /\ ~ Overlap => ~ Overlap'
<1>1. ChatsInit => overlapped = FALSE
  BY DEF ChatsInit
<1>2. CASE ChatsNext
  BY <1>1, <1>2 DEF ChatsNext
<1>3. CASE UNCHANGED chatsVars
  BY <1>1, <1>3
     DEF chatsVars, vars, R!vars, M!vars, T!vars, N!vars, E!vars, Overlap, AtOnce
<1>4. QED
  BY <1>1, <1>2, <1>3

LEMMA EachPart ==
    ChatsSpec => Spec /\ R!Spec /\ M!Spec /\ T!Spec /\ N!Spec /\ E!Spec
<1>1. ChatsInit => Init /\ R!Init /\ M!Init /\ T!Init /\ N!Init /\ E!Init
  BY DEF ChatsInit
<1>2. QED
  BY <1>1, OnePartMoves, PTL DEF ChatsSpec, Spec, R!Spec, M!Spec, T!Spec, N!Spec, E!Spec

-----------------------------------------------------------------------------
(* Negotiations                                                            *)

\* "Negotiation already accepted and closed" (chats/serializers.py:452):
\* until two answers overlap, an accepted negotiation stays accepted, also
\* when threads die halfway.
THEOREM AcceptedForGood == ChatsSpec => AcceptedIsFinal
<1> DEFINE Inv == TypeOK /\ OpenedFirst /\ (~ overlapped => CopiesAreFresh /\ ~ Overlap)
<1>1. ChatsInit => Inv
  <2> SUFFICES ASSUME ChatsInit PROVE Inv
    OBVIOUS
  <2>1. Init /\ R!Init /\ E!Init
    BY DEF ChatsInit
  <2>2. TypeOK /\ OpenedFirst /\ CopiesAreFresh
    BY <2>1, TypeInit DEF Init, OpenedFirst, Quiet, CopiesAreFresh, Idle
  <2>3. ~ Overlap
    BY <2>1 DEF Init, Idle, R!Init, R!Idle, E!Init, E!Idle, Overlap, AtOnce
  <2>4. QED
    BY <2>2, <2>3
<1>2. Inv /\ [ChatsNext]_chatsVars => Inv'
  <2> SUFFICES ASSUME Inv, [ChatsNext]_chatsVars PROVE Inv'
    OBVIOUS
  <2>1. TypeOK' /\ OpenedFirst'
    BY OnePartMoves, TypeStep
  <2>2. ASSUME ~ overlapped' PROVE CopiesAreFresh' /\ ~ Overlap'
    <3>1. CopiesAreFresh /\ ~ Overlap /\ ~ Overlap'
      BY <2>2, NoOverlapYet
    <3>2. OneAtATime /\ OneAtATime'
      BY <3>1 DEF Overlap, AtOnce, OneAtATime
    <3>3. QED
      BY <3>1, <3>2, OnePartMoves, FreshStep
  <2>3. QED
    BY <2>1, <2>2
<1>3. Inv /\ [ChatsNext]_chatsVars
        => [~ overlapped' /\ row # NoRow /\ row.status = "ACCEPTED"
              => row'.status = "ACCEPTED"]_chatsVars
  <2> SUFFICES ASSUME Inv, [ChatsNext]_chatsVars, ~ overlapped', row # NoRow,
                      row.status = "ACCEPTED"
               PROVE  row'.status = "ACCEPTED"
    OBVIOUS
  <2>1. CopiesAreFresh
    BY NoOverlapYet
  <2>2. QED
    BY <2>1, OnePartMoves, AcceptedStep
<1> HIDE DEF Inv
<1>4. QED
  BY <1>1, <1>2, <1>3, PTL DEF ChatsSpec, AcceptedIsFinal

-----------------------------------------------------------------------------
(* Rooms                                                                   *)

LEMMA RoomsTypes == R!TypeOK /\ [R!Next]_(R!vars) => R!TypeOK'
<1> SUFFICES ASSUME R!TypeOK, [R!Next]_(R!vars) PROVE R!TypeOK'
  OBVIOUS
<1>1. ASSUME NEW r \in Requests, NEW pair \in R!Pair, R!CreateValidate(r, pair)
      PROVE  R!TypeOK'
  BY <1>1 DEF R!CreateValidate, R!TypeOK, R!Checked
<1>2. ASSUME NEW r \in Requests, R!CreateInsert(r)
      PROVE  R!TypeOK'
  <2>1. opening[r].pair \in R!Pair
    BY <1>2 DEF R!CreateInsert, R!TypeOK, R!Checked, R!Idle
  <2>2. QED
    BY <1>2, <2>1 DEF R!CreateInsert, R!TypeOK
<1>3. CASE UNCHANGED R!vars
  BY <1>3 DEF R!vars, R!TypeOK
<1>4. QED
  BY <1>1, <1>2, <1>3 DEF R!Next

\* The pair of a request that has passed the check is still without a room,
\* in both orders.
PairIsFree ==
    \A r \in Requests : opening[r].at = "checked" =>
        /\ opening[r].pair[1] # opening[r].pair[2]
        /\ ~ R!Existing(opening[r].pair)

RoomsInv == R!TypeOK /\ PairIsFree /\ R!OneRoom

LEMMA RoomsStep ==
    ASSUME RoomsInv, [R!Next]_(R!vars), ~ AtOnce(opening), ~ AtOnce(opening)'
    PROVE  PairIsFree' /\ R!OneRoom'
<1> USE DEF RoomsInv, AtOnce
<1>1. ASSUME NEW r \in Requests, NEW pair \in R!Pair, R!CreateValidate(r, pair)
      PROVE  PairIsFree' /\ R!OneRoom'
  BY <1>1
     DEF R!CreateValidate, R!TypeOK, R!Checked, R!Idle, R!Existing, PairIsFree,
         R!OneRoom
<1>2. ASSUME NEW r \in Requests, R!CreateInsert(r)
      PROVE  PairIsFree' /\ R!OneRoom'
  <2>1. /\ opening[r].pair \in R!Pair
        /\ R!Swap(opening[r].pair) # opening[r].pair
    BY <1>2 DEF R!CreateInsert, R!TypeOK, R!Checked, R!Idle, R!Pair, R!Swap, PairIsFree
  <2>2. PairIsFree'
    <3>1. opening[r].at = "checked" /\ opening'[r] = R!Idle
          /\ \A s \in Requests : s # r => opening'[s] = opening[s]
      BY <1>2 DEF R!CreateInsert, R!TypeOK
    <3>2. QED
      BY <3>1 DEF PairIsFree, R!Idle
  <2>3. \A pair \in R!Pair : R!Swap(R!Swap(pair)) = pair
    BY DEF R!Pair, R!Swap
  <2>4. R!OneRoom'
    BY <1>2, <2>1, <2>3
       DEF R!CreateInsert, R!TypeOK, R!Violates, R!Existing, PairIsFree, R!OneRoom
  <2>5. QED
    BY <2>2, <2>4
<1>3. CASE UNCHANGED R!vars
  BY <1>3 DEF R!vars, R!Existing, PairIsFree, R!OneRoom
<1>4. QED
  BY <1>1, <1>2, <1>3 DEF R!Next

\* "Prevents duplicate conversations between same users" (chats/models.py:31):
\* until two POSTs overlap, no two users get a second room.
THEOREM OneRoomEach == ChatsSpec => []OneRoom
<1> DEFINE Inv == ~ overlapped => RoomsInv /\ ~ Overlap
<1>1. ChatsInit => Inv
  BY DEF ChatsInit, RoomsInv, R!Init, R!TypeOK, PairIsFree, R!OneRoom, R!Idle, Init, Idle,
         E!Init, E!Idle, Overlap, AtOnce
<1>2. Inv /\ [ChatsNext]_chatsVars => Inv'
  <2> SUFFICES ASSUME Inv, [ChatsNext]_chatsVars, ~ overlapped'
               PROVE  RoomsInv' /\ ~ Overlap'
    OBVIOUS
  <2>1. RoomsInv /\ ~ Overlap /\ ~ Overlap'
    BY NoOverlapYet
  <2>2. QED
    BY <2>1, OnePartMoves, RoomsTypes, RoomsStep DEF RoomsInv, Overlap
<1>3. Inv => OneRoom
  BY DEF OneRoom, RoomsInv
<1> HIDE DEF Inv
<1>4. QED
  BY <1>1, <1>2, <1>3, PTL DEF ChatsSpec

-----------------------------------------------------------------------------
(* Notifications                                                           *)

\* What a consumer is about to forward has its row.
SavedHasRow ==
    \A s \in Sockets, e \in Alerts :
        handling[s][e] = "saved" => notification[<<s, e>>] # "none"

SocketsInv == N!TypeOK /\ SavedHasRow /\ SeenIsSaved

LEMMA SocketsInvariant == N!Spec => []SocketsInv
<1> USE DEF SocketsInv, SeenIsSaved, N!SeenIsSaved, SavedHasRow, N!Stages
<1>1. N!Init => SocketsInv
  BY DEF N!Init, N!TypeOK
<1>2. SocketsInv /\ [N!Next]_(N!vars) => SocketsInv'
  <2> SUFFICES ASSUME SocketsInv, [N!Next]_(N!vars) PROVE SocketsInv'
    OBVIOUS
  <2>1. ASSUME NEW s \in Sockets, N!Connect(s)
        PROVE  SocketsInv'
    BY <2>1 DEF N!Connect, N!TypeOK
  <2>2. ASSUME NEW s \in Sockets, N!Disconnect(s)
        PROVE  SocketsInv'
    BY <2>2 DEF N!Disconnect, N!TypeOK
  <2>3. ASSUME NEW e \in Alerts, N!Broadcast(e)
        PROVE  SocketsInv'
    BY <2>3 DEF N!Broadcast, N!TypeOK
  <2>4. ASSUME NEW s \in Sockets, NEW e \in Alerts, N!SaveNotification(s, e)
        PROVE  SocketsInv'
    BY <2>4 DEF N!SaveNotification, N!TypeOK
  <2>5. ASSUME NEW s \in Sockets, NEW e \in Alerts, N!SaveRaises(s, e)
        PROVE  SocketsInv'
    BY <2>5 DEF N!SaveRaises, N!TypeOK
  <2>6. ASSUME NEW s \in Sockets, NEW e \in Alerts, N!Forward(s, e)
        PROVE  SocketsInv'
    BY <2>6 DEF N!Forward, N!Forwardable, N!TypeOK
  <2>7. ASSUME NEW d \in Sockets \X Alerts, N!MarkRead(d)
        PROVE  SocketsInv'
    BY <2>7 DEF N!MarkRead, N!TypeOK
  <2>8. CASE UNCHANGED N!vars
    BY <2>8 DEF N!vars, N!TypeOK
  <2>9. QED
    BY <2>1, <2>2, <2>3, <2>4, <2>5, <2>6, <2>7, <2>8 DEF N!Next
<1>3. QED
  BY <1>1, <1>2, PTL DEF N!Spec

\* Whatever sockets come and go and whichever saves fail, a client finds every
\* event it was shown among the saved ones (notification/consumers.py:33).
THEOREM SeenAlwaysSaved == ChatsSpec => []SeenIsSaved
<1>1. SocketsInv => SeenIsSaved
  BY DEF SocketsInv
<1>2. QED
  BY <1>1, SocketsInvariant, EachPart, PTL

-----------------------------------------------------------------------------
(* Endorsements                                                            *)

LEMMA PraiseTypes == E!TypeOK /\ [E!Next]_(E!vars) => E!TypeOK'
<1> SUFFICES ASSUME E!TypeOK, [E!Next]_(E!vars) PROVE E!TypeOK'
  OBVIOUS
<1>1. ASSUME NEW r \in Requests, NEW user \in Endorsers, NEW provider \in Providers,
             E!CreateValidate(r, user, provider)
      PROVE  E!TypeOK'
  BY <1>1 DEF E!CreateValidate, E!TypeOK, E!Validated
<1>2. ASSUME NEW r \in Requests, NEW i \in EndorsementIds, NEW provider \in Providers,
             E!UpdateValidate(r, i, provider)
      PROVE  E!TypeOK'
  BY <1>2 DEF E!UpdateValidate, E!TypeOK, E!Validated, E!Rows, E!Row
<1>3. ASSUME NEW r \in Requests, E!Save(r)
      PROVE  E!TypeOK'
  BY <1>3 DEF E!Save, E!TypeOK, E!Validated, E!Row
<1>4. ASSUME NEW i \in EndorsementIds, E!Destroy(i)
      PROVE  E!TypeOK'
  BY <1>4 DEF E!Destroy, E!TypeOK
<1>5. CASE UNCHANGED E!vars
  BY <1>5 DEF E!vars, E!TypeOK
<1>6. QED
  BY <1>1, <1>2, <1>3, <1>4, <1>5 DEF E!Next

\* What a validated request is about to save is still missing.
StillMissing ==
    \A r \in Requests :
        endorsing[r] # E!Idle => ~ E!HasEndorsed(endorsing[r].provider, endorsing[r].user)

PraiseInv == E!TypeOK /\ StillMissing /\ E!OneEndorsement

LEMMA PraiseStep ==
    ASSUME PraiseInv, [E!Next]_(E!vars), ~ AtOnce(endorsing), ~ AtOnce(endorsing)'
    PROVE  StillMissing' /\ E!OneEndorsement'
<1>a. \A r \in Requests :
        /\ endorsing[r] # E!Idle <=> endorsing[r].at # "idle"
        /\ endorsing[r] # E!Idle => \A s \in Requests : s # r => endorsing[s] = E!Idle
  BY DEF PraiseInv, E!TypeOK, E!Idle, E!Validated, AtOnce
<1> USE DEF PraiseInv, AtOnce, E!OneEndorsement, StillMissing, E!HasEndorsed, E!Rows
<1>1. ASSUME NEW r \in Requests, NEW user \in Endorsers, NEW provider \in Providers,
             E!CreateValidate(r, user, provider)
      PROVE  StillMissing' /\ E!OneEndorsement'
  BY <1>1 DEF E!CreateValidate, E!TypeOK
<1>2. ASSUME NEW r \in Requests, NEW i \in EndorsementIds, NEW provider \in Providers,
             E!UpdateValidate(r, i, provider)
      PROVE  StillMissing' /\ E!OneEndorsement'
  BY <1>2 DEF E!UpdateValidate, E!TypeOK
<1>3. ASSUME NEW r \in Requests, E!Save(r)
      PROVE  StillMissing' /\ E!OneEndorsement'
  BY <1>a, <1>3 DEF E!Save, E!TypeOK, E!Validated, E!Row, E!NoRow
<1>4. ASSUME NEW i \in EndorsementIds, E!Destroy(i)
      PROVE  StillMissing' /\ E!OneEndorsement'
  BY <1>4 DEF E!Destroy, E!TypeOK
<1>5. CASE UNCHANGED E!vars
  BY <1>5 DEF E!vars
<1>6. QED
  BY <1>1, <1>2, <1>3, <1>4, <1>5 DEF E!Next

\* "You have already endorsed this profile" (chats/endorsements/serializers.py:29):
\* until two validated requests overlap, nobody endorses a provider twice.
THEOREM EndorsedOnce == ChatsSpec => []OneEndorsement
<1> DEFINE Inv == ~ overlapped => PraiseInv /\ ~ Overlap
<1>1. ChatsInit => Inv
  BY DEF ChatsInit, PraiseInv, E!Init, E!TypeOK, StillMissing, E!OneEndorsement, E!HasEndorsed,
         E!Rows, E!Idle, Init, Idle, R!Init, R!Idle, Overlap, AtOnce
<1>2. Inv /\ [ChatsNext]_chatsVars => Inv'
  <2> SUFFICES ASSUME Inv, [ChatsNext]_chatsVars, ~ overlapped'
               PROVE  PraiseInv' /\ ~ Overlap'
    OBVIOUS
  <2>1. PraiseInv /\ ~ Overlap /\ ~ Overlap'
    BY NoOverlapYet
  <2>2. QED
    BY <2>1, OnePartMoves, PraiseTypes, PraiseStep DEF PraiseInv, Overlap
<1>3. Inv => OneEndorsement
  BY DEF OneEndorsement, PraiseInv
<1> HIDE DEF Inv
<1>4. QED
  BY <1>1, <1>2, <1>3, PTL DEF ChatsSpec

-----------------------------------------------------------------------------
(* Messages                                                                *)

\* There are no more rows than the bound, and requests work on some of them.
RowsBounded ==
    /\ Len(message) <= MaxMessages
    /\ \A r \in Requests :
          messaging[r].at \in {"editing", "flagged", "deleting"} => messaging[r].id \in DOMAIN message

\* Between the two saves of an edit the flag is there.
FlagFirst ==
    \A r \in Requests : messaging[r].at = "flagged" => message[messaging[r].id].is_edited

\* What each action does to the rows.
LEMMA MessageUpdates ==
    \A m \in M!Message :
        /\ [m EXCEPT !.is_edited = TRUE] \in M!Message
        /\ [m EXCEPT !.changed = TRUE] \in M!Message
        /\ [m EXCEPT !.is_active = FALSE] \in M!Message
        /\ [m EXCEPT !.is_read = TRUE] \in M!Message
BY DEF M!Message

LEMMA RowUpdated ==
    ASSUME message \in Seq(M!Message), NEW i \in DOMAIN message, NEW m \in M!Message,
           message' = [message EXCEPT ![i] = m]
    PROVE  /\ message' \in Seq(M!Message)
           /\ DOMAIN message' = DOMAIN message
           /\ Len(message') = Len(message)
           /\ message'[i] = m
           /\ \A j \in DOMAIN message : j # i => message'[j] = message[j]
OBVIOUS

LEMMA PostMove ==
    ASSUME M!TypeOK, NEW r, NEW user \in People, M!Post(r, user)
    PROVE  /\ message' \in Seq(M!Message)
           /\ Len(message') = Len(message) + 1
           /\ Len(message') <= MaxMessages
           /\ DOMAIN message' = DOMAIN message \cup {Len(message) + 1}
           /\ \A i \in DOMAIN message : message'[i] = message[i]
           /\ ~ message'[Len(message) + 1].changed
           /\ ~ message'[Len(message) + 1].is_read
<1> DEFINE m == [sender |-> user, changed |-> FALSE, is_read |-> FALSE,
                 is_active |-> TRUE, is_edited |-> FALSE]
<1>1. m \in M!Message /\ ~ m.changed /\ ~ m.is_read
  BY DEF M!Message
<1>2. message' = Append(message, m) /\ Len(message) < MaxMessages /\ message \in Seq(M!Message)
  BY DEF M!Post, M!TypeOK
<1> HIDE DEF m
<1>3. QED
  BY <1>1, <1>2, MessagesAssumption

LEMMA FlagMove ==
    ASSUME M!TypeOK, RowsBounded, NEW r \in Requests, M!EditFlag(r)
    PROVE  /\ message' \in Seq(M!Message)
           /\ DOMAIN message' = DOMAIN message
           /\ Len(message') = Len(message)
           /\ messaging[r].id \in DOMAIN message
           /\ message'[messaging[r].id] = [message[messaging[r].id] EXCEPT !.is_edited = TRUE]
           /\ \A j \in DOMAIN message : j # messaging[r].id => message'[j] = message[j]
<1> DEFINE i == messaging[r].id
           m == [message[i] EXCEPT !.is_edited = TRUE]
<1>1. i \in DOMAIN message /\ message \in Seq(M!Message)
  BY DEF M!EditFlag, M!TypeOK, RowsBounded
<1>2. message[i] \in M!Message
  BY <1>1
<1>3. m \in M!Message
  BY <1>2, MessageUpdates
<1>4. message' = [message EXCEPT ![i] = m]
  BY DEF M!EditFlag, M!SaveFlag
<1> HIDE DEF i, m
<1>5. QED
  BY <1>1, <1>3, <1>4, RowUpdated DEF i, m

LEMMA ContentMove ==
    ASSUME M!TypeOK, RowsBounded, NEW r \in Requests, M!EditContent(r)
    PROVE  /\ message' \in Seq(M!Message)
           /\ DOMAIN message' = DOMAIN message
           /\ Len(message') = Len(message)
           /\ messaging[r].id \in DOMAIN message
           /\ message'[messaging[r].id] = [message[messaging[r].id] EXCEPT !.changed = TRUE]
           /\ \A j \in DOMAIN message : j # messaging[r].id => message'[j] = message[j]
<1> DEFINE i == messaging[r].id
           m == [message[i] EXCEPT !.changed = TRUE]
<1>1. i \in DOMAIN message /\ message \in Seq(M!Message)
  BY DEF M!EditContent, M!ContentDue, M!TypeOK, RowsBounded
<1>2. message[i] \in M!Message
  BY <1>1
<1>3. m \in M!Message
  BY <1>2, MessageUpdates
<1>4. message' = [message EXCEPT ![i] = m]
  BY DEF M!EditContent
<1> HIDE DEF i, m
<1>5. QED
  BY <1>1, <1>3, <1>4, RowUpdated DEF i, m

LEMMA DeleteMove ==
    ASSUME M!TypeOK, RowsBounded, NEW r \in Requests, M!SoftDelete(r)
    PROVE  /\ message' \in Seq(M!Message)
           /\ DOMAIN message' = DOMAIN message
           /\ Len(message') = Len(message)
           /\ \A j \in DOMAIN message :
                 \/ message'[j] = message[j]
                 \/ message'[j] = [message[j] EXCEPT !.is_active = FALSE]
<1> DEFINE i == messaging[r].id
           m == [message[i] EXCEPT !.is_active = FALSE]
<1>1. i \in DOMAIN message /\ message \in Seq(M!Message)
  BY DEF M!SoftDelete, M!TypeOK, RowsBounded
<1>2. message[i] \in M!Message
  BY <1>1
<1>3. m \in M!Message
  BY <1>2, MessageUpdates
<1>4. message' = message \/ message' = [message EXCEPT ![i] = m]
  BY DEF M!SoftDelete
<1>5. CASE message' = message
  BY <1>1, <1>5
<1>6. CASE message' = [message EXCEPT ![i] = m]
  <2> HIDE DEF i, m
  <2>1. /\ message' \in Seq(M!Message)
        /\ DOMAIN message' = DOMAIN message
        /\ Len(message') = Len(message)
        /\ message'[i] = m
        /\ \A j \in DOMAIN message : j # i => message'[j] = message[j]
    BY <1>1, <1>3, <1>6, RowUpdated
  <2>2. m = [message[i] EXCEPT !.is_active = FALSE]
    BY DEF m
  <2>3. QED
    BY <2>1, <2>2
<1>7. QED
  BY <1>4, <1>5, <1>6

LEMMA ListMove ==
    ASSUME M!TypeOK, NEW r, NEW user \in People, NEW page, M!ListMark(r, user, page)
    PROVE  /\ message' \in Seq(M!Message)
           /\ DOMAIN message' = DOMAIN message
           /\ Len(message') = Len(message)
           /\ \A j \in DOMAIN message :
                 message'[j] = IF message[j].sender # user
                               THEN [message[j] EXCEPT !.is_read = TRUE]
                               ELSE message[j]
<1> DEFINE Marked(j) == IF message[j].sender # user
                        THEN [message[j] EXCEPT !.is_read = TRUE]
                        ELSE message[j]
<1>1. message \in Seq(M!Message)
  BY DEF M!TypeOK
<1>2. \A j \in DOMAIN message : Marked(j) \in M!Message
  <2> TAKE j \in DOMAIN message
  <2>1. message[j] \in M!Message
    BY <1>1
  <2>2. [message[j] EXCEPT !.is_read = TRUE] \in M!Message
    BY <2>1, MessageUpdates
  <2>3. QED
    BY <2>1, <2>2
<1>3. message' = [j \in DOMAIN message |-> Marked(j)]
  BY DEF M!ListMark, M!MarkAsRead, M!Received
<1> HIDE DEF Marked
<1>4. /\ message' \in Seq(M!Message)
      /\ DOMAIN message' = DOMAIN message
      /\ Len(message') = Len(message)
      /\ \A j \in DOMAIN message : message'[j] = Marked(j)
  BY <1>1, <1>2, <1>3
<1>5. QED
  BY <1>4 DEF Marked

\* The other actions leave the rows alone.
LEMMA NoMove ==
    ASSUME NEW r,
           \/ \E i \in DOMAIN message : M!EditRead(r, i) \/ M!DeleteRead(r, i)
           \/ M!ListServe(r) \/ M!RequestFails(r)
    PROVE  message' = message
BY DEF M!EditRead, M!DeleteRead, M!ListServe, M!RequestFails

LEMMA MessagesTypes ==
    M!TypeOK /\ RowsBounded /\ [M!Next]_(M!vars) => M!TypeOK' /\ RowsBounded'
<1> SUFFICES ASSUME M!TypeOK, RowsBounded, [M!Next]_(M!vars) PROVE M!TypeOK' /\ RowsBounded'
  OBVIOUS
<1>a. \A i \in DOMAIN message : i \in 1 .. MaxMessages /\ message[i] \in M!Message
  BY MessagesAssumption DEF M!TypeOK, RowsBounded
<1>1. ASSUME NEW r \in Requests, NEW user \in People, M!Post(r, user)
      PROVE  M!TypeOK' /\ RowsBounded'
  BY <1>1, PostMove DEF M!Post, M!TypeOK, RowsBounded
<1>2. ASSUME NEW r \in Requests, NEW i \in DOMAIN message, M!EditRead(r, i)
      PROVE  M!TypeOK' /\ RowsBounded'
  BY <1>2, <1>a DEF M!EditRead, M!TypeOK, M!Editing, RowsBounded
<1>3. ASSUME NEW r \in Requests, M!EditFlag(r)
      PROVE  M!TypeOK' /\ RowsBounded'
  BY <1>3, <1>a, FlagMove DEF M!EditFlag, M!TypeOK, M!Editing, RowsBounded
<1>4. ASSUME NEW r \in Requests, M!EditContent(r)
      PROVE  M!TypeOK' /\ RowsBounded'
  BY <1>4, ContentMove DEF M!EditContent, M!Finish, M!TypeOK, M!Idle, RowsBounded
<1>5. ASSUME NEW r \in Requests, NEW i \in DOMAIN message, M!DeleteRead(r, i)
      PROVE  M!TypeOK' /\ RowsBounded'
  <2>1. message[i].is_active \in BOOLEAN
    BY <1>a DEF M!Message
  <2>2. QED
    BY <1>5, <1>a, <2>1 DEF M!DeleteRead, M!TypeOK, M!Deleting, RowsBounded
<1>6. ASSUME NEW r \in Requests, M!SoftDelete(r)
      PROVE  M!TypeOK' /\ RowsBounded'
  BY <1>6, DeleteMove DEF M!SoftDelete, M!Finish, M!TypeOK, M!Idle, RowsBounded
<1>7. ASSUME NEW r \in Requests, NEW user \in People, NEW page \in Pages,
             M!ListMark(r, user, page)
      PROVE  M!TypeOK' /\ RowsBounded'
  BY <1>7, ListMove DEF M!ListMark, M!TypeOK, M!Listing, RowsBounded
<1>8. ASSUME NEW r \in Requests, M!ListServe(r)
      PROVE  M!TypeOK' /\ RowsBounded'
  <2>1. messaging[r].user \in People
    BY <1>8 DEF M!ListServe, M!TypeOK, M!Idle, M!Listing, M!Editing, M!Deleting
  <2>2. served' \subseteq 1 .. MaxMessages /\ cut' \subseteq People
    BY <1>8, <1>a, <2>1 DEF M!ListServe, M!TypeOK
  <2>3. QED
    BY <1>8, <2>2 DEF M!ListServe, M!Finish, M!TypeOK, M!Idle, RowsBounded
<1>9. ASSUME NEW r \in Requests, M!RequestFails(r)
      PROVE  M!TypeOK' /\ RowsBounded'
  <2>1. messaging[r].at = "listing" => messaging[r].user \in People
    BY DEF M!TypeOK, M!Idle, M!Listing, M!Editing, M!Deleting
  <2>2. QED
    BY <1>9, <2>1 DEF M!RequestFails, M!Finish, M!TypeOK, M!Idle, RowsBounded
<1>10. CASE UNCHANGED M!vars
  BY <1>10 DEF M!vars, M!TypeOK, RowsBounded
<1>11. QED
  BY <1>1, <1>2, <1>3, <1>4, <1>5, <1>6, <1>7, <1>8, <1>9, <1>10
     DEF M!Next, M!WriteStep, M!ListStep

MessagesInv == M!TypeOK /\ RowsBounded /\ FlagFirst /\ EditsAreFlagged

LEMMA MessagesInvariant == M!Spec => []MessagesInv
<1>1. M!Init => MessagesInv
  BY MessagesAssumption
     DEF M!Init, MessagesInv, M!TypeOK, M!Idle, RowsBounded, FlagFirst, EditsAreFlagged,
         M!EditsAreFlagged
<1>2. MessagesInv /\ [M!Next]_(M!vars) => MessagesInv'
  <2> SUFFICES ASSUME MessagesInv, [M!Next]_(M!vars) PROVE FlagFirst' /\ EditsAreFlagged'
    BY MessagesTypes DEF MessagesInv
  <2> USE DEF MessagesInv, FlagFirst, EditsAreFlagged, M!EditsAreFlagged
  <2>a. \A i \in DOMAIN message : message[i] \in M!Message
    BY DEF M!TypeOK
  <2>b. \A m \in M!Message :
          /\ [m EXCEPT !.is_edited = TRUE].is_edited
          /\ [m EXCEPT !.changed = TRUE].is_edited = m.is_edited
          /\ \A f \in {[m EXCEPT !.is_active = FALSE], [m EXCEPT !.is_read = TRUE]} :
                f.changed = m.changed /\ f.is_edited = m.is_edited
    BY DEF M!Message
  <2>1. ASSUME NEW r \in Requests, NEW user \in People, M!Post(r, user)
        PROVE  FlagFirst' /\ EditsAreFlagged'
    BY <2>1, PostMove DEF M!Post, RowsBounded
  <2>2. ASSUME NEW r \in Requests, NEW i \in DOMAIN message, M!EditRead(r, i)
        PROVE  FlagFirst' /\ EditsAreFlagged'
    BY <2>2 DEF M!EditRead, M!TypeOK
  <2>3. ASSUME NEW r \in Requests, M!EditFlag(r)
        PROVE  FlagFirst' /\ EditsAreFlagged'
    <3> DEFINE id == messaging[r].id
    <3>a. /\ id \in DOMAIN message
          /\ message'[id] = [message[id] EXCEPT !.is_edited = TRUE]
          /\ \A j \in DOMAIN message : j # id => message'[j] = message[j]
          /\ DOMAIN message' = DOMAIN message
      BY <2>3, FlagMove
    <3>1. message'[id].is_edited
      <4>1. message[id] \in M!Message
        BY <3>a, <2>a
      <4>2. QED
        BY <4>1, <3>a DEF M!Message
    <3>2. FlagFirst'
      BY <2>3, <3>a, <3>1 DEF M!EditFlag, M!TypeOK, RowsBounded
    <3>3. QED
      BY <3>a, <3>1, <3>2
  <2>4. ASSUME NEW r \in Requests, M!EditContent(r)
        PROVE  FlagFirst' /\ EditsAreFlagged'
    BY <2>4, <2>a, <2>b, ContentMove
       DEF M!EditContent, M!ContentDue, M!Finish, M!TypeOK, M!Idle, RowsBounded
  <2>5. ASSUME NEW r \in Requests, NEW i \in DOMAIN message, M!DeleteRead(r, i)
        PROVE  FlagFirst' /\ EditsAreFlagged'
    BY <2>5 DEF M!DeleteRead, M!TypeOK
  <2>6. ASSUME NEW r \in Requests, M!SoftDelete(r)
        PROVE  FlagFirst' /\ EditsAreFlagged'
    <3>1. \A j \in DOMAIN message :
            message'[j].changed = message[j].changed /\ message'[j].is_edited = message[j].is_edited
      <4>1. \A m \in M!Message :
              /\ [m EXCEPT !.is_active = FALSE].changed = m.changed
              /\ [m EXCEPT !.is_active = FALSE].is_edited = m.is_edited
        BY DEF M!Message
      <4>2. QED
        BY <2>6, <2>a, <4>1, DeleteMove
    <3>2. DOMAIN message' = DOMAIN message
      BY <2>6, DeleteMove
    <3>3. \A s \in Requests : messaging'[s] = messaging[s] \/ messaging'[s] = M!Idle
      BY <2>6 DEF M!SoftDelete, M!Finish, M!TypeOK
    <3>4. EditsAreFlagged'
      BY <3>1, <3>2 DEF EditsAreFlagged, M!EditsAreFlagged
    <3>5. FlagFirst'
      BY <3>1, <3>3 DEF FlagFirst, RowsBounded, M!Idle
    <3>6. QED
      BY <3>4, <3>5
  <2>7. ASSUME NEW r \in Requests, NEW user \in People, NEW page \in Pages,
               M!ListMark(r, user, page)
        PROVE  FlagFirst' /\ EditsAreFlagged'
    <3>1. \A j \in DOMAIN message :
            /\ message'[j].changed = message[j].changed
            /\ message'[j].is_edited = message[j].is_edited
      <4> TAKE j \in DOMAIN message
      <4>1. message'[j] \in {message[j], [message[j] EXCEPT !.is_read = TRUE]}
        BY <2>7, ListMove
      <4>2. message[j] \in M!Message
        BY <2>a
      <4>3. QED
        BY <4>1, <4>2, <2>b
    <3>2. DOMAIN message' = DOMAIN message
      BY <2>7, ListMove
    <3>3. QED
      BY <2>7, <3>1, <3>2 DEF M!ListMark, M!TypeOK, RowsBounded
  <2>8. ASSUME NEW r \in Requests, M!ListServe(r) \/ M!RequestFails(r)
        PROVE  FlagFirst' /\ EditsAreFlagged'
    BY <2>8, NoMove DEF M!ListServe, M!RequestFails, M!Finish, M!TypeOK, M!Idle
  <2>9. CASE UNCHANGED M!vars
    BY <2>9 DEF M!vars
  <2>10. QED
    BY <2>1, <2>2, <2>3, <2>4, <2>5, <2>6, <2>7, <2>8, <2>9
       DEF M!Next, M!WriteStep, M!ListStep
<1>3. QED
  BY <1>1, <1>2, PTL DEF M!Spec

\* Whichever edits overlap or die between the two saves of update
\* (chats/serializers.py:176-178), nobody sees a changed text that is not
\* marked as edited.
THEOREM EditsAlwaysFlagged == ChatsSpec => []EditsAreFlagged
<1>1. MessagesInv => EditsAreFlagged
  BY DEF MessagesInv
<1>2. QED
  BY <1>1, MessagesInvariant, EachPart, PTL

\* Although edits and deletions save stale copies (chats/views.py:289), a
\* deleted message stays deleted and a read one read.
THEOREM NothingEverUndone == ChatsSpec => NothingUndone
<1>1. ASSUME MessagesInv, M!Next, NEW i \in DOMAIN message
      PROVE  /\ ~ message[i].is_active => ~ message'[i].is_active
             /\ message[i].is_read => message'[i].is_read
  <2> USE <1>1 DEF MessagesInv
  <2>a. message[i] \in M!Message
    BY DEF M!TypeOK
  <2>1. ASSUME NEW r \in Requests, NEW user \in People, M!Post(r, user)
        PROVE  message'[i] = message[i]
    BY <2>1, PostMove
  <2>2. ASSUME NEW r \in Requests, M!EditFlag(r)
        PROVE  message'[i] \in {message[i], [message[i] EXCEPT !.is_edited = TRUE]}
    BY <2>2, FlagMove
  <2>3. ASSUME NEW r \in Requests, M!EditContent(r)
        PROVE  message'[i] \in {message[i], [message[i] EXCEPT !.changed = TRUE]}
    BY <2>3, ContentMove
  <2>4. ASSUME NEW r \in Requests, M!SoftDelete(r)
        PROVE  message'[i] \in {message[i], [message[i] EXCEPT !.is_active = FALSE]}
    BY <2>4, DeleteMove
  <2>5. ASSUME NEW r \in Requests, NEW user \in People, NEW page \in Pages,
               M!ListMark(r, user, page)
        PROVE  message'[i] \in {message[i], [message[i] EXCEPT !.is_read = TRUE]}
    BY <2>5, ListMove
  <2>6. message'[i] \in {message[i], [message[i] EXCEPT !.is_edited = TRUE],
                          [message[i] EXCEPT !.changed = TRUE],
                          [message[i] EXCEPT !.is_active = FALSE],
                          [message[i] EXCEPT !.is_read = TRUE]}
    BY <2>1, <2>2, <2>3, <2>4, <2>5, NoMove DEF M!Next, M!WriteStep, M!ListStep
  <2> DEFINE m == message[i]
  <2>7. /\ m \in M!Message
        /\ message'[i] \in {m, [m EXCEPT !.is_edited = TRUE], [m EXCEPT !.changed = TRUE],
                            [m EXCEPT !.is_active = FALSE], [m EXCEPT !.is_read = TRUE]}
    BY <2>6, <2>a
  <2> HIDE DEF m
  <2>8. /\ ~ m.is_active => ~ message'[i].is_active
        /\ m.is_read => message'[i].is_read
    BY <2>7 DEF M!Message
  <2>9. QED
    BY <2>8 DEF m
<1>2. MessagesInv /\ [M!Next]_(M!vars)
        => [\A i \in DOMAIN message :
              /\ ~ message[i].is_active => ~ message'[i].is_active
              /\ message[i].is_read => message'[i].is_read]_(M!vars)
  BY <1>1 DEF M!vars
<1>3. QED
  BY <1>2, MessagesInvariant, EachPart, PTL DEF M!Spec, NothingUndone, M!NothingUndone

-----------------------------------------------------------------------------
(* Messages that are marked as read have been served                       *)

\* The listing of the conversation has one page.
FitsOnAPage == MaxMessages <= PageSize

\* Cardinality is the same operator inside the instance.
LEMMA SameCardinality == \A S : M!Cardinality(S) = Cardinality(S)
BY DEF M!Cardinality, Cardinality, M!IsFiniteSet, IsFiniteSet

LEMMA OnFirstPage ==
    ASSUME FitsOnAPage, M!TypeOK, RowsBounded, NEW i \in DOMAIN message
    PROVE  M!Newer(i) \div PageSize = 0
<1> DEFINE newer == {j \in DOMAIN message : j > i /\ message[j].is_active}
           above == i + 1 .. Len(message)
<1>1. Len(message) \in Nat /\ i \in 1 .. Len(message)
  BY DEF M!TypeOK
<1>2. newer \subseteq above
  BY <1>1 DEF M!TypeOK
<1>3. IsFiniteSet(above) /\ Cardinality(above) <= Len(message) - i
  <2>a. i + 1 \in Int /\ Len(message) \in Int
    BY <1>1
  <2>1. /\ IsFiniteSet(above)
        /\ Cardinality(above) = IF i + 1 > Len(message) THEN 0 ELSE Len(message) - (i + 1) + 1
    BY <2>a, FS_Interval, Zenon
  <2>2. QED
    BY <1>1, <2>1
<1>4. Cardinality(newer) \in Nat /\ Cardinality(newer) <= Cardinality(above)
  BY <1>2, <1>3, FS_Subset, FS_CardinalityType
<1>5. M!Newer(i) = Cardinality(newer)
  BY SameCardinality DEF M!Newer
<1>6. M!Newer(i) \in Nat /\ M!Newer(i) < PageSize /\ PageSize \in Nat
  <2> HIDE DEF newer, above
  <2> QED
  BY <1>1, <1>3, <1>4, <1>5, FS_CardinalityType, MessagesAssumption DEF FitsOnAPage, RowsBounded
<1>7. QED
  BY <1>6

\* Nobody but its sender can still be on the way to message i, or was kept
\* from it.
Delivered(i) ==
    \A user \in People \ {message[i].sender} :
        /\ user \notin cut
        /\ \A r \in Requests : messaging[r].at = "listing" => messaging[r].user # user

LEMMA ServeStep ==
    ASSUME FitsOnAPage, MessagesInv, ReadWasServed, NEW r \in Requests, M!ListServe(r),
           NEW i \in DOMAIN message, message[i].is_read, message[i].is_active, Delivered(i)'
    PROVE  i \in served'
<1> DEFINE me == messaging[r]
           onPage == {j \in DOMAIN message : M!OnPage(j, me.page)}
<1>a. me \in M!Listing
  BY DEF M!ListServe, MessagesInv, M!TypeOK, M!Idle, M!Editing, M!Deleting
<1>1. me.user \in People /\ me.page \in Nat \ {0} /\ me.at = "listing"
  BY <1>a, MessagesAssumption DEF M!Listing
<1>2. /\ message' = message
      /\ served' = served \cup {j \in onPage : M!Received(message[j], me.user)}
      /\ cut' = IF onPage = {} /\ me.page # 1 THEN cut \cup {me.user} ELSE cut
  BY DEF M!ListServe
<1>3. \A s \in Requests : s # r => messaging'[s] = messaging[s]
  BY DEF M!ListServe, M!Finish, MessagesInv, M!TypeOK
<1>4. CASE message[i].sender = me.user
  <2>1. Delivered(i)
    BY <1>1, <1>2, <1>3, <1>4 DEF Delivered
  <2>2. QED
    BY <1>2, <2>1 DEF Delivered, ReadWasServed, M!ReadWasServed
<1>5. CASE message[i].sender # me.user
  <2>1. me.user \notin cut'
    BY <1>1, <1>2, <1>5 DEF Delivered
  <2>2. \A j \in DOMAIN message : M!OnPage(j, me.page) => me.page = 1
    BY <1>1, OnFirstPage DEF MessagesInv, M!OnPage
  <2>3. me.page = 1
    BY <1>2, <2>1, <2>2
  <2>4. i \in onPage
    BY <2>3, OnFirstPage DEF MessagesInv, M!OnPage
  <2>5. QED
    BY <1>2, <1>5, <2>4 DEF M!Received
<1>6. QED
  BY <1>4, <1>5

LEMMA WriteStep ==
    ASSUME MessagesInv, NEW r \in Requests, M!WriteStep(r),
           NEW i \in DOMAIN message', message'[i].is_read, message'[i].is_active,
           Delivered(i)'
    PROVE  /\ i \in DOMAIN message /\ message[i].is_read /\ message[i].is_active
           /\ Delivered(i)
           /\ served' = served
<1> USE DEF MessagesInv
<1>1. /\ cut' = cut /\ served' = served
      /\ \A s \in Requests : messaging[s].at = "listing" => messaging'[s] = messaging[s]
  <2>1. cut' = cut /\ served' = served
    BY DEF M!WriteStep, M!Post, M!EditRead, M!EditFlag, M!EditContent, M!DeleteRead,
           M!SoftDelete
  <2>2. messaging[r].at # "listing"
    <3>1. messaging[r] = M!Idle \/ messaging[r].at \in {"editing", "flagged", "deleting"}
      BY DEF M!WriteStep, M!Post, M!EditRead, M!EditFlag, M!EditContent, M!ContentDue,
             M!DeleteRead, M!SoftDelete
    <3>2. QED
      BY <3>1 DEF M!Idle
  <2>3. \A s \in Requests : s # r => messaging'[s] = messaging[s]
    <3> USE DEF M!TypeOK
    <3>1. ASSUME NEW user \in People, M!Post(r, user)
          PROVE  \A s \in Requests : s # r => messaging'[s] = messaging[s]
      BY <3>1 DEF M!Post
    <3>2. ASSUME NEW j \in DOMAIN message, M!EditRead(r, j) \/ M!DeleteRead(r, j)
          PROVE  \A s \in Requests : s # r => messaging'[s] = messaging[s]
      BY <3>2 DEF M!EditRead, M!DeleteRead
    <3>3. ASSUME M!EditFlag(r) \/ M!EditContent(r) \/ M!SoftDelete(r)
          PROVE  \A s \in Requests : s # r => messaging'[s] = messaging[s]
      BY <3>3 DEF M!EditFlag, M!EditContent, M!SoftDelete, M!Finish
    <3>4. QED
      BY <3>1, <3>2, <3>3 DEF M!WriteStep
  <2>4. QED
    BY <2>1, <2>2, <2>3
<1>2. /\ i \in DOMAIN message
      /\ message'[i] \in {message[i], [message[i] EXCEPT !.is_edited = TRUE],
                           [message[i] EXCEPT !.changed = TRUE],
                           [message[i] EXCEPT !.is_active = FALSE]}
  <2>1. ASSUME NEW user \in People, M!Post(r, user)
        PROVE  i \in DOMAIN message /\ message'[i] = message[i]
    BY <2>1, PostMove
  <2>2. ASSUME M!EditFlag(r)
        PROVE  /\ i \in DOMAIN message
               /\ message'[i] \in {message[i], [message[i] EXCEPT !.is_edited = TRUE]}
    BY <2>2, FlagMove
  <2>3. ASSUME M!EditContent(r)
        PROVE  /\ i \in DOMAIN message
               /\ message'[i] \in {message[i], [message[i] EXCEPT !.changed = TRUE]}
    BY <2>3, ContentMove
  <2>4. ASSUME M!SoftDelete(r)
        PROVE  /\ i \in DOMAIN message
               /\ message'[i] \in {message[i], [message[i] EXCEPT !.is_active = FALSE]}
    BY <2>4, DeleteMove
  <2>5. QED
    BY <2>1, <2>2, <2>3, <2>4, NoMove DEF M!WriteStep
<1>3. message[i] \in M!Message
  BY <1>2 DEF M!TypeOK
<1>4. message[i].is_read /\ message[i].is_active /\ message'[i].sender = message[i].sender
  BY <1>2, <1>3 DEF M!Message
<1>5. Delivered(i)
  BY <1>1, <1>4 DEF Delivered
<1>6. QED
  BY <1>1, <1>2, <1>4, <1>5

LEMMA MarkStep ==
    ASSUME MessagesInv, NEW r \in Requests, NEW user \in People, NEW page \in Pages,
           M!ListMark(r, user, page),
           NEW i \in DOMAIN message', message'[i].is_read, message'[i].is_active,
           Delivered(i)'
    PROVE  /\ i \in DOMAIN message /\ message[i].is_read /\ message[i].is_active
           /\ Delivered(i)
           /\ served' = served
<1> USE DEF MessagesInv
<1>1. /\ cut' = cut /\ served' = served
      /\ messaging'[r].at = "listing" /\ messaging'[r].user = user
      /\ \A s \in Requests : messaging[s].at = "listing" => messaging'[s] = messaging[s]
  BY DEF M!ListMark, M!TypeOK, M!Idle
<1>2. /\ i \in DOMAIN message /\ message[i] \in M!Message
      /\ message'[i] = IF message[i].sender # user
                       THEN [message[i] EXCEPT !.is_read = TRUE]
                       ELSE message[i]
  <2>1. i \in DOMAIN message
    BY ListMove
  <2>2. message[i] \in M!Message
    BY <2>1 DEF M!TypeOK
  <2>3. QED
    BY <2>1, <2>2, ListMove
<1>3. message'[i].sender = message[i].sender
  BY <1>2 DEF M!Message
<1>4. message[i].sender = user
  BY <1>1, <1>3 DEF Delivered
<1>5. QED
  BY <1>1, <1>2, <1>3, <1>4 DEF Delivered

LEMMA FailStep ==
    ASSUME MessagesInv, NEW r \in Requests, M!RequestFails(r), NEW i, Delivered(i)'
    PROVE  Delivered(i) /\ message' = message /\ served' = served
<1>1. /\ message' = message /\ served' = served /\ cut \subseteq cut'
      /\ messaging[r].at = "listing" => messaging[r].user \in cut'
      /\ \A s \in Requests : s # r => messaging'[s] = messaging[s]
  BY DEF M!RequestFails, M!Finish, MessagesInv, M!TypeOK
<1>2. QED
  BY <1>1 DEF Delivered

\* Listing marks first and fetches afterwards (chats/views.py:174-177), so a
\* message is not marked as read unseen, whatever arrives in between, as long
\* as the conversation fits on one page.
THEOREM ReadAlwaysServed == ASSUME FitsOnAPage PROVE ChatsSpec => []ReadWasServed
<1>1. M!Init => ReadWasServed
  BY DEF M!Init, ReadWasServed, M!ReadWasServed
<1>2. MessagesInv /\ ReadWasServed /\ [M!Next]_(M!vars) => ReadWasServed'
  <2> SUFFICES ASSUME MessagesInv, ReadWasServed, [M!Next]_(M!vars),
                      NEW i \in DOMAIN message', message'[i].is_read, message'[i].is_active,
                      Delivered(i)'
               PROVE  i \in served'
    BY DEF ReadWasServed, M!ReadWasServed, Delivered
  <2>a. ASSUME i \in DOMAIN message, message[i].is_read, message[i].is_active, Delivered(i)
        PROVE  i \in served
    BY <2>a DEF Delivered, ReadWasServed, M!ReadWasServed
  <2>1. ASSUME NEW r \in Requests, M!WriteStep(r)
        PROVE  i \in served'
    BY <2>1, <2>a, WriteStep
  <2>2. ASSUME NEW r \in Requests, NEW user \in People, NEW page \in Pages,
               M!ListMark(r, user, page)
        PROVE  i \in served'
    BY <2>2, <2>a, MarkStep
  <2>3. ASSUME NEW r \in Requests, M!ListServe(r)
        PROVE  i \in served'
    BY <2>3, NoMove, ServeStep
  <2>4. ASSUME NEW r \in Requests, M!RequestFails(r)
        PROVE  i \in served'
    BY <2>4, <2>a, FailStep
  <2>5. CASE UNCHANGED M!vars
    BY <2>5, <2>a DEF M!vars, Delivered
  <2>6. QED
    BY <2>1, <2>2, <2>3, <2>4, <2>5 DEF M!Next, M!ListStep
<1>3. QED
  BY <1>1, <1>2, MessagesInvariant, EachPart, PTL DEF M!Spec

-----------------------------------------------------------------------------
(* Support tickets                                                         *)

\* There is a ticket before there is anything else.
TicketFirst ==
    /\ room = "open" => ticket # T!NoTicket
    /\ \A r \in Requests : ticketRequest[r].at \in {"ticket", "room"} => ticket # T!NoTicket

\* Every admin on the ticket, on a copy of it, or on the copy a reply is
\* checked with has been given the ticket.
AdminsAssigned ==
    /\ ticket # T!NoTicket /\ ticket.admin # NoAdmin => ticket.admin \in assigned
    /\ \A r \in Requests :
          /\ ticketRequest[r].at \in {"assigning", "reviewing"}
             /\ ticketRequest[r].copy.admin # NoAdmin
             => ticketRequest[r].copy.admin \in assigned
          /\ ticketRequest[r].at = "replying" /\ ticketRequest[r].admin # NoAdmin
             => ticketRequest[r].admin \in assigned

TicketInv == T!TypeOK /\ TicketFirst /\ AdminsAssigned /\ StaffRepliesAssigned

LEMMA TicketInvariant == T!Spec => []TicketInv
<1> USE DEF T!Idle, T!NoTicket
<1>1. T!Init => TicketInv
  BY TicketAssumption
     DEF T!Init, TicketInv, T!TypeOK, T!NoMessage, TicketFirst, AdminsAssigned,
         StaffRepliesAssigned, T!StaffRepliesAssigned
<1>2. TicketInv /\ [T!Next]_(T!vars) => TicketInv'
  <2> SUFFICES ASSUME TicketInv, [T!Next]_(T!vars) PROVE TicketInv'
    OBVIOUS
  <2> USE DEF TicketInv, TicketFirst, AdminsAssigned, StaffRepliesAssigned,
              T!StaffRepliesAssigned, T!TypeOK
  <2>1. ASSUME NEW r \in Requests, T!OpenTicket(r)
        PROVE  TicketInv'
    BY <2>1 DEF T!OpenTicket, T!Opening, T!Ticket, T!Statuses
  <2>2. ASSUME NEW r \in Requests, T!OpenRoom(r)
        PROVE  TicketInv'
    BY <2>2 DEF T!OpenRoom, T!Opening
  <2>3. ASSUME NEW r \in Requests, T!OpenMessage(r)
        PROVE  TicketInv'
    BY <2>3 DEF T!OpenMessage, T!Insert, T!Finish, T!Message, T!Unused
  <2>4. ASSUME NEW r \in Requests, NEW admin \in Admins, T!AssignRead(r, admin)
        PROVE  TicketInv'
    BY <2>4 DEF T!AssignRead, T!Assigning
  <2>5. ASSUME NEW r \in Requests, T!AssignSave(r)
        PROVE  TicketInv'
    <3> DEFINE me == ticketRequest[r]
    <3>1. me \in T!Assigning
      BY <2>5 DEF T!AssignSave, T!Opening, T!Reviewing, T!Replying
    <3>2. me.copy \in T!Ticket /\ me.admin \in Admins
      BY <3>1 DEF T!Assigning
    <3>3. /\ ticket' = [me.copy EXCEPT !.admin = me.admin]
          /\ assigned' = assigned \cup {me.admin}
          /\ ticketRequest' = [ticketRequest EXCEPT ![r] = T!Idle]
          /\ room' = room /\ reply' = reply
      BY <2>5 DEF T!AssignSave, T!Finish
    <3>4. ticket' \in T!Ticket /\ ticket'.admin = me.admin /\ ticket' # T!NoTicket
      BY <3>2, <3>3 DEF T!Ticket, T!Statuses
    <3>5. QED
      BY <3>2, <3>3, <3>4
  <2>6. ASSUME NEW r \in Requests, NEW status \in T!Statuses, T!ReviewRead(r, status)
        PROVE  TicketInv'
    BY <2>6 DEF T!ReviewRead, T!Reviewing
  <2>7. ASSUME NEW r \in Requests, T!ReviewSave(r)
        PROVE  TicketInv'
    <3> DEFINE me == ticketRequest[r]
    <3>1. me \in T!Reviewing
      BY <2>7 DEF T!ReviewSave, T!Opening, T!Assigning, T!Replying
    <3>2. me.copy \in T!Ticket /\ me.status \in T!Statuses
      BY <3>1 DEF T!Reviewing
    <3>3. T!Reviewed(me.copy, me.status) \in T!Ticket
          /\ T!Reviewed(me.copy, me.status).admin = me.copy.admin
          /\ T!Reviewed(me.copy, me.status) # T!NoTicket
      BY <3>2 DEF T!Reviewed, T!Ticket, T!Statuses
    <3>4. /\ ticket' = T!Reviewed(me.copy, me.status)
          /\ ticketRequest' = [ticketRequest EXCEPT ![r] = T!Idle]
          /\ room' = room /\ reply' = reply /\ assigned' = assigned
          /\ me.at = "reviewing"
      BY <2>7 DEF T!ReviewSave, T!Finish
    <3>5. ticket'.admin # NoAdmin => ticket'.admin \in assigned
      BY <3>3, <3>4
    <3>6. ticket' \in T!Ticket /\ ticket' # T!NoTicket
      BY <3>3, <3>4
    <3>7. QED
      BY <3>4, <3>5, <3>6
  <2>8. ASSUME NEW r \in Requests, NEW sender \in Admins \cup {Customer},
               NEW is_staff \in BOOLEAN, T!ReplyRead(r, sender, is_staff)
        PROVE  TicketInv'
    BY <2>8 DEF T!ReplyRead, T!Replying, T!Ticket
  <2>9. ASSUME NEW r \in Requests, T!ReplySave(r)
        PROVE  TicketInv'
    <3> DEFINE me == ticketRequest[r]
               m == [sender |-> me.sender, is_staff |-> me.is_staff]
    <3>1. me \in T!Replying
      BY <2>9 DEF T!ReplySave, T!Opening, T!Assigning, T!Reviewing
    <3>2. m \in T!Message /\ me.sender \in Admins \cup {Customer} /\ me.at = "replying"
      BY <3>1 DEF T!Replying, T!Message
    <3>3. T!MayReply(me) => (m.is_staff => m.sender \in assigned)
      BY <3>2, TicketAssumption DEF T!MayReply
    <3>4. \/ reply' = reply
          \/ \E n \in 1 .. MaxReplies : reply' = [reply EXCEPT ![n] = m] /\ T!MayReply(me)
      BY <2>9 DEF T!ReplySave, T!Insert, T!Unused
    <3>5. /\ ticketRequest' = [ticketRequest EXCEPT ![r] = T!Idle]
          /\ room' = room /\ ticket' = ticket /\ assigned' = assigned
      BY <2>9 DEF T!ReplySave, T!Finish
    <3> HIDE DEF me, m
    <3>6. StaffRepliesAssigned' /\ reply' \in [1 .. MaxReplies -> {T!NoMessage} \cup T!Message]
      BY <3>2, <3>3, <3>4, <3>5
    <3>7. QED
      BY <3>5, <3>6
  <2>10. ASSUME NEW r \in Requests, T!RequestFails(r)
         PROVE  TicketInv'
    BY <2>10 DEF T!RequestFails, T!Finish
  <2>11. CASE UNCHANGED T!vars
    BY <2>11 DEF T!vars
  <2>12. QED
    BY <2>1, <2>2, <2>3, <2>4, <2>5, <2>6, <2>7, <2>8, <2>9, <2>10, <2>11
       DEF T!Next, T!AdminStep, T!ReplyStep
<1>3. QED
  BY <1>1, <1>2, PTL DEF T!Spec

\* A message marked as staff comes from an admin who had been given the ticket
\* (admin/support_disputes/serializers.py:100), although the check reads a
\* copy and the ticket may pass to somebody else meanwhile.
THEOREM StaffAlwaysAssigned == ChatsSpec => []StaffRepliesAssigned
<1>1. TicketInv => StaffRepliesAssigned
  BY DEF TicketInv
<1>2. QED
  BY <1>1, TicketInvariant, EachPart, PTL

\* Only a request that read the ticket before it was assigned, and saves that
\* copy whole (admin/support_disputes/views.py:90), can undo an assignment.
THEOREM AssignmentsKept == ChatsSpec => AssignmentKept
<1>1. ASSUME TicketInv, T!Next, ticket # T!NoTicket, ticket.admin # NoAdmin,
             \A r \in Requests : ticketRequest[r].at \in {"assigning", "reviewing"}
                                => ticketRequest[r].copy.admin # NoAdmin
      PROVE  ticket'.admin # NoAdmin
  <2> USE <1>1
  <2>1. ASSUME NEW r \in Requests, T!AssignSave(r)
        PROVE  ticket'.admin # NoAdmin
    <3>1. ticketRequest[r] \in T!Assigning
      BY <2>1
         DEF T!AssignSave, TicketInv, T!TypeOK, T!Idle, T!Opening, T!Reviewing, T!Replying
    <3>2. ticketRequest[r].copy \in T!Ticket /\ ticketRequest[r].admin \in Admins
      BY <3>1 DEF T!Assigning
    <3>3. ticket' = [ticketRequest[r].copy EXCEPT !.admin = ticketRequest[r].admin]
      BY <2>1 DEF T!AssignSave
    <3>4. QED
      BY <3>2, <3>3, TicketAssumption DEF T!Ticket
  <2>2. ASSUME NEW r \in Requests, T!ReviewSave(r)
        PROVE  ticket'.admin # NoAdmin
    <3>1. ticketRequest[r] \in T!Reviewing /\ ticketRequest[r].at = "reviewing"
      BY <2>2
         DEF T!ReviewSave, TicketInv, T!TypeOK, T!Idle, T!Opening, T!Assigning, T!Replying
    <3>2. ticketRequest[r].copy \in T!Ticket
      BY <3>1 DEF T!Reviewing
    <3>3. ticket'.admin = ticketRequest[r].copy.admin
      BY <2>2, <3>2 DEF T!ReviewSave, T!Reviewed, T!Ticket
    <3>4. QED
      BY <3>1, <3>3
  <2>3. ASSUME NEW r \in Requests,
               \/ T!OpenRoom(r) \/ T!OpenMessage(r) \/ T!ReplyStep(r) \/ T!RequestFails(r)
               \/ \E admin \in Admins : T!AssignRead(r, admin)
               \/ \E status \in T!Statuses : T!ReviewRead(r, status)
        PROVE  ticket' = ticket
    BY <2>3 DEF T!OpenRoom, T!OpenMessage, T!ReplyStep, T!ReplyRead, T!ReplySave,
                T!RequestFails, T!AssignRead, T!ReviewRead
  <2>4. QED
    BY <2>1, <2>2, <2>3 DEF T!Next, T!AdminStep, T!OpenTicket
<1>2. TicketInv /\ [T!Next]_(T!vars)
        => [ /\ ticket # T!NoTicket
             /\ ticket.admin # NoAdmin
             /\ \A r \in Requests : ticketRequest[r].at \in {"assigning", "reviewing"}
                                   => ticketRequest[r].copy.admin # NoAdmin
             => ticket'.admin # NoAdmin]_(T!vars)
  BY <1>1
<1>3. QED
  BY <1>2, TicketInvariant, EachPart, PTL DEF T!Spec, AssignmentKept, T!AssignmentKept

-----------------------------------------------------------------------------
(* All of them                                                             *)

\* Every variable of every module keeps its shape (ShapesKept of Chats), for
\* overlapping requests and with faults.
THEOREM ShapesAlwaysKept == ChatsSpec => []ShapesKept
<1>1. R!Init => R!TypeOK
  BY DEF R!Init, R!TypeOK
<1>2. E!Init => E!TypeOK
  BY DEF E!Init, E!TypeOK
<1>3. R!Spec => []R!TypeOK
  BY <1>1, RoomsTypes, PTL DEF R!Spec
<1>4. E!Spec => []E!TypeOK
  BY <1>2, PraiseTypes, PTL DEF E!Spec
<1>5. /\ MessagesInv => M!TypeOK
      /\ TicketInv => T!TypeOK
      /\ SocketsInv => N!TypeOK
  BY DEF MessagesInv, TicketInv, SocketsInv
<1>6. TypeOK /\ R!TypeOK /\ M!TypeOK /\ T!TypeOK /\ N!TypeOK /\ E!TypeOK => ShapesKept
  BY DEF ShapesKept
<1>7. QED
  BY <1>3, <1>4, <1>5, <1>6, TypeCorrect, MessagesInvariant, TicketInvariant,
     SocketsInvariant, EachPart, PTL
=============================================================================
