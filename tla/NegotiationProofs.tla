------------------------- MODULE NegotiationProofs -------------------------
(***************************************************************************)
(* What a negotiation guarantees for every number of answers that overlap. *)
(***************************************************************************)
EXTENDS Negotiation, TLAPS

\* Nothing happens to a negotiation before it is opened.
OpenedFirst == row = NoRow => history = <<>> /\ Quiet

\* An answer that is stamped has its history row and, if it accepts, its
\* terms; the columns it is about to save carry them.
StampsTold ==
    \A r \in Requests : request[r].at = "stamped" /\ request[r].action # "PROPOSED" =>
        /\ request[r].price # NoPrice
        /\ HasHistory(request[r].action, request[r].price)

StampsCarryTerms ==
    \A r \in Requests : request[r].at = "stamped" /\ request[r].action = "ACCEPTED" =>
        /\ request[r].copy.accepted_at
        /\ request[r].copy.final_price = request[r].price

\* The status on the row is in the history, or the request that opened the
\* negotiation with it is about to write it there.
StatusBacked ==
    row # NoRow /\ row.status # "PROPOSED" =>
        \/ HasHistory(row.status, row.price)
        \/ \E r \in Requests :
              /\ request[r].at = "inserted"
              /\ request[r].action = row.status
              /\ request[r].price = row.price

\* A negotiation opened as ACCEPTED is refused by everybody who reads it, so
\* it gets one history row at most.
ClosedAtOnce ==
    /\ \A r \in Requests :
          /\ request[r].at # "stamped"
          /\ request[r].at = "read" => request[r].copy.status = "ACCEPTED"
    /\ \A r, s \in Requests :
          request[r].at = "inserted" /\ request[s].at = "inserted" => r = s
    /\ Len(history) <= 1
    /\ history = <<>> \/ \A r \in Requests : request[r].at # "inserted"

\* An acceptance on the row has its terms, or waits for the save of an
\* answer that overwrites them, or closed the negotiation at once.
TermsComing ==
    row # NoRow /\ row.status = "ACCEPTED" =>
        \/ row.accepted_at /\ row.final_price = row.price
        \/ \E r \in Requests : request[r].at = "stamped"
        \/ ClosedAtOnce

-----------------------------------------------------------------------------

\* Where a request stands determines which record it is.
LEMMA RequestShape ==
    ASSUME TypeOK, NEW r \in Requests
    PROVE  /\ request[r].at = "inserted" => request[r] \in Opening
           /\ request[r].at \in {"read", "stamped"} => request[r] \in Answering
           /\ request[r].at \in {"idle", "inserted", "read", "stamped"}
           /\ request[r].at = "idle" <=> request[r] = Idle
BY DEF TypeOK, Idle, Opening, Answering

\* An answer's stamp is set in a row and leaves its status and price alone.
LEMMA StampedRow ==
    ASSUME NEW n \in Row, NEW action \in Statuses, NEW price \in Prices \cup {NoPrice}
    PROVE  /\ Stamped(n, action, price) \in Row
           /\ Stamped(n, action, price).status = n.status
           /\ Stamped(n, action, price).price = n.price
           /\ action = "ACCEPTED" =>
                /\ Stamped(n, action, price).accepted_at
                /\ Stamped(n, action, price).final_price = price
           /\ action # "ACCEPTED" =>
                /\ Stamped(n, action, price).accepted_at = n.accepted_at
                /\ Stamped(n, action, price).final_price = n.final_price
<1>1. CASE action = "ACCEPTED"
  <2>1. Stamped(n, action, price) = [n EXCEPT !.accepted_at = TRUE, !.final_price = price]
    BY <1>1 DEF Stamped, AcceptTerms
  <2>2. QED
    BY <1>1, <2>1 DEF Row
<1>2. CASE action = "REJECTED"
  <2>1. Stamped(n, action, price) = [n EXCEPT !.rejected_at = TRUE]
    BY <1>2 DEF Stamped, RejectStamp
  <2>2. QED
    BY <1>2, <2>1 DEF Row
<1>3. CASE action = "COUNTERED"
  <2>1. Stamped(n, action, price) = [n EXCEPT !.countered_at = TRUE]
    BY <1>3 DEF Stamped, CounterStamp
  <2>2. QED
    BY <1>3, <2>1 DEF Row
<1>4. CASE action = "PROPOSED"
  <2>1. Stamped(n, action, price) = n
    BY <1>4 DEF Stamped
  <2>2. QED
    BY <1>4, <2>1 DEF Row
<1>5. QED
  BY <1>1, <1>2, <1>3, <1>4 DEF Statuses

\* A row is not the absence of one.
LEMMA RowIsThere == ASSUME NEW n \in Row PROVE n # NoRow
BY DEF Row, NoRow, Statuses

\* One more history row keeps those before it and adds the new one.
LEMMA LoggedRow ==
    ASSUME history \in Seq(HistoryRow), NEW action \in Statuses, NEW price \in Prices,
           LogHistory(action, price)
    PROVE  /\ history' \in Seq(HistoryRow)
           /\ HasHistory(action, price)'
           /\ Len(history') = Len(history) + 1
           /\ \A a, p : HasHistory(a, p) => HasHistory(a, p)'
<1>1. [action |-> action, price |-> price] \in HistoryRow
  BY DEF HistoryRow
<1>2. history' = Append(history, [action |-> action, price |-> price])
  BY DEF LogHistory
<1>3. history' \in Seq(HistoryRow) /\ Len(history') = Len(history) + 1
  BY <1>1, <1>2
<1>4. history'[Len(history')] = [action |-> action, price |-> price]
  BY <1>1, <1>2
<1>5. Len(history') \in DOMAIN history'
  BY <1>3
<1>6. \A i \in DOMAIN history : i \in DOMAIN history' /\ history'[i] = history[i]
  BY <1>1, <1>2, <1>3
<1>7. QED
  BY <1>3, <1>4, <1>5, <1>6 DEF HasHistory

\* Whoever moves, the action is one of these.
LEMMA NextCases ==
    ASSUME Next
    PROVE  \/ \E r \in Requests, status \in Statuses, price \in Prices :
                  CreateCommit(r, status, price)
           \/ \E r \in Requests : CreateLog(r)
           \/ \E r \in Requests, action \in Statuses, price \in Prices \cup {NoPrice} :
                  AnswerRead(r, action, price)
           \/ \E r \in Requests : AnswerRefuse(r)
           \/ \E r \in Requests : AnswerStamp(r)
           \/ \E r \in Requests : AnswerSave(r)
           \/ \E r \in Requests : RequestFails(r)
BY DEF Next, CreateStep, UpdateStatus

\* A thread that has died has died.
LEMMA FailedStays == [Next]_vars /\ failed => failed'
BY DEF Next, RequestFails, vars

\* The flag keeps its shape, and the actions that leave it alone keep it.
LEMMA FailedType == failed \in BOOLEAN /\ [Next]_vars => failed' \in BOOLEAN
BY DEF Next, RequestFails, vars

\* The variables have their shapes at the start.
LEMMA TypeInit == Init => TypeOK
<1>1. Init => failed \in BOOLEAN
  BY Zenon DEF Init
<1>2. QED
  BY <1>1 DEF Init, TypeOK

\* What the stamping of an answer does, field by field.
LEMMA StampMove ==
    ASSUME TypeOK, row # NoRow, NEW r \in Requests, AnswerStamp(r)
    PROVE  /\ row \in Row /\ request[r] \in Answering /\ request'[r] \in Answering
           /\ row' = Stamped(row, request[r].action, request[r].price)
           /\ request'[r].at = "stamped"
           /\ request'[r].action = request[r].action
           /\ request'[r].price = request[r].price
           /\ request'[r].copy = Stamped(request[r].copy, request[r].action, request[r].price)
           /\ request' = [request EXCEPT ![r] = request'[r]]
<1>1. request[r] \in Answering /\ row \in Row
  BY RequestShape DEF AnswerStamp, TypeOK
<1>2. request[r].copy \in Row /\ request[r].action \in Statuses
          /\ request[r].price \in Prices \cup {NoPrice}
  BY <1>1 DEF Answering
<1> DEFINE copy == Stamped(request[r].copy, request[r].action, request[r].price)
<1>3. copy \in Row
  BY <1>2, StampedRow
<1>4. request' = [request EXCEPT ![r] = [request[r] EXCEPT !.at = "stamped", !.copy = copy]]
  BY DEF AnswerStamp
<1>5. request'[r] = [request[r] EXCEPT !.at = "stamped", !.copy = copy]
  BY <1>4 DEF TypeOK
<1> HIDE DEF copy
<1>6. /\ request'[r] \in Answering /\ request'[r].at = "stamped"
      /\ request'[r].action = request[r].action
      /\ request'[r].price = request[r].price
      /\ request'[r].copy = copy
  BY <1>1, <1>3, <1>5 DEF Answering
<1>7. row' = Stamped(row, request[r].action, request[r].price)
  BY DEF AnswerStamp
<1>8. QED
  BY <1>1, <1>4, <1>5, <1>6, <1>7 DEF copy

\* What the save of an answer does, column by column.
LEMMA SaveMove ==
    ASSUME TypeOK, NEW r \in Requests, AnswerSave(r)
    PROVE  /\ request[r] \in Answering
           /\ row' \in Row
           /\ row'.status = request[r].action
           /\ request[r].price # NoPrice => row'.price = request[r].price
           /\ row'.accepted_at = request[r].copy.accepted_at
           /\ row'.final_price = request[r].copy.final_price
           /\ request' = [request EXCEPT ![r] = Idle]
           /\ UNCHANGED history
<1>1. request[r] \in Answering
  BY RequestShape DEF AnswerSave
<1>2. request[r].copy \in Row /\ request[r].action \in Statuses
          /\ request[r].price \in Prices \cup {NoPrice}
  BY <1>1 DEF Answering
<1> DEFINE price == IF request[r].price = NoPrice THEN request[r].copy.price ELSE request[r].price
<1>3. price \in Prices
  BY <1>2 DEF Row
<1>4. row' = [request[r].copy EXCEPT !.status = request[r].action, !.price = price]
  BY DEF AnswerSave
<1>5. request[r].price # NoPrice => price = request[r].price
  OBVIOUS
<1> HIDE DEF price
<1>6. /\ row' \in Row
      /\ row'.status = request[r].action /\ row'.price = price
      /\ row'.accepted_at = request[r].copy.accepted_at
      /\ row'.final_price = request[r].copy.final_price
  BY <1>2, <1>3, <1>4 DEF Row
<1>7. request' = [request EXCEPT ![r] = Idle] /\ UNCHANGED history
  BY DEF AnswerSave
<1>8. QED
  BY <1>1, <1>5, <1>6, <1>7

\* A stamped answer has a price unless it proposes, and its history row.
LEMMA StampLogs ==
    ASSUME TypeOK, NEW r \in Requests, AnswerStamp(r)
    PROVE  /\ history' \in Seq(HistoryRow)
           /\ \A a, p : HasHistory(a, p) => HasHistory(a, p)'
           /\ request[r].action # "PROPOSED" =>
                /\ request[r].price # NoPrice
                /\ \A a, p : a = request[r].action /\ p = request[r].price
                                 => HasHistory(a, p)'
<1>1. request[r] \in Answering
  BY RequestShape DEF AnswerStamp
<1>2. request[r].action \in Statuses /\ request[r].price \in Prices \cup {NoPrice}
  BY <1>1 DEF Answering
<1>3. PICK action, price : action = request[r].action /\ price = request[r].price
  OBVIOUS
<1>4. CASE action # "PROPOSED"
  <2>1. price # NoPrice /\ LogHistory(action, price)
    BY <1>3, <1>4 DEF AnswerStamp, Refused, Logged
  <2>2. action \in Statuses /\ price \in Prices
    BY <1>2, <1>3, <2>1
  <2>3. /\ history' \in Seq(HistoryRow)
        /\ HasHistory(action, price)'
        /\ \A a, p : HasHistory(a, p) => HasHistory(a, p)'
    BY <2>1, <2>2, LoggedRow DEF TypeOK
  <2>4. QED
    BY <1>3, <2>1, <2>3
<1>5. CASE action = "PROPOSED"
  <2>1. history' = history
    BY <1>3, <1>5 DEF AnswerStamp, Logged
  <2>2. QED
    BY <1>3, <1>5, <2>1 DEF TypeOK, HasHistory
<1>6. QED
  BY <1>4, <1>5

\* Every step keeps the shapes, and comes after the opening.
LEMMA TypeStep == TypeOK /\ OpenedFirst /\ [Next]_vars => TypeOK' /\ OpenedFirst'
<1> SUFFICES ASSUME TypeOK, OpenedFirst, [Next]_vars PROVE TypeOK' /\ OpenedFirst'
  OBVIOUS
<1>a. failed' \in BOOLEAN
  BY FailedType DEF TypeOK
<1>1. ASSUME NEW r \in Requests, NEW status \in Statuses, NEW price \in Prices,
             CreateCommit(r, status, price)
      PROVE  TypeOK' /\ OpenedFirst'
  <2>1. Opened(status, price) \in Row
    BY DEF Opened, Row
  <2>2. [at |-> "inserted", action |-> status, price |-> price] \in Opening
    BY DEF Opening
  <2>3. row' # NoRow
    BY <1>1, <2>1, RowIsThere DEF CreateCommit
  <2>4. TypeOK'
    BY <1>a, <1>1, <2>1, <2>2 DEF CreateCommit, TypeOK
  <2>5. QED
    BY <2>3, <2>4 DEF OpenedFirst
<1>2. ASSUME NEW r \in Requests, CreateLog(r)
      PROVE  TypeOK' /\ OpenedFirst'
  <2>1. request[r].action \in Statuses /\ request[r].price \in Prices
    BY <1>2, RequestShape DEF CreateLog, Opening
  <2>2. history' \in Seq(HistoryRow)
    BY <1>a, <1>2, <2>1, LoggedRow DEF CreateLog, TypeOK
  <2>3. row # NoRow
    BY <1>2 DEF CreateLog, OpenedFirst, Quiet, Idle
  <2>4. QED
    BY <1>a, <1>2, <2>2, <2>3 DEF CreateLog, TypeOK, OpenedFirst
<1>3. ASSUME NEW r \in Requests, NEW action \in Statuses, NEW price \in Prices \cup {NoPrice},
             AnswerRead(r, action, price)
      PROVE  TypeOK' /\ OpenedFirst'
  <2>1. row \in Row
    BY <1>a, <1>3 DEF AnswerRead, TypeOK
  <2>2. [at |-> "read", copy |-> row, action |-> action, price |-> price] \in Answering
    BY <2>1 DEF Answering
  <2>3. QED
    BY <1>a, <1>3, <2>2 DEF AnswerRead, TypeOK, OpenedFirst
<1>4. ASSUME NEW r \in Requests, AnswerRefuse(r) \/ RequestFails(r)
      PROVE  TypeOK' /\ OpenedFirst'
  BY <1>a, <1>4 DEF AnswerRefuse, RequestFails, TypeOK, OpenedFirst, Quiet
<1>5. ASSUME NEW r \in Requests, AnswerStamp(r)
      PROVE  TypeOK' /\ OpenedFirst'
  <2>1. row # NoRow
    BY <1>5 DEF AnswerStamp, OpenedFirst, Quiet, Idle
  <2>2. row \in Row /\ request[r] \in Answering
    BY <1>5, <2>1, StampMove
  <2>3. request[r].action \in Statuses /\ request[r].price \in Prices \cup {NoPrice}
    BY <2>2 DEF Answering
  <2>4. row' \in Row
    BY <1>5, <2>1, <2>2, <2>3, StampMove, StampedRow
  <2>5. request' \in [Requests -> {Idle} \cup Opening \cup Answering]
    BY <1>a, <1>5, <2>1, StampMove DEF TypeOK
  <2>6. QED
    BY <1>a, <1>5, <2>4, <2>5, StampLogs, RowIsThere DEF TypeOK, OpenedFirst
<1>6. ASSUME NEW r \in Requests, AnswerSave(r)
      PROVE  TypeOK' /\ OpenedFirst'
  <2>1. row' \in Row /\ row' # NoRow
    BY <1>6, SaveMove, RowIsThere
  <2>2. QED
    BY <1>a, <1>6, <2>1, SaveMove DEF TypeOK, OpenedFirst
<1>7. CASE UNCHANGED vars
  BY <1>a, <1>7 DEF vars, TypeOK, OpenedFirst, Quiet
<1>8. QED
  BY <1>1, <1>2, <1>3, <1>4, <1>5, <1>6, <1>7, NextCases

\* Every step keeps the status backed by the history.
LEMMA BackedStep ==
    ASSUME ~ failed', TypeOK, OpenedFirst, StampsTold, StatusBacked, [Next]_vars
    PROVE  StampsTold' /\ StatusBacked'
<1>1. ASSUME NEW r \in Requests, NEW status \in Statuses, NEW price \in Prices,
             CreateCommit(r, status, price)
      PROVE  StampsTold' /\ StatusBacked'
  <2>1. \A s \in Requests : request[s] = Idle
    BY <1>1 DEF CreateCommit, OpenedFirst, Quiet
  <2>2. request'[r] = [at |-> "inserted", action |-> status, price |-> price]
            /\ \A s \in Requests \ {r} : request'[s] = Idle
    BY <1>1, <2>1 DEF CreateCommit, TypeOK
  <2>3. row'.status = status /\ row'.price = price
    BY <1>1 DEF CreateCommit, Opened
  <2>4. StampsTold'
    BY <2>2 DEF StampsTold, Idle
  <2>5. StatusBacked'
    BY <2>2, <2>3 DEF StatusBacked
  <2>6. QED
    BY <2>4, <2>5
<1>2. ASSUME NEW r \in Requests, CreateLog(r)
      PROVE  StampsTold' /\ StatusBacked'
  <2>1. PICK action \in Statuses, price \in Prices :
            action = request[r].action /\ price = request[r].price
    BY <1>2, RequestShape DEF CreateLog, Opening
  <2>2. LogHistory(action, price)
    BY <1>2, <2>1 DEF CreateLog
  <2>3. /\ HasHistory(action, price)'
        /\ \A a, p : HasHistory(a, p) => HasHistory(a, p)'
    BY <2>1, <2>2, LoggedRow DEF TypeOK
  <2>4. /\ row' = row /\ request'[r] = Idle
        /\ \A s \in Requests \ {r} : request'[s] = request[s]
    BY <1>2 DEF CreateLog, TypeOK
  <2>5. StampsTold'
    BY <2>3, <2>4 DEF StampsTold, Idle
  <2>6. CASE row.status = action /\ row.price = price
    BY <2>3, <2>4, <2>5, <2>6 DEF StatusBacked
  <2>7. CASE ~ (row.status = action /\ row.price = price)
    BY <2>1, <2>3, <2>4, <2>5, <2>7 DEF StatusBacked
  <2>8. QED
    BY <2>5, <2>6, <2>7
<1>3. ASSUME NEW r \in Requests, NEW action \in Statuses, NEW price \in Prices \cup {NoPrice},
             AnswerRead(r, action, price)
      PROVE  StampsTold' /\ StatusBacked'
  <2>1. /\ UNCHANGED <<row, history>>
        /\ request[r] = Idle /\ request'[r].at = "read"
        /\ \A s \in Requests \ {r} : request'[s] = request[s]
    BY <1>3 DEF AnswerRead, TypeOK
  <2>2. \A a, p : HasHistory(a, p) <=> HasHistory(a, p)'
    BY <2>1 DEF HasHistory
  <2>3. StampsTold'
    BY <2>1, <2>2 DEF StampsTold
  <2>4. StatusBacked'
    BY <2>1, <2>2 DEF StatusBacked, Idle
  <2>5. QED
    BY <2>3, <2>4
<1>4. ASSUME NEW r \in Requests, AnswerRefuse(r)
      PROVE  StampsTold' /\ StatusBacked'
  <2>1. /\ UNCHANGED <<row, history>>
        /\ request[r].at = "read" /\ request'[r] = Idle
        /\ \A s \in Requests \ {r} : request'[s] = request[s]
    BY <1>4 DEF AnswerRefuse, TypeOK
  <2>2. \A a, p : HasHistory(a, p) <=> HasHistory(a, p)'
    BY <2>1 DEF HasHistory
  <2>3. StampsTold'
    BY <2>1, <2>2 DEF StampsTold, Idle
  <2>4. StatusBacked'
    BY <2>1, <2>2 DEF StatusBacked, Idle
  <2>5. QED
    BY <2>3, <2>4
<1>5. ASSUME NEW r \in Requests, AnswerStamp(r)
      PROVE  StampsTold' /\ StatusBacked'
  <2>1. row # NoRow /\ request[r].at = "read"
    BY <1>5 DEF AnswerStamp, OpenedFirst, Quiet, Idle
  <2>2. row \in Row /\ request[r] \in Answering
    BY <1>5, <2>1, StampMove
  <2>3. request[r].action \in Statuses /\ request[r].price \in Prices \cup {NoPrice}
    BY <2>2 DEF Answering
  <2>4. row'.status = row.status /\ row'.price = row.price
    BY <1>5, <2>1, <2>2, <2>3, StampMove, StampedRow
  <2>5. /\ \A s \in Requests \ {r} : request'[s] = request[s]
        /\ request'[r].at = "stamped"
        /\ request'[r].action = request[r].action /\ request'[r].price = request[r].price
    BY <1>5, <2>1, StampMove DEF TypeOK
  <2>6. StampsTold'
    BY <1>5, <2>5, StampLogs DEF StampsTold
  <2>7. StatusBacked'
    BY <1>5, <2>1, <2>4, <2>5, StampLogs DEF StatusBacked
  <2>8. QED
    BY <2>6, <2>7
<1>6. ASSUME NEW r \in Requests, AnswerSave(r)
      PROVE  StampsTold' /\ StatusBacked'
  <2>1. /\ row'.status = request[r].action /\ UNCHANGED history
        /\ request[r].price # NoPrice => row'.price = request[r].price
        /\ request'[r] = Idle
        /\ \A s \in Requests \ {r} : request'[s] = request[s]
    BY <1>6, SaveMove DEF TypeOK
  <2>2. \A a, p : HasHistory(a, p) <=> HasHistory(a, p)'
    BY <2>1 DEF HasHistory
  <2>3. request[r].at = "stamped"
    BY <1>6 DEF AnswerSave
  <2>4. StampsTold'
    BY <2>1, <2>2 DEF StampsTold, Idle
  <2>5. StatusBacked'
    BY <2>1, <2>2, <2>3 DEF StampsTold, StatusBacked
  <2>6. QED
    BY <2>4, <2>5
<1>7. CASE UNCHANGED vars
  <2>1. \A a, p : HasHistory(a, p) <=> HasHistory(a, p)'
    BY <1>7 DEF vars, HasHistory
  <2>2. QED
    BY <1>7, <2>1 DEF vars, StampsTold, StatusBacked
<1>8. QED
  BY <1>1, <1>2, <1>3, <1>4, <1>5, <1>6, <1>7, NextCases DEF RequestFails

\* Every step keeps what stamped answers are about to save.
LEMMA TermsCarriedStep ==
    ASSUME TypeOK, OpenedFirst, StampsCarryTerms, [Next]_vars
    PROVE  StampsCarryTerms'
<1>1. ASSUME NEW r \in Requests, AnswerStamp(r)
      PROVE  StampsCarryTerms'
  <2>1. row # NoRow
    BY <1>1 DEF AnswerStamp, OpenedFirst, Quiet, Idle
  <2>2. request[r] \in Answering
    BY <1>1, <2>1, StampMove
  <2>3. /\ request[r].copy \in Row /\ request[r].action \in Statuses
        /\ request[r].price \in Prices \cup {NoPrice}
    BY <2>2 DEF Answering
  <2>4. \A s \in Requests \ {r} : request'[s] = request[s]
    BY <1>1, <2>1, StampMove DEF TypeOK
  <2>5. request'[r].action = "ACCEPTED" =>
            /\ request'[r].copy.accepted_at
            /\ request'[r].copy.final_price = request'[r].price
    BY <1>1, <2>1, <2>3, StampMove, StampedRow
  <2>6. QED
    BY <2>4, <2>5 DEF StampsCarryTerms
<1>2. ASSUME NEW s \in Requests, ~ \E r \in Requests : AnswerStamp(r)
      PROVE  request'[s] = request[s] \/ request'[s].at # "stamped"
  <2>1. ASSUME NEW r \in Requests, NEW status \in Statuses, NEW price \in Prices,
               CreateCommit(r, status, price)
        PROVE  request'[s] = request[s] \/ request'[s].at # "stamped"
    BY <2>1 DEF CreateCommit, TypeOK
  <2>2. ASSUME NEW r \in Requests, NEW action \in Statuses,
               NEW price \in Prices \cup {NoPrice}, AnswerRead(r, action, price)
        PROVE  request'[s] = request[s] \/ request'[s].at # "stamped"
    BY <2>2 DEF AnswerRead, TypeOK
  <2>3. ASSUME NEW r \in Requests,
               CreateLog(r) \/ AnswerRefuse(r) \/ AnswerSave(r) \/ RequestFails(r)
        PROVE  request'[s] = request[s] \/ request'[s].at # "stamped"
    <3>1. request' = [request EXCEPT ![r] = Idle]
      BY <2>3 DEF CreateLog, AnswerRefuse, AnswerSave, RequestFails
    <3>2. QED
      BY <3>1 DEF TypeOK, Idle
  <2>4. QED
    BY <1>2, <2>1, <2>2, <2>3, NextCases DEF vars
<1>3. QED
  BY <1>1, <1>2 DEF StampsCarryTerms

\* Every step keeps what is known of an acceptance on the row.
LEMMA TermsStep ==
    ASSUME ~ failed', TypeOK, OpenedFirst, StampsTold, StampsCarryTerms, TermsComing,
           [Next]_vars
    PROVE  TermsComing'
<1>1. ASSUME NEW r \in Requests, NEW status \in Statuses, NEW price \in Prices,
             CreateCommit(r, status, price)
      PROVE  TermsComing'
  <2>1. history = <<>> /\ \A s \in Requests : request[s] = Idle
    BY <1>1 DEF CreateCommit, OpenedFirst, Quiet
  <2>2. request'[r].at = "inserted" /\ \A s \in Requests \ {r} : request'[s].at = "idle"
    BY <1>1, <2>1 DEF CreateCommit, TypeOK, Idle
  <2>3. history' = <<>> /\ Len(history') = 0
    BY <1>1, <2>1 DEF CreateCommit
  <2>4. QED
    BY <2>2, <2>3 DEF ClosedAtOnce, TermsComing
<1>2. ASSUME NEW r \in Requests, CreateLog(r)
      PROVE  TermsComing'
  <2>1. PICK action \in Statuses, price \in Prices :
            action = request[r].action /\ price = request[r].price
    BY <1>2, RequestShape DEF CreateLog, Opening
  <2>2. LogHistory(action, price)
    BY <1>2, <2>1 DEF CreateLog
  <2>3. Len(history') = Len(history) + 1
    BY <2>2, LoggedRow DEF TypeOK
  <2>4. /\ row' = row /\ request[r].at = "inserted" /\ request'[r].at = "idle"
        /\ \A s \in Requests \ {r} : request'[s] = request[s]
    BY <1>2 DEF CreateLog, TypeOK, Idle
  <2>5. ASSUME ClosedAtOnce PROVE ClosedAtOnce'
    <3>1. history = <<>> /\ \A s \in Requests \ {r} : request[s].at # "inserted"
      BY <2>4, <2>5 DEF ClosedAtOnce
    <3>2. Len(history') <= 1
      BY <2>3, <3>1
    <3>3. QED
      BY <2>4, <2>5, <3>1, <3>2 DEF ClosedAtOnce
  <2>6. QED
    BY <2>4, <2>5 DEF TermsComing
<1>3. ASSUME NEW r \in Requests, NEW action \in Statuses, NEW price \in Prices \cup {NoPrice},
             AnswerRead(r, action, price)
      PROVE  TermsComing'
  <2>1. /\ UNCHANGED <<row, history>>
        /\ request[r].at = "idle" /\ request'[r].at = "read" /\ request'[r].copy = row
        /\ \A s \in Requests \ {r} : request'[s] = request[s]
    BY <1>3 DEF AnswerRead, TypeOK, Idle
  <2>2. row'.status = "ACCEPTED" /\ ClosedAtOnce => ClosedAtOnce'
    BY <2>1 DEF ClosedAtOnce
  <2>3. (\E s \in Requests : request[s].at = "stamped")
            => \E s \in Requests : request'[s].at = "stamped"
    BY <2>1
  <2>4. QED
    BY <2>1, <2>2, <2>3 DEF TermsComing
<1>4. ASSUME NEW r \in Requests, AnswerRefuse(r)
      PROVE  TermsComing'
  <2>1. /\ UNCHANGED <<row, history>>
        /\ request[r].at = "read" /\ request'[r].at = "idle"
        /\ \A s \in Requests \ {r} : request'[s] = request[s]
    BY <1>4 DEF AnswerRefuse, TypeOK, Idle
  <2>2. ClosedAtOnce => ClosedAtOnce'
    BY <2>1 DEF ClosedAtOnce
  <2>3. (\E s \in Requests : request[s].at = "stamped")
            => \E s \in Requests : request'[s].at = "stamped"
    BY <2>1
  <2>4. QED
    BY <2>1, <2>2, <2>3 DEF TermsComing
<1>5. ASSUME NEW r \in Requests, AnswerStamp(r)
      PROVE  TermsComing'
  <2>1. row # NoRow
    BY <1>5 DEF AnswerStamp, OpenedFirst, Quiet, Idle
  <2>2. request'[r].at = "stamped"
    BY <1>5, <2>1, StampMove
  <2>3. QED
    BY <2>2 DEF TermsComing
<1>6. ASSUME NEW r \in Requests, AnswerSave(r)
      PROVE  TermsComing'
  <2>1. /\ row'.status = request[r].action
        /\ request[r].price # NoPrice => row'.price = request[r].price
        /\ row'.accepted_at = request[r].copy.accepted_at
        /\ row'.final_price = request[r].copy.final_price
    BY <1>6, SaveMove
  <2>2. request[r].at = "stamped"
    BY <1>6 DEF AnswerSave
  <2>3. QED
    BY <2>1, <2>2 DEF StampsTold, StampsCarryTerms, TermsComing
<1>7. CASE UNCHANGED vars
  BY <1>7 DEF vars, TermsComing, ClosedAtOnce
<1>8. QED
  BY <1>1, <1>2, <1>3, <1>4, <1>5, <1>6, <1>7, NextCases DEF RequestFails

-----------------------------------------------------------------------------

\* What every step keeps: a status rests on stamps and history that requests
\* in flight still hold, so the properties alone are not inductive.
IInv ==
    /\ TypeOK /\ OpenedFirst
    /\ ~ failed => StampsTold /\ StampsCarryTerms /\ StatusBacked /\ TermsComing

\* Nothing is open at the start.
LEMMA IInvInit == Init => IInv
<1> SUFFICES ASSUME Init PROVE IInv
  OBVIOUS
<1>1. row = NoRow /\ history = <<>> /\ \A r \in Requests : request[r] = Idle
  BY DEF Init
<1>2. OpenedFirst /\ StampsTold /\ StampsCarryTerms /\ StatusBacked /\ TermsComing
  BY <1>1 DEF OpenedFirst, Quiet, StampsTold, StampsCarryTerms, StatusBacked, TermsComing, Idle
<1>3. QED
  BY <1>2, TypeInit DEF IInv

\* Every step keeps it, until a thread dies.
LEMMA IInvStep == IInv /\ [Next]_vars => IInv'
<1> SUFFICES ASSUME IInv, [Next]_vars PROVE IInv'
  OBVIOUS
<1>1. TypeOK' /\ OpenedFirst'
  BY TypeStep DEF IInv
<1>2. ASSUME ~ failed'
      PROVE  StampsTold' /\ StampsCarryTerms' /\ StatusBacked' /\ TermsComing'
  <2>1. StampsTold /\ StampsCarryTerms /\ StatusBacked /\ TermsComing
    BY <1>2, FailedStays DEF IInv
  <2>2. QED
    BY <1>2, <2>1, BackedStep, TermsCarriedStep, TermsStep DEF IInv
<1>3. QED
  BY <1>1, <1>2 DEF IInv

\* Every variable keeps the shape the database and the threads give it
\* (TypeOK of Negotiation), also when threads die.
THEOREM TypeCorrect == Spec => []TypeOK
<1>1. Init => TypeOK /\ OpenedFirst
  BY TypeInit DEF Init, OpenedFirst, Quiet
<1>2. QED
  BY <1>1, TypeStep, PTL DEF Spec

\* Whoever sees a decided or countered negotiation finds that action at that
\* price in its history, however many answers overlap, unless a thread died
\* (chats/serializers.py:467-480).
THEOREM StatusIsInHistory == Spec => []HistoryBacksStatus
<1>1. IInv => HistoryBacksStatus
  BY DEF IInv, StatusBacked, HistoryBacksStatus
<1>2. QED
  BY <1>1, IInvInit, IInvStep, PTL DEF Spec

\* Once the answers are through, an acceptance is stamped and its final price
\* is the price on the row, however many overlapped (models.py:503).
THEOREM AcceptancesHaveTerms == Spec => []ClosedOnTerms
<1>1. IInv => ClosedOnTerms
  <2> SUFFICES ASSUME IInv, ~ failed, Quiet, row # NoRow, row.status = "ACCEPTED", Len(history) > 1
               PROVE  row.accepted_at /\ row.final_price = row.price
    BY DEF ClosedOnTerms
  <2>1. ~ ClosedAtOnce
    <3>1. Len(history) \in Nat
      BY DEF IInv, TypeOK
    <3>2. QED
      BY <3>1 DEF ClosedAtOnce
  <2>2. \A r \in Requests : request[r].at # "stamped"
    BY DEF Quiet, Idle
  <2>3. QED
    BY <2>1, <2>2 DEF IInv, TermsComing
<1>2. QED
  BY <1>1, IInvInit, IInvStep, PTL DEF Spec

-----------------------------------------------------------------------------

\* No two requests are in flight.
OneAtATime ==
    \A r, s \in Requests : r # s => request[r].at = "idle" \/ request[s].at = "idle"

\* Alone, an answer works on the row as it is, and stamps open ones only.
CopiesAreFresh ==
    \A r \in Requests :
        /\ request[r].at \in {"read", "stamped"} => request[r].copy = row
        /\ request[r].at = "stamped" => row.status # "ACCEPTED"

\* Every step keeps the copy fresh, as nobody else writes the row.
LEMMA FreshStep ==
    ASSUME OneAtATime, OneAtATime', TypeOK, OpenedFirst, CopiesAreFresh, [Next]_vars
    PROVE  CopiesAreFresh'
<1>1. ASSUME NEW r \in Requests, NEW status \in Statuses, NEW price \in Prices,
             CreateCommit(r, status, price)
      PROVE  CopiesAreFresh'
  <2>1. request'[r].at = "inserted"
    BY <1>1 DEF CreateCommit, TypeOK
  <2>2. QED
    BY <2>1 DEF CopiesAreFresh, OneAtATime
<1>2. ASSUME NEW r \in Requests, NEW action \in Statuses, NEW price \in Prices \cup {NoPrice},
             AnswerRead(r, action, price)
      PROVE  CopiesAreFresh'
  <2>1. request'[r].at = "read" /\ request'[r].copy = row /\ row' = row
    BY <1>2 DEF AnswerRead, TypeOK
  <2>2. QED
    BY <2>1 DEF CopiesAreFresh, OneAtATime
<1>3. ASSUME NEW r \in Requests, AnswerStamp(r)
      PROVE  CopiesAreFresh'
  <2>1. row # NoRow /\ request[r].at = "read" /\ request[r].copy = row
    BY <1>3 DEF AnswerStamp, OpenedFirst, Quiet, Idle, CopiesAreFresh
  <2>2. row \in Row /\ request[r] \in Answering
    BY <1>3, <2>1, StampMove
  <2>3. request[r].action \in Statuses /\ request[r].price \in Prices \cup {NoPrice}
    BY <2>2 DEF Answering
  <2>4. row.status # "ACCEPTED"
    BY <1>3, <2>1 DEF AnswerStamp, Refused, Closed
  <2>5. row'.status # "ACCEPTED"
    BY <1>3, <2>1, <2>2, <2>3, <2>4, StampMove, StampedRow
  <2>6. request'[r].copy = row' /\ request'[r].at = "stamped"
    BY <1>3, <2>1, StampMove
  <2>7. QED
    BY <2>5, <2>6 DEF CopiesAreFresh, OneAtATime
<1>4. ASSUME NEW r \in Requests,
             CreateLog(r) \/ AnswerRefuse(r) \/ AnswerSave(r) \/ RequestFails(r)
      PROVE  CopiesAreFresh'
  <2>1. request'[r] = Idle
    BY <1>4 DEF CreateLog, AnswerRefuse, AnswerSave, RequestFails, TypeOK
  <2>2. QED
    BY <1>4, <2>1, RequestShape
       DEF CopiesAreFresh, OneAtATime, Idle, CreateLog, AnswerRefuse, AnswerSave,
           RequestFails, TypeOK
<1>5. CASE UNCHANGED vars
  BY <1>5 DEF vars, CopiesAreFresh
<1>6. QED
  BY <1>1, <1>2, <1>3, <1>4, <1>5, NextCases

\* A step of fresh answers leaves an accepted negotiation accepted.
LEMMA AcceptedStep ==
    ASSUME TypeOK, OpenedFirst, CopiesAreFresh, [Next]_vars,
           row # NoRow, row.status = "ACCEPTED"
    PROVE  row'.status = "ACCEPTED"
<1>1. ASSUME NEW r \in Requests, AnswerStamp(r)
      PROVE  row'.status = "ACCEPTED"
  <2>1. row \in Row /\ request[r] \in Answering
    BY <1>1, StampMove
  <2>2. request[r].action \in Statuses /\ request[r].price \in Prices \cup {NoPrice}
    BY <2>1 DEF Answering
  <2>3. QED
    BY <1>1, <2>1, <2>2, StampMove, StampedRow
<1>2. ASSUME NEW r \in Requests, AnswerSave(r)
      PROVE  FALSE
  BY <1>2 DEF AnswerSave, CopiesAreFresh
<1>3. QED
  BY <1>1, <1>2, NextCases
     DEF CreateCommit, CreateLog, AnswerRead, AnswerRefuse, RequestFails, vars
=============================================================================
