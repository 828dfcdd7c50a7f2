----------------------------- MODULE FeedProofs -----------------------------
(***************************************************************************)
(* How long a post stays in the feed after it was deleted, for every       *)
(* number of posts, requests that overlap, and lengths of the cache and of *)
(* a request.                                                              *)
(***************************************************************************)
EXTENDS Feed, TLAPS

\* What a request carries was shown when the request began, so it is hidden
\* no longer than the request has run.
CarriedIsFresh ==
    \A r \in Requests : request[r] # Idle =>
        \A p \in request[r].posts :
            p \notin Shown => gone[p] <= RequestTime - request[r].left

\* What the cache holds was answered when its entry was made, and the answer
\* is as old as its request at most.
CachedIsFresh ==
    cached # NoAnswer =>
        \A p \in cached.posts : p \notin Shown => gone[p] <= Horizon - cached.left

\* DeletedLeavesTheFeed looks at answers only: a step can break it unless the
\* copies that answers are made from are bounded as well.
FeedInv == TypeOK /\ CarriedIsFresh /\ CachedIsFresh /\ DeletedLeavesTheFeed

\* A request at work is not idle, and its fields have the types of Working.
LEMMA RequestShape ==
    ASSUME TypeOK, NEW r \in Requests
    PROVE  /\ request[r] # Idle <=> request[r].at \in {"candidates", "filtered"}
           /\ request[r] # Idle =>
                /\ request[r] \in Working
                /\ request[r].posts \subseteq Posts
                /\ request[r].left \in 0 .. RequestTime
BY DEF TypeOK, Idle, Working

\* An answer in the cache has posts and some time left.
LEMMA CachedShape ==
    ASSUME TypeOK
    PROVE  /\ cached # NoAnswer =>
                /\ cached.posts \subseteq Posts
                /\ cached.left \in 1 .. TTL
           /\ cached = NoAnswer => cached.left = 0
BY DEF TypeOK, NoAnswer

\* Whoever moves, the action is one of these.
LEMMA NextCases ==
    ASSUME Next
    PROVE  \/ \E p \in Posts : Publish(p)
           \/ \E p \in Posts : SoftDelete(p)
           \/ \E p \in Posts : View(p)
           \/ \E r \in Requests : CacheHit(r)
           \/ \E r \in Requests : GetCandidates(r)
           \/ \E r \in Requests : ApplyFilters(r)
           \/ \E r \in Requests : Answer(r)
           \/ \E r \in Requests : RequestFails(r)
           \/ Tick
BY DEF Next

\* Publishing, deleting and viewing hide a post only with a clock that starts
\* at nought.
LEMMA HidingStartsTheClock ==
    ASSUME TypeOK, NEW p \in Posts, Publish(p) \/ SoftDelete(p) \/ View(p),
           NEW q \in Posts, q \notin Shown'
    PROVE  (q \notin Shown /\ gone'[q] = gone[q]) \/ gone'[q] = 0
<1>1. CASE Publish(p)
  BY <1>1 DEF Publish, Shown, TypeOK
<1>2. CASE SoftDelete(p)
  <2>1. q \in Shown => q = p
    BY <1>2 DEF SoftDelete, Shown, TypeOK
  <2>2. gone'[q] = IF q = p /\ p \in Shown THEN 0 ELSE gone[q]
    BY <1>2 DEF SoftDelete, Hides, TypeOK
  <2>3. QED
    BY <2>1, <2>2
<1>3. CASE View(p)
  <2>1. q \in Shown => q = p /\ ExcludeSeen
    BY <1>3 DEF View, Shown
  <2>2. ExcludeSeen => gone'[q] = IF q = p /\ p \in Shown THEN 0 ELSE gone[q]
    BY <1>3 DEF View, Hides, TypeOK
  <2>3. ~ ExcludeSeen => gone'[q] = gone[q]
    BY <1>3 DEF View
  <2>4. QED
    BY <2>1, <2>2, <2>3
<1>4. QED
  BY <1>1, <1>2, <1>3

\* A minute adds at most one to a clock, and shows no post anew.
LEMMA TickOnClocks ==
    ASSUME TypeOK, Tick, NEW q \in Posts
    PROVE  /\ q \in Shown' <=> q \in Shown
           /\ gone'[q] \in {gone[q], gone[q] + 1}
           /\ gone[q] > Horizon => gone'[q] = gone[q]
<1>1. q \in Shown' <=> q \in Shown
  BY DEF Tick, Shown
<1>2. gone'[q] = IF q \in Shown \/ post[q] = "none" \/ gone[q] > Horizon
                 THEN gone[q] ELSE gone[q] + 1
  BY DEF Tick
<1>3. QED
  BY <1>1, <1>2, Zenon

\* The variables have their shapes at the start.
LEMMA TypeInit == Init => TypeOK
<1>1. 0 \in 0 .. Horizon + 1
  BY FeedAssumption DEF Horizon
<1>2. QED
  BY <1>1 DEF Init, TypeOK

\* Every step keeps the shapes.
LEMMA TypeStep == TypeOK /\ [Next]_vars => TypeOK'
<1> SUFFICES ASSUME TypeOK, [Next]_vars PROVE TypeOK'
  OBVIOUS
<1>h. Horizon \in Nat /\ Horizon = TTL + RequestTime
  BY FeedAssumption DEF Horizon
<1>1. ASSUME NEW p \in Posts, Publish(p) PROVE TypeOK'
  BY <1>1 DEF Publish, TypeOK
<1>2. ASSUME NEW p \in Posts, SoftDelete(p) PROVE TypeOK'
  <2>1. gone' \in [Posts -> 0 .. Horizon + 1]
    BY <1>2, <1>h DEF SoftDelete, Hides, TypeOK
  <2>2. QED
    BY <1>2, <2>1 DEF SoftDelete, TypeOK
<1>3. ASSUME NEW p \in Posts, View(p) PROVE TypeOK'
  <2>1. gone' \in [Posts -> 0 .. Horizon + 1]
    BY <1>3, <1>h DEF View, Hides, TypeOK
  <2>2. QED
    BY <1>3, <2>1 DEF View, TypeOK
<1>4. ASSUME NEW r \in Requests, CacheHit(r) PROVE TypeOK'
  <2>1. served' \subseteq Posts
    BY <1>4, CachedShape DEF CacheHit
  <2>2. QED
    BY <1>4, <2>1 DEF CacheHit, TypeOK
<1>5. ASSUME NEW r \in Requests, GetCandidates(r) PROVE TypeOK'
  <2>1. [at |-> "candidates", posts |-> Candidates, left |-> RequestTime] \in Working
    BY FeedAssumption DEF Working, Candidates, Shown
  <2>2. QED
    BY <1>5, <2>1 DEF GetCandidates, TypeOK
<1>6. ASSUME NEW r \in Requests, ApplyFilters(r) PROVE TypeOK'
  <2>1. PICK posts \in SUBSET request[r].posts :
            request' = [request EXCEPT ![r].at = "filtered", ![r].posts = posts]
    BY <1>6 DEF ApplyFilters
  <2>2. request[r] \in Working /\ request[r].posts \subseteq Posts
    BY <1>6, RequestShape DEF ApplyFilters
  <2>3. [request[r] EXCEPT !.at = "filtered", !.posts = posts] \in Working
    BY <2>2 DEF Working
  <2>4. request' \in [Requests -> {Idle} \cup Working]
    BY <2>1, <2>3 DEF TypeOK
  <2>5. QED
    BY <1>6, <2>4 DEF ApplyFilters, TypeOK
<1>7. ASSUME NEW r \in Requests, Answer(r) PROVE TypeOK'
  <2>1. request[r].posts \subseteq Posts
    BY <1>7, RequestShape DEF Answer
  <2>2. Entry(request[r].posts) \in [posts : SUBSET Posts, left : 1 .. TTL]
    BY <2>1, FeedAssumption DEF Entry
  <2>3. QED
    BY <1>7, <2>1, <2>2 DEF Answer, TypeOK
<1>8. ASSUME NEW r \in Requests, RequestFails(r) PROVE TypeOK'
  BY <1>8 DEF RequestFails, TypeOK
<1>9. ASSUME Tick PROVE TypeOK'
  <2>1. gone' \in [Posts -> 0 .. Horizon + 1]
    BY <1>9, <1>h DEF Tick, TypeOK
  <2>2. cached' \in {NoAnswer} \cup [posts : SUBSET Posts, left : 1 .. TTL]
    <3>1. CASE cached.left <= 1
      BY <1>9, <3>1 DEF Tick
    <3>2. CASE ~ (cached.left <= 1)
      <4>1. cached \in [posts : SUBSET Posts, left : 1 .. TTL] /\ cached.left - 1 \in 1 .. TTL
        BY <3>2, FeedAssumption, CachedShape DEF TypeOK
      <4>2. cached' = [cached EXCEPT !.left = cached.left - 1]
        BY <1>9, <3>2 DEF Tick
      <4>3. QED
        BY <4>1, <4>2
    <3>3. QED
      BY <3>1, <3>2
  <2>3. ASSUME NEW r \in Requests, request[r] # Idle
        PROVE  [request[r] EXCEPT !.left = @ - 1] \in Working
    <3>1. request[r] \in Working /\ request[r].left - 1 \in 0 .. RequestTime
      BY <1>9, <2>3, FeedAssumption, RequestShape DEF Tick
    <3>2. QED
      BY <3>1 DEF Working
  <2>4. request' \in [Requests -> {Idle} \cup Working]
    BY <1>9, <2>3 DEF Tick
  <2>5. post' \in [Posts -> {"none", "active", "deleted"}] /\ seen' \subseteq Posts
            /\ served' \subseteq Posts
    BY <1>9 DEF Tick, TypeOK
  <2>6. QED
    BY <2>1, <2>2, <2>4, <2>5 DEF TypeOK, Horizon
<1>10. CASE UNCHANGED vars
  BY <1>10 DEF vars, TypeOK
<1>11. QED
  BY <1>1, <1>2, <1>3, <1>4, <1>5, <1>6, <1>7, <1>8, <1>9, <1>10, NextCases

\* Every variable keeps the shape the database, the cache and the threads
\* give it (TypeOK of Feed).
THEOREM TypeCorrect == Spec => []TypeOK
BY TypeInit, TypeStep, PTL DEF Spec

\* Nothing is hidden, carried, cached or served at the start.
LEMMA FreshInit == Init => CarriedIsFresh /\ CachedIsFresh /\ DeletedLeavesTheFeed
BY DEF Init, CarriedIsFresh, CachedIsFresh, DeletedLeavesTheFeed, NoAnswer, Idle

\* A step that touches posts only hides them with a clock at nought.
LEMMA PostStep ==
    ASSUME FeedInv, NEW p \in Posts, Publish(p) \/ SoftDelete(p) \/ View(p)
    PROVE  CarriedIsFresh' /\ CachedIsFresh' /\ DeletedLeavesTheFeed'
<1> USE FeedAssumption DEF Horizon
<1>1. UNCHANGED <<cached, request, served>>
  BY DEF Publish, SoftDelete, View
<1>2. TypeOK /\ \A q \in Posts : gone[q] \in Nat
  BY DEF FeedInv, TypeOK
<1>3. \A q \in Posts : q \notin Shown' =>
          (q \notin Shown /\ gone'[q] = gone[q]) \/ gone'[q] = 0
  BY <1>2, HidingStartsTheClock
<1>4. CarriedIsFresh'
  <2> SUFFICES ASSUME NEW r \in Requests, request'[r] # Idle,
                      NEW q \in request'[r].posts, q \notin Shown'
               PROVE  gone'[q] <= RequestTime - request'[r].left
    BY DEF CarriedIsFresh
  <2>1. request'[r] = request[r]
    BY <1>1
  <2>2. q \in Posts /\ request[r].left \in 0 .. RequestTime
    BY <1>2, <2>1, RequestShape
  <2>3. q \notin Shown => gone[q] <= RequestTime - request[r].left
    BY <2>1 DEF FeedInv, CarriedIsFresh
  <2>4. QED
    BY <1>3, <2>1, <2>2, <2>3
<1>5. CachedIsFresh'
  <2> SUFFICES ASSUME cached' # NoAnswer, NEW q \in cached'.posts, q \notin Shown'
               PROVE  gone'[q] <= Horizon - cached'.left
    BY DEF CachedIsFresh
  <2>1. q \in Posts /\ cached.left \in 1 .. TTL /\ cached # NoAnswer
    BY <1>1, <1>2, CachedShape
  <2>2. q \notin Shown => gone[q] <= Horizon - cached.left
    BY <1>1, <2>1 DEF FeedInv, CachedIsFresh
  <2>3. QED
    BY <1>1, <1>3, <2>1, <2>2
<1>6. DeletedLeavesTheFeed'
  <2> SUFFICES ASSUME NEW q \in served', q \notin Shown'
               PROVE  gone'[q] <= Horizon
    BY DEF DeletedLeavesTheFeed
  <2>1. q \in Posts /\ q \in served
    BY <1>1, <1>2 DEF TypeOK
  <2>2. q \notin Shown => gone[q] <= Horizon
    BY <2>1 DEF FeedInv, DeletedLeavesTheFeed
  <2>3. QED
    BY <1>3, <2>1, <2>2
<1>7. QED
  BY <1>4, <1>5, <1>6

\* A minute takes one from what is left and adds one at most to a clock.
LEMMA TimeStep ==
    ASSUME FeedInv, Tick
    PROVE  CarriedIsFresh' /\ CachedIsFresh' /\ DeletedLeavesTheFeed'
<1> USE FeedAssumption DEF Horizon
<1>1. TypeOK /\ \A q \in Posts : gone[q] \in Nat
  BY DEF FeedInv, TypeOK
<1>2. \A q \in Posts : (q \in Shown' <=> q \in Shown) /\ gone'[q] \in {gone[q], gone[q] + 1}
  BY <1>1, TickOnClocks
<1>3. CarriedIsFresh'
  <2> SUFFICES ASSUME NEW r \in Requests, request'[r] # Idle,
                      NEW q \in request'[r].posts, q \notin Shown'
               PROVE  gone'[q] <= RequestTime - request'[r].left
    BY DEF CarriedIsFresh
  <2>1. request[r] # Idle /\ request'[r] = [request[r] EXCEPT !.left = @ - 1]
    BY DEF Tick
  <2>2. request[r] \in Working
    BY <1>1, <2>1, RequestShape
  <2>3. request'[r].posts = request[r].posts /\ request'[r].left = request[r].left - 1
    BY <2>1, <2>2 DEF Working
  <2>4. q \in Posts /\ request[r].left \in 0 .. RequestTime
    BY <1>1, <2>1, <2>3, RequestShape
  <2>5. q \notin Shown => gone[q] <= RequestTime - request[r].left
    BY <2>1, <2>3 DEF FeedInv, CarriedIsFresh
  <2>6. QED
    BY <1>1, <1>2, <2>3, <2>4, <2>5
<1>4. CachedIsFresh'
  <2> SUFFICES ASSUME cached' # NoAnswer, NEW q \in cached'.posts, q \notin Shown'
               PROVE  gone'[q] <= Horizon - cached'.left
    BY DEF CachedIsFresh
  <2>1. cached' = [cached EXCEPT !.left = @ - 1] /\ ~ (cached.left <= 1)
    BY DEF Tick
  <2>2. cached # NoAnswer
    BY <1>1, <2>1, CachedShape
  <2>3. cached \in [posts : SUBSET Posts, left : 1 .. TTL]
    BY <1>1, <2>2 DEF TypeOK
  <2>4. cached'.posts = cached.posts /\ cached'.left = cached.left - 1
    BY <2>1, <2>3
  <2>5. q \in Posts /\ cached.left \in 1 .. TTL
    BY <1>1, <2>2, <2>4, CachedShape
  <2>6. q \notin Shown => gone[q] <= Horizon - cached.left
    BY <2>2, <2>4 DEF FeedInv, CachedIsFresh
  <2>7. QED
    BY <1>1, <1>2, <2>4, <2>5, <2>6
<1>5. DeletedLeavesTheFeed'
  BY DEF Tick, DeletedLeavesTheFeed
<1>6. QED
  BY <1>3, <1>4, <1>5

\* What a request or the cache hands over keeps its bound.
LEMMA RequestStep ==
    ASSUME FeedInv, NEW r \in Requests,
           CacheHit(r) \/ GetCandidates(r) \/ ApplyFilters(r) \/ Answer(r) \/ RequestFails(r)
    PROVE  CarriedIsFresh' /\ CachedIsFresh' /\ DeletedLeavesTheFeed'
<1> USE FeedAssumption DEF Horizon
<1>1. UNCHANGED <<post, gone, seen>>
  BY DEF CacheHit, GetCandidates, ApplyFilters, Answer, RequestFails
<1>2. TypeOK /\ (\A q \in Posts : gone[q] \in Nat) /\ Shown' = Shown
  BY <1>1 DEF FeedInv, TypeOK, Shown
<1>3. ASSUME NEW s \in Requests, request'[s] # Idle,
             NEW q \in request'[s].posts, q \notin Shown'
      PROVE  gone'[q] <= RequestTime - request'[s].left
  <2>1. CASE request'[s] = request[s]
    BY <1>1, <1>2, <1>3, <2>1 DEF FeedInv, CarriedIsFresh
  <2>2. CASE s = r /\ GetCandidates(r)
    <3>1. request'[s] = [at |-> "candidates", posts |-> Candidates, left |-> RequestTime]
      BY <1>2, <2>2 DEF GetCandidates, TypeOK
    <3>2. q \in Shown
      BY <1>3, <3>1 DEF Candidates
    <3>3. QED
      BY <1>2, <1>3, <3>2
  <2>3. CASE s = r /\ ApplyFilters(r)
    <3>1. PICK posts \in SUBSET request[r].posts :
              request' = [request EXCEPT ![r].at = "filtered", ![r].posts = posts]
      BY <2>3 DEF ApplyFilters
    <3>2. request[r] \in Working /\ request[r] # Idle
      BY <1>2, <2>3, RequestShape DEF ApplyFilters
    <3>3. request'[s] = [[request[r] EXCEPT !.at = "filtered"] EXCEPT !.posts = posts]
      BY <1>2, <2>3, <3>1 DEF TypeOK
    <3>4. request'[s].posts = posts /\ request'[s].left = request[r].left
      BY <3>2, <3>3 DEF Working
    <3>5. QED
      BY <1>1, <1>2, <1>3, <3>2, <3>4 DEF FeedInv, CarriedIsFresh
  <2>4. CASE request'[s] = Idle
    BY <1>3, <2>4
  <2>5. request'[s] = request[s] \/ request'[s] = Idle
            \/ (s = r /\ (GetCandidates(r) \/ ApplyFilters(r)))
    BY <1>2 DEF CacheHit, GetCandidates, ApplyFilters, Answer, RequestFails, TypeOK
  <2>6. QED
    BY <2>1, <2>2, <2>3, <2>4, <2>5
<1>4. CachedIsFresh'
  <2>1. CASE cached' = cached
    BY <1>1, <1>2, <2>1 DEF FeedInv, CachedIsFresh
  <2>2. CASE Answer(r) /\ cached' = Entry(request[r].posts)
    <3>1. request[r] # Idle /\ request[r].left \in 0 .. RequestTime
              /\ request[r].posts \subseteq Posts
      BY <1>2, <2>2, RequestShape DEF Answer
    <3>2. cached'.posts = request[r].posts /\ cached'.left = TTL
      BY <2>2 DEF Entry
    <3>3. \A q \in request[r].posts :
              q \notin Shown => gone[q] <= RequestTime - request[r].left
      BY <3>1 DEF FeedInv, CarriedIsFresh
    <3>4. QED
      BY <1>1, <1>2, <3>1, <3>2, <3>3 DEF CachedIsFresh
  <2>3. cached' = cached \/ (Answer(r) /\ cached' = Entry(request[r].posts))
    BY DEF CacheHit, GetCandidates, ApplyFilters, Answer, RequestFails
  <2>4. QED
    BY <2>1, <2>2, <2>3
<1>5. DeletedLeavesTheFeed'
  <2>1. CASE served' = served
    BY <1>1, <1>2, <2>1 DEF FeedInv, DeletedLeavesTheFeed
  <2>2. CASE CacheHit(r)
    <3>1. cached # NoAnswer /\ served' = cached.posts
      BY <2>2 DEF CacheHit
    <3>2. cached.posts \subseteq Posts /\ cached.left \in 1 .. TTL
      BY <1>2, <3>1, CachedShape
    <3>3. \A q \in cached.posts : q \notin Shown => gone[q] <= Horizon - cached.left
      BY <3>1 DEF FeedInv, CachedIsFresh
    <3>4. QED
      BY <1>1, <1>2, <3>1, <3>2, <3>3 DEF DeletedLeavesTheFeed
  <2>3. CASE Answer(r)
    <3>1. request[r] # Idle /\ request[r].left \in 0 .. RequestTime
              /\ request[r].posts \subseteq Posts
      BY <1>2, <2>3, RequestShape DEF Answer
    <3>2. \A q \in request[r].posts :
              q \notin Shown => gone[q] <= RequestTime - request[r].left
      BY <3>1 DEF FeedInv, CarriedIsFresh
    <3>3. served' = request[r].posts
      BY <2>3 DEF Answer
    <3>4. QED
      BY <1>1, <1>2, <3>1, <3>2, <3>3 DEF DeletedLeavesTheFeed
  <2>4. QED
    BY <2>1, <2>2, <2>3 DEF GetCandidates, ApplyFilters, RequestFails
<1>6. QED
  BY <1>3, <1>4, <1>5 DEF CarriedIsFresh

\* Every step keeps the inductive invariant.
LEMMA FeedStep == FeedInv /\ [Next]_vars => FeedInv'
<1> SUFFICES ASSUME FeedInv, [Next]_vars PROVE FeedInv'
  OBVIOUS
<1>1. TypeOK'
  BY TypeStep DEF FeedInv
<1>2. CASE UNCHANGED vars
  BY <1>1, <1>2
     DEF vars, FeedInv, CarriedIsFresh, CachedIsFresh, DeletedLeavesTheFeed, Shown
<1>3. CASE Next
  BY <1>1, <1>3, NextCases, PostStep, TimeStep, RequestStep DEF FeedInv
<1>4. QED
  BY <1>2, <1>3

\* A deleted (or, when asked for, a viewed) post is out of the feed after the
\* time of the cache and of one request (posts/views.py, FeedListView.list):
\* no chain of overlapping requests that fill the cache for each other keeps
\* it longer.
THEOREM DeletedPostsLeave == Spec => []DeletedLeavesTheFeed
<1>1. Init => FeedInv
  BY TypeInit, FreshInit DEF FeedInv
<1>2. FeedInv => DeletedLeavesTheFeed
  BY DEF FeedInv
<1>3. QED
  BY <1>1, <1>2, FeedStep, PTL DEF Spec
=============================================================================
