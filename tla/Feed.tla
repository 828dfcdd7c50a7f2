-------------------------------- MODULE Feed --------------------------------
(***************************************************************************)
(* GET feed for one user and one query string (FeedListView.list): an      *)
(* answer is kept in the cache for CACHE_TTL_SECONDS; without one the      *)
(* candidates are read, filtered by a second query, answered and cached.   *)
(* Posts are published and deleted and viewed meanwhile.  Time passes in   *)
(* ticks of one minute.                                                    *)
(*                                                                         *)
(* Left out: pages, categories and the filters of the query string, and    *)
(* randomize_post, which asks the same candidates again when there were    *)
(* none; scores are in Ranking.  The answer's order is by created_at       *)
(* whatever the scores (the view's default ordering), so a set stands for  *)
(* it.                                                                     *)
(*                                                                         *)
(* An operator marked "faulty" stands for a plausible bug: only the mutant *)
(* runs use it, in the place of the definition that follows it.            *)
(***************************************************************************)
EXTENDS Naturals

CONSTANTS
    Posts,          \* all posts
    ExcludeSeen,    \* exclude_seen of the query string is present
    TTL,            \* CACHE_TTL_SECONDS, in ticks
    RequestTime,    \* ticks after which the server gives up on a request
    Requests        \* slots for requests in flight (bounds the overlap)

ASSUME FeedAssumption ==
    /\ ExcludeSeen \in BOOLEAN
    /\ TTL \in Nat \ {0}
    /\ RequestTime \in Nat

VARIABLES
    post,     \* post[p] : the status of p's row
    gone,     \* gone[p] : ticks since p was deleted or viewed (a bounded clock)
    seen,     \* posts with a VIEW interaction of the user
    cached,   \* the cached answer, or NoAnswer
    request,  \* request[r] : where request r is
    served    \* the last answer

vars == <<post, gone, seen, cached, request, served>>

-----------------------------------------------------------------------------

NoAnswer == [left |-> 0]

Idle == [at |-> "idle"]

Horizon == TTL + RequestTime

Working ==
    [at : {"candidates", "filtered"}, posts : SUBSET Posts, left : 0 .. RequestTime]

Init ==
    /\ post = [p \in Posts |-> "none"]
    /\ gone = [p \in Posts |-> 0]
    /\ seen = {}
    /\ cached = NoAnswer
    /\ request = [r \in Requests |-> Idle]
    /\ served = {}

Shown == {p \in Posts : post[p] = "active" /\ ~ (ExcludeSeen /\ p \in seen)}

-----------------------------------------------------------------------------

Publish(p) ==
    /\ post[p] = "none"
    /\ post' = [post EXCEPT ![p] = "active"]
    /\ UNCHANGED <<gone, seen, cached, request, served>>

\* A row that was hidden before keeps its clock.
Hides(p) ==
    gone' = [gone EXCEPT ![p] = IF p \in Shown THEN 0 ELSE @]

SoftDelete(p) ==
    /\ post[p] = "active"
    /\ post' = [post EXCEPT ![p] = "deleted"]
    /\ Hides(p)
    /\ UNCHANGED <<seen, cached, request, served>>

\* POST interact with a view; it asks neither for active nor for published.
View(p) ==
    /\ post[p] # "none"
    /\ p \notin seen
    /\ seen' = seen \cup {p}
    /\ IF ExcludeSeen THEN Hides(p) ELSE UNCHANGED gone
    /\ UNCHANGED <<post, cached, request, served>>

-----------------------------------------------------------------------------
(* GET feed                                                                *)

CacheHit(r) ==
    /\ request[r] = Idle
    /\ cached # NoAnswer
    /\ served' = cached.posts
    /\ UNCHANGED <<post, gone, seen, cached, request>>

\* Faulty: every post of the table is a candidate.
AnyPost == {p \in Posts : post[p] # "none"}

Candidates == Shown

GetCandidates(r) ==
    /\ request[r] = Idle
    /\ cached = NoAnswer
    /\ request' = [request EXCEPT ![r] =
            [at |-> "candidates", posts |-> Candidates, left |-> RequestTime]]
    /\ UNCHANGED <<post, gone, seen, cached, served>>

\* Looks the posts up by key once more, the deleted ones too.
ApplyFilters(r) ==
    /\ request[r].at = "candidates"
    /\ \E posts \in SUBSET request[r].posts :
          request' = [request EXCEPT ![r].at = "filtered", ![r].posts = posts]
    /\ UNCHANGED <<post, gone, seen, cached, served>>

\* Faulty: the entry is written without a timeout when it is there already.
KeptLonger(posts) ==
    [posts |-> posts, left |-> IF cached = NoAnswer THEN TTL ELSE TTL + cached.left]

Entry(posts) == [posts |-> posts, left |-> TTL]

\* The answer is cached, or the cache is down, and sent.
Answer(r) ==
    /\ request[r].at = "filtered"
    /\ \/ cached' = Entry(request[r].posts)
       \/ UNCHANGED cached
    /\ served' = request[r].posts
    /\ request' = [request EXCEPT ![r] = Idle]
    /\ UNCHANGED <<post, gone, seen>>

RequestFails(r) ==
    /\ request[r] # Idle
    /\ request' = [request EXCEPT ![r] = Idle]
    /\ UNCHANGED <<post, gone, seen, cached, served>>

\* A minute passes; a request that has had its time is given up before.
Tick ==
    /\ \A r \in Requests : request[r] # Idle => request[r].left > 0
    /\ request' = [r \in Requests |->
            IF request[r] = Idle THEN Idle ELSE [request[r] EXCEPT !.left = @ - 1]]
    /\ cached' = IF cached.left <= 1 THEN NoAnswer ELSE [cached EXCEPT !.left = @ - 1]
    /\ gone' = [p \in Posts |->
            IF p \in Shown \/ post[p] = "none" \/ gone[p] > Horizon
            THEN gone[p] ELSE gone[p] + 1]
    /\ served' = {}
    /\ UNCHANGED <<post, seen>>

Next ==
    \/ \E p \in Posts : Publish(p) \/ SoftDelete(p) \/ View(p)
    \/ \E r \in Requests :
          CacheHit(r) \/ GetCandidates(r) \/ ApplyFilters(r) \/ Answer(r) \/ RequestFails(r)
    \/ Tick

Spec == Init /\ [][Next]_vars

-----------------------------------------------------------------------------

\* Every variable keeps the shape the database, the cache and the threads
\* give it.
TypeOK ==
    /\ post \in [Posts -> {"none", "active", "deleted"}]
    /\ gone \in [Posts -> 0 .. Horizon + 1]
    /\ seen \subseteq Posts
    /\ cached \in {NoAnswer} \cup [posts : SUBSET Posts, left : 1 .. TTL]
    /\ request \in [Requests -> {Idle} \cup Working]
    /\ served \subseteq Posts

\* A deleted (or, when asked for, a viewed) post is out of the feed after
\* the five minutes of the cache and the time of one request: no chain of
\* overlapping requests that fill the cache for each other keeps it longer.
DeletedLeavesTheFeed ==
    \A p \in served : p \notin Shown => gone[p] <= Horizon
=============================================================================
