------------------------------ MODULE Ranking ------------------------------
(***************************************************************************)
(* The score of the posts of one feed request (RecommendationService.      *)
(* get_feed): the candidates are read, then in a second query the highest  *)
(* engagement_count, and then each post is scored from the copies.  The    *)
(* signals recount posts between the two queries.  Scores and signals are  *)
(* in hundredths of hundredths: a weight of 0.35 is 35, a full signal 100. *)
(*                                                                         *)
(* Left out: the sort, because FeedListView orders the posts anew (Feed).  *)
(*                                                                         *)
(* An operator marked "faulty" stands for a plausible bug: only the mutant *)
(* runs use it, in the place of the definition that follows it.            *)
(***************************************************************************)
EXTENDS Naturals

CONSTANTS
    Posts,    \* the candidates
    Counts,   \* values of engagement_count
    Signals   \* what else is known of a post and its author, records:
              \*   trust       trust_score of the author, in hundredths
              \*   near        its location is the viewer's
              \*   days        its age
              \*   vouchers    reposts with a comment by trusted neighbours
              \*   active_user is_active_user of the author

VARIABLES
    engagement_count,  \* of the Post rows
    signal,            \* signal[p] \in Signals
    candidate,         \* the counts as the first query read them, or NotRead
    max_engagement,    \* the result of the second query, or NotRead
    score              \* score[p], or NotRead

vars == <<engagement_count, signal, candidate, max_engagement, score>>

NotRead == [read |-> FALSE]

Init ==
    /\ engagement_count \in [Posts -> Counts]
    /\ signal \in [Posts -> Signals]
    /\ candidate = NotRead
    /\ max_engagement = NotRead
    /\ score = NotRead

\* The signals of posts/signals.py count again.
Recount(p, n) ==
    /\ engagement_count' = [engagement_count EXCEPT ![p] = n]
    /\ UNCHANGED <<signal, candidate, max_engagement, score>>

GetCandidates ==
    /\ candidate = NotRead
    /\ candidate' = engagement_count
    /\ UNCHANGED <<engagement_count, signal, max_engagement, score>>

GetMaxEngagement ==
    /\ candidate # NotRead
    /\ max_engagement = NotRead
    /\ \E p \in Posts :
          /\ \A q \in Posts : engagement_count[q] <= engagement_count[p]
          /\ max_engagement' = [max |-> engagement_count[p]]
    /\ UNCHANGED <<engagement_count, signal, candidate, score>>

-----------------------------------------------------------------------------
(* _score_post                                                             *)

AtMost(cap, n) == IF n > cap THEN cap ELSE n

\* Faulty: the share is not cut at 1.
EngagementShare(p) ==
    IF max_engagement.max = 0 THEN 0 ELSE (100 * candidate[p]) \div max_engagement.max

EngagementScore(p) ==
    IF max_engagement.max = 0
    THEN 0
    ELSE AtMost(100, (100 * candidate[p]) \div max_engagement.max)

\* No interests are passed, so 0.2 for them always.
RelevanceScore(s) == IF s.near THEN 70 ELSE 20

RecencyScore(s) == 100 \div (1 + s.days)

RepostBoost(s) == AtMost(50, 20 * s.vouchers)

\* Faulty: the weights of trust and engagement are swapped.
PopularFirst(p) ==
    LET s == signal[p] IN
    25 * s.trust + 35 * EngagementScore(p) + 20 * RelevanceScore(s)
    + 10 * RecencyScore(s) + 10 * RepostBoost(s)

ScorePost(p) ==
    LET s == signal[p] IN
    35 * s.trust + 25 * EngagementScore(p) + 20 * RelevanceScore(s)
    + 10 * RecencyScore(s) + 10 * RepostBoost(s)

\* Posts of active users count a tenth more.
Boosted(p) == IF signal[p].active_user THEN (ScorePost(p) * 11) \div 10 ELSE ScorePost(p)

RankAndBoost ==
    /\ max_engagement # NotRead
    /\ score = NotRead
    /\ score' = [p \in Posts |-> Boosted(p)]
    /\ UNCHANGED <<engagement_count, signal, candidate, max_engagement>>

Next ==
    \/ \E p \in Posts, n \in Counts : Recount(p, n)
    \/ GetCandidates
    \/ GetMaxEngagement
    \/ RankAndBoost

Spec == Init /\ [][Next]_vars

-----------------------------------------------------------------------------

\* Every variable keeps its shape; a score stays between 0.0 and 1.0, with the
\* boost for active users too, also when posts are counted again between the
\* two queries.  That is less than the code's docs allow the boost: "1.0+"
\* (recommendation_service.py:237), "~1.5" (feed_serializer.py:51).  No post
\* gets full relevance or a full repost boost, so 0.979 is the most.
TypeOK ==
    /\ engagement_count \in [Posts -> Counts]
    /\ signal \in [Posts -> Signals]
    /\ candidate = NotRead \/ candidate \in [Posts -> Counts]
    /\ max_engagement = NotRead \/ max_engagement \in [max : Counts]
    /\ score # NotRead =>
          score \in [Posts -> Nat] /\ \A p \in Posts : score[p] <= 10000

\* "Trust score is the single most important signal" (_trust_score): of two
\* posts that are alike in everything else, the one whose author is fully
\* trusted comes before one of an unknown author, however popular that is
\* and however the counts move while the feed is computed.
TrustOutweighsPopularity ==
    score # NotRead =>
        \A p, q \in Posts :
            /\ signal[p].trust = 100 /\ signal[q].trust = 0
            /\ [signal[p] EXCEPT !.trust = 0] = signal[q]
            => score[p] > score[q]
=============================================================================
