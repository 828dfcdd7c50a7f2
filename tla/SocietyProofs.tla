--------------------------- MODULE SocietyProofs ---------------------------
(***************************************************************************)
(* What the modules that Society puts side by side guarantee for every     *)
(* value of their constants: any number of posts, users, customers,        *)
(* requests in flight and primary keys.                                    *)
(***************************************************************************)
EXTENDS Society, FeedProofs, FiniteSetTheorems

(***************************************************************************)
(* A behaviour of Society is one of each module, so what a module keeps by *)
(* itself is kept here.                                                    *)
(***************************************************************************)
LEMMA OnePartMoves ==
    [SocietyNext]_societyVars =>
        [Next]_vars /\ [K!Next]_(K!vars) /\ [E!Next]_(E!vars) /\ [P!Next]_(P!vars)
<1> DEFINE Kept(p) == \A q \in Parts \ {p} : Frozen(q)
<1>1. \A p \in Parts : Kept(p) =>
        /\ p # "feed" => UNCHANGED vars
        /\ p # "ranking" => UNCHANGED K!vars
        /\ p # "engagement" => UNCHANGED E!vars
        /\ p # "reputation" => UNCHANGED P!vars
  BY DEF Parts, Frozen, K!vars, E!vars, P!vars
<1>2. \A p : Only(p) => Kept(p)
  BY DEF Only
<1> HIDE DEF Kept
<1>3. CASE UNCHANGED societyVars
  BY <1>3 DEF societyVars
<1>4. CASE SocietyNext
  BY <1>1, <1>2, <1>4 DEF SocietyNext, Parts
<1>5. QED
  BY <1>3, <1>4

LEMMA EachPart == SocietySpec => Spec /\ K!Spec /\ E!Spec /\ P!Spec
<1>1. SocietyInit => Init /\ K!Init /\ E!Init /\ P!Init
  BY DEF SocietyInit
<1>2. QED
  BY <1>1, OnePartMoves, PTL DEF SocietySpec, Spec, K!Spec, E!Spec, P!Spec

\* Until the history variable says otherwise, no two requests have been in
\* flight at once, and none was in flight when a review was patched.
LEMMA NoOverlapYet ==
    /\ SocietyInit => overlapped = FALSE
    /\ [SocietyNext]_societyVars /\ ~ overlapped' => ~ overlapped
    /\ [SocietyNext]_societyVars /\ ~ overlapped' /\ ~ Overlap => ~ Overlap'
    /\ [SocietyNext]_societyVars /\ ~ overlapped' => ~ Meanwhile \/ UNCHANGED P!vars
<1>1. SocietyInit => overlapped = FALSE
  BY DEF SocietyInit
<1>2. CASE SocietyNext
  BY <1>1, <1>2 DEF SocietyNext
<1>3. CASE UNCHANGED societyVars
  BY <1>1, <1>3
     DEF societyVars, vars, K!vars, E!vars, P!vars, Overlap, AtOnce
<1>4. QED
  BY <1>1, <1>2, <1>3

\* No two of the requests f are in flight.
Apart(f) == \A r, s \in Requests : f[r].at = "idle" \/ f[s].at = "idle" \/ r = s

-----------------------------------------------------------------------------
(* Ranking                                                                 *)

\* The signals of a post and its author have the ranges of the columns and
\* counts they are read from.
LEMMA SignalShape ==
    ASSUME NEW s \in Signals
    PROVE  /\ s.trust \in 0 .. 100 /\ s.days \in Nat /\ s.vouchers \in Nat
           /\ s.near \in BOOLEAN /\ s.active_user \in BOOLEAN
BY RankingAssumption DEF Signals

LEMMA EngagementScoreRange ==
    ASSUME K!TypeOK, candidate # K!NotRead, max_engagement # K!NotRead, NEW p \in Posts
    PROVE  K!EngagementScore(p) \in 0 .. 100
<1>1. candidate[p] \in Nat /\ max_engagement.max \in Nat
  BY RankingAssumption DEF K!TypeOK
<1>2. CASE max_engagement.max = 0
  BY <1>2 DEF K!EngagementScore
<1>3. CASE max_engagement.max # 0
  <2> DEFINE share == (100 * candidate[p]) \div max_engagement.max
  <2>1. share \in Nat
    BY <1>1, <1>3
  <2>2. K!EngagementScore(p) = IF share > 100 THEN 100 ELSE share
    BY <1>3 DEF K!EngagementScore, K!AtMost
  <2> HIDE DEF share
  <2>3. QED
    BY <2>1, <2>2
<1>4. QED
  BY <1>2, <1>3

\* The other three signals, as fractions of one.
LEMMA SignalScoreRanges ==
    ASSUME NEW s \in Signals
    PROVE  /\ K!RelevanceScore(s) \in 0 .. 70
           /\ K!RecencyScore(s) \in 0 .. 100
           /\ K!RepostBoost(s) \in 0 .. 50
<1>1. s.days \in Nat /\ s.vouchers \in Nat
  BY SignalShape
<1>2. K!RelevanceScore(s) \in 0 .. 70
  BY DEF K!RelevanceScore
<1>3. K!RecencyScore(s) \in 0 .. 100
  <2>1. \A n \in Nat : 100 \div (1 + n) \in 0 .. 100
    OBVIOUS
  <2>2. QED
    BY <1>1, <2>1 DEF K!RecencyScore
<1>4. K!RepostBoost(s) \in 0 .. 50
  BY <1>1 DEF K!RepostBoost, K!AtMost
<1>5. QED
  BY <1>2, <1>3, <1>4

\* Trust gives up to 3500 hundredths of hundredths, the rest up to 5400.
LEMMA ScorePostRange ==
    ASSUME K!TypeOK, candidate # K!NotRead, max_engagement # K!NotRead, NEW p \in Posts
    PROVE  K!ScorePost(p) \in Nat /\ K!ScorePost(p) <= 8900
<1> DEFINE s == signal[p]
<1>1. s \in Signals
  BY DEF K!TypeOK
<1>2. s.trust \in 0 .. 100
  BY <1>1, SignalShape
<1>3. /\ K!EngagementScore(p) \in 0 .. 100
      /\ K!RelevanceScore(s) \in 0 .. 70
      /\ K!RecencyScore(s) \in 0 .. 100
      /\ K!RepostBoost(s) \in 0 .. 50
  BY <1>1, EngagementScoreRange, SignalScoreRanges
<1>4. K!ScorePost(p) = 35 * s.trust + 25 * K!EngagementScore(p)
                       + 20 * K!RelevanceScore(s) + 10 * K!RecencyScore(s)
                       + 10 * K!RepostBoost(s)
  BY DEF K!ScorePost
<1>5. \A a, e, v, c, b \in Nat :
        a <= 100 /\ e <= 100 /\ v <= 70 /\ c <= 100 /\ b <= 50 =>
            /\ 35 * a + 25 * e + 20 * v + 10 * c + 10 * b \in Nat
            /\ 35 * a + 25 * e + 20 * v + 10 * c + 10 * b <= 8900
  OBVIOUS
<1>6. /\ s.trust \in Nat /\ s.trust <= 100
      /\ K!EngagementScore(p) \in Nat /\ K!EngagementScore(p) <= 100
      /\ K!RelevanceScore(s) \in Nat /\ K!RelevanceScore(s) <= 70
      /\ K!RecencyScore(s) \in Nat /\ K!RecencyScore(s) <= 100
      /\ K!RepostBoost(s) \in Nat /\ K!RepostBoost(s) <= 50
  BY <1>2, <1>3
<1> HIDE DEF s
<1>7. QED
  BY <1>4, <1>5, <1>6

LEMMA BoostedRange ==
    ASSUME K!TypeOK, candidate # K!NotRead, max_engagement # K!NotRead, NEW p \in Posts
    PROVE  K!Boosted(p) \in Nat /\ K!Boosted(p) <= 10000
<1>1. K!ScorePost(p) \in Nat /\ K!ScorePost(p) <= 8900
  BY ScorePostRange
<1>2. \A n \in Nat : n <= 8900 => (n * 11) \div 10 \in Nat /\ (n * 11) \div 10 <= 10000
  OBVIOUS
<1>3. QED
  BY <1>1, <1>2 DEF K!Boosted

\* What is scored is what was read before.
ReadInOrder ==
    /\ max_engagement # K!NotRead => candidate # K!NotRead
    /\ score # K!NotRead => max_engagement # K!NotRead

RankingInv == K!TypeOK /\ ReadInOrder /\ TrustOutweighsPopularity

\* Two posts that differ in their authors' trust alone: popularity makes up
\* for 2500 of the 3500, also with the boost of both.
LEMMA TrustDecides ==
    ASSUME K!TypeOK, candidate # K!NotRead, max_engagement # K!NotRead,
           NEW p \in Posts, NEW q \in Posts,
           signal[p].trust = 100, signal[q].trust = 0,
           [signal[p] EXCEPT !.trust = 0] = signal[q]
    PROVE  K!Boosted(p) > K!Boosted(q)
<1> DEFINE s == signal[p]
           t == signal[q]
<1>1. s \in Signals /\ t \in Signals
  BY DEF K!TypeOK
<1>2. /\ s.near = t.near /\ s.days = t.days /\ s.vouchers = t.vouchers
      /\ s.active_user = t.active_user
  BY <1>1 DEF Signals
<1>3. /\ K!EngagementScore(p) \in 0 .. 100
      /\ K!EngagementScore(q) \in 0 .. 100
      /\ K!RelevanceScore(s) \in 0 .. 70
      /\ K!RecencyScore(s) \in 0 .. 100
      /\ K!RepostBoost(s) \in 0 .. 50
  BY <1>1, EngagementScoreRange, SignalScoreRanges
<1>4. /\ K!RelevanceScore(t) = K!RelevanceScore(s)
      /\ K!RecencyScore(t) = K!RecencyScore(s)
      /\ K!RepostBoost(t) = K!RepostBoost(s)
  BY <1>2 DEF K!RelevanceScore, K!RecencyScore, K!RepostBoost
<1>5. K!ScorePost(p) = 3500 + 25 * K!EngagementScore(p)
                       + 20 * K!RelevanceScore(s) + 10 * K!RecencyScore(s)
                       + 10 * K!RepostBoost(s)
  BY <1>3 DEF K!ScorePost
<1>6. K!ScorePost(q) = 25 * K!EngagementScore(q)
                       + 20 * K!RelevanceScore(s) + 10 * K!RecencyScore(s)
                       + 10 * K!RepostBoost(s)
  BY <1>3, <1>4 DEF K!ScorePost
<1>7. /\ K!ScorePost(p) \in Nat /\ K!ScorePost(q) \in Nat
      /\ K!ScorePost(p) >= K!ScorePost(q) + 1000
  <2> DEFINE e == K!EngagementScore(p)
             f == K!EngagementScore(q)
             v == K!RelevanceScore(s)
             c == K!RecencyScore(s)
             b == K!RepostBoost(s)
  <2>1. /\ K!EngagementScore(p) \in Nat /\ K!EngagementScore(p) <= 100
        /\ K!EngagementScore(q) \in Nat /\ K!EngagementScore(q) <= 100
        /\ K!RelevanceScore(s) \in Nat /\ K!RecencyScore(s) \in Nat
        /\ K!RepostBoost(s) \in Nat
    BY <1>3
  <2>2. /\ e \in Nat /\ e <= 100 /\ f \in Nat /\ f <= 100
        /\ v \in Nat /\ c \in Nat /\ b \in Nat
        /\ K!ScorePost(p) = 3500 + 25 * e + 20 * v + 10 * c + 10 * b
        /\ K!ScorePost(q) = 25 * f + 20 * v + 10 * c + 10 * b
    BY <1>5, <1>6, <2>1
  <2> HIDE DEF e, f, v, c, b
  <2>3. /\ 3500 + 25 * e + 20 * v + 10 * c + 10 * b \in Nat
        /\ 25 * f + 20 * v + 10 * c + 10 * b \in Nat
        /\ 3500 + 25 * e + 20 * v + 10 * c + 10 * b
              >= 25 * f + 20 * v + 10 * c + 10 * b + 1000
    BY <2>2
  <2>4. QED
    BY <2>2, <2>3
<1>8. \A m, n \in Nat : m >= n + 1000 => (m * 11) \div 10 > (n * 11) \div 10
  OBVIOUS
<1>9. QED
  BY <1>2, <1>7, <1>8 DEF K!Boosted

LEMMA RankingInvariant == K!Spec => []RankingInv
<1>1. K!Init => RankingInv
  BY DEF K!Init, RankingInv, K!TypeOK, ReadInOrder, TrustOutweighsPopularity,
         K!TrustOutweighsPopularity
<1>2. RankingInv /\ [K!Next]_(K!vars) => RankingInv'
  <2> SUFFICES ASSUME RankingInv, [K!Next]_(K!vars) PROVE RankingInv'
    OBVIOUS
  <2> USE DEF RankingInv, ReadInOrder, TrustOutweighsPopularity, K!TrustOutweighsPopularity
  <2>1. ASSUME NEW p \in Posts, NEW n \in Counts, K!Recount(p, n)
        PROVE  RankingInv'
    BY <2>1 DEF K!Recount, K!TypeOK
  <2>2. CASE K!GetCandidates
    BY <2>2 DEF K!GetCandidates, K!TypeOK
  <2>3. CASE K!GetMaxEngagement
    <3>1. PICK p \in Posts : max_engagement' = [max |-> engagement_count[p]]
      BY <2>3 DEF K!GetMaxEngagement
    <3>2. max_engagement' \in [max : Counts]
      BY <3>1 DEF K!TypeOK
    <3>3. QED
      BY <2>3, <3>2 DEF K!GetMaxEngagement, K!TypeOK
  <2>4. CASE K!RankAndBoost
    <3>1. candidate # K!NotRead /\ max_engagement # K!NotRead
      BY <2>4 DEF K!RankAndBoost
    <3>2. score' = [p \in Posts |-> K!Boosted(p)]
      BY <2>4 DEF K!RankAndBoost
    <3>3. score' \in [Posts -> Nat] /\ \A p \in Posts : score'[p] <= 10000
      BY <3>1, <3>2, BoostedRange
    <3>4. \A p, q \in Posts :
            /\ signal[p].trust = 100 /\ signal[q].trust = 0
            /\ [signal[p] EXCEPT !.trust = 0] = signal[q]
            => score'[p] > score'[q]
      BY <3>1, <3>2, TrustDecides
    <3>5. QED
      BY <2>4, <3>1, <3>3, <3>4 DEF K!RankAndBoost, K!TypeOK
  <2>5. CASE UNCHANGED K!vars
    BY <2>5 DEF K!vars, K!TypeOK
  <2>6. QED
    BY <2>1, <2>2, <2>3, <2>4, <2>5 DEF K!Next
<1>3. QED
  BY <1>1, <1>2, PTL DEF K!Spec

\* "Trust score is the single most important signal"
\* (recommendation_service.py:259): no popularity lifts the post of an unknown
\* author over one of a fully trusted author that is alike in everything
\* else, whatever is counted again between the two queries.
THEOREM TrustAlwaysOutweighs == SocietySpec => []TrustOutweighsPopularity
<1>1. RankingInv => TrustOutweighsPopularity
  BY DEF RankingInv
<1>2. QED
  BY <1>1, RankingInvariant, EachPart, PTL

-----------------------------------------------------------------------------
(* Engagement: what there is to count                                      *)

\* Likes of the post, comments and reposts that were ever made.
EverLiked == {i \in LikeIds : like[i] # E!NoLike /\ like[i].target = "post"}

EverCommented == E!Made(comment, {"active", "inactive"})

EverReposted == E!Made(repost, {"active", "inactive"})

Ever == Cardinality(EverLiked) + Cardinality(EverCommented) + Cardinality(EverReposted)

\* Cardinality is the same operator inside the instances.
LEMMA SameCardinality ==
    \A S : E!Cardinality(S) = Cardinality(S) /\ P!Cardinality(S) = Cardinality(S)
BY DEF E!Cardinality, P!Cardinality, Cardinality, E!IsFiniteSet, P!IsFiniteSet, IsFiniteSet

\* A smaller set has fewer elements, and one less when it misses one.
LEMMA Smaller ==
    ASSUME NEW S, IsFiniteSet(S), NEW T, T \subseteq S
    PROVE  /\ IsFiniteSet(T)
           /\ Cardinality(T) \in Nat /\ Cardinality(S) \in Nat
           /\ Cardinality(T) <= Cardinality(S)
           /\ \A x \in S : x \notin T => Cardinality(T) + 1 <= Cardinality(S)
<1>1. IsFiniteSet(T) /\ Cardinality(T) <= Cardinality(S)
  BY FS_Subset
<1>2. Cardinality(T) \in Nat /\ Cardinality(S) \in Nat
  BY <1>1, FS_CardinalityType
<1>3. ASSUME NEW x \in S, x \notin T
      PROVE  Cardinality(T) + 1 <= Cardinality(S)
  <2>1. T \cup {x} \subseteq S
    BY <1>3
  <2>2. Cardinality(T \cup {x}) <= Cardinality(S)
    BY <2>1, FS_Subset
  <2>3. Cardinality(T \cup {x}) = Cardinality(T) + 1
    BY <1>1, <1>3, FS_AddElement
  <2>4. QED
    BY <2>2, <2>3
<1>4. QED
  BY <1>1, <1>2, <1>3

LEMMA CommentNumbers ==
    IsFiniteSet(1 .. MaxComments) /\ Cardinality(1 .. MaxComments) = MaxComments
<1>1. 1 \in Int /\ MaxComments \in Int /\ MaxComments \in Nat
  BY BoundsAssumption
<1>2. /\ IsFiniteSet(1 .. MaxComments)
      /\ Cardinality(1 .. MaxComments) = IF 1 > MaxComments THEN 0 ELSE MaxComments - 1 + 1
  BY <1>1, FS_Interval, Zenon
<1>3. QED
  BY <1>1, <1>2

\* What was ever made is finite and leaves room under the bound while a
\* number is free.
LEMMA EverBounded ==
    ASSUME E!TypeOK
    PROVE  /\ E!MaxCount \in Nat /\ Ever \in Nat /\ Ever <= E!MaxCount
           /\ (\E i \in LikeIds : like[i] = E!NoLike) => Ever + 1 <= E!MaxCount
           /\ E!Made(comment, {"none"}) # {} => Ever + 1 <= E!MaxCount
           /\ (\E u \in Users : repost[u] = "none") => Ever + 1 <= E!MaxCount
           /\ IsFiniteSet(EverLiked) /\ IsFiniteSet(EverCommented) /\ IsFiniteSet(EverReposted)
<1> DEFINE l == Cardinality(EverLiked)
           c == Cardinality(EverCommented)
           u == Cardinality(EverReposted)
<1>1. /\ IsFiniteSet(EverLiked) /\ l \in Nat /\ Cardinality(LikeIds) \in Nat
      /\ l <= Cardinality(LikeIds)
      /\ (\E i \in LikeIds : like[i] = E!NoLike) => l + 1 <= Cardinality(LikeIds)
  BY Smaller, BoundsAssumption DEF EverLiked
<1>2. /\ EverCommented \subseteq 1 .. MaxComments
      /\ E!Made(comment, {"none"}) # {} =>
            \E n \in 1 .. MaxComments : n \notin EverCommented
  BY DEF EverCommented, E!Made, E!TypeOK
<1>3. /\ IsFiniteSet(EverCommented) /\ c \in Nat /\ c <= MaxComments
      /\ E!Made(comment, {"none"}) # {} => c + 1 <= MaxComments
  BY <1>2, Smaller, CommentNumbers
<1>4. /\ EverReposted \subseteq Users
      /\ \A v \in Users : repost[v] = "none" => v \notin EverReposted
  BY DEF EverReposted, E!Made, E!TypeOK
<1>5. /\ IsFiniteSet(EverReposted) /\ u \in Nat /\ Cardinality(Users) \in Nat
      /\ u <= Cardinality(Users)
      /\ (\E v \in Users : repost[v] = "none") => u + 1 <= Cardinality(Users)
  BY <1>4, Smaller, BoundsAssumption
<1>6. E!MaxCount = Cardinality(LikeIds) + MaxComments + Cardinality(Users)
  BY SameCardinality DEF E!MaxCount
<1>7. Ever = l + c + u /\ MaxComments \in Nat
  BY BoundsAssumption DEF Ever
<1> HIDE DEF l, c, u
<1>8. QED
  BY <1>1, <1>3, <1>5, <1>6, <1>7

\* The signals count some of what was ever made.
LEMMA EngagementWithinEver ==
    ASSUME E!TypeOK
    PROVE  E!Engagement \in Nat /\ E!Engagement <= Ever
<1> DEFINE l == UNION {E!Active(E!Of(u, "post")) : u \in Users}
           c == E!Made(comment, {"active"})
           u == E!Made(repost, {"active"})
<1>1. l \subseteq EverLiked
  BY DEF E!Active, E!Of, EverLiked
<1>2. c \subseteq EverCommented /\ u \subseteq EverReposted
  BY DEF EverCommented, EverReposted, E!Made
<1>3. IsFiniteSet(EverLiked) /\ IsFiniteSet(EverCommented) /\ IsFiniteSet(EverReposted)
  BY EverBounded
<1>4. E!Engagement = Cardinality(l) + Cardinality(c) + Cardinality(u)
  BY SameCardinality DEF E!Engagement
<1> HIDE DEF l, c, u
<1>5. Cardinality(l) \in Nat /\ Cardinality(EverLiked) \in Nat
      /\ Cardinality(l) <= Cardinality(EverLiked)
  BY <1>1, <1>3, Smaller
<1>6. Cardinality(c) \in Nat /\ Cardinality(EverCommented) \in Nat
      /\ Cardinality(c) <= Cardinality(EverCommented)
  BY <1>2, <1>3, Smaller
<1>7. Cardinality(u) \in Nat /\ Cardinality(EverReposted) \in Nat
      /\ Cardinality(u) <= Cardinality(EverReposted)
  BY <1>2, <1>3, Smaller
<1>8. QED
  BY <1>4, <1>5, <1>6, <1>7 DEF Ever

-----------------------------------------------------------------------------
(* Engagement: what each action makes                                      *)

LEMMA EngagingShape ==
    ASSUME E!TypeOK, NEW r \in Requests
    PROVE  LET me == engaging[r] IN
           /\ me.at = "like" => me.user \in Users /\ me.target \in E!Targets
           /\ me.at = "relike" => me.id \in LikeIds
           /\ me.at = "repost" => me.user \in Users /\ me.copy \in E!Post
           /\ me.at = "update" => me.copy \in E!Post
           /\ me.at = "liked" =>
                me.user \in Users /\ me.target \in E!Targets /\ me.count \in 0 .. E!MaxCount
           /\ me.at = "commented" => me.count \in 0 .. E!MaxCount
           /\ me.at = "reposted" =>
                me.user \in Users /\ me.copy \in E!Post /\ me.count \in 0 .. E!MaxCount
           /\ me.at = "interacted" => me.count \in 0 .. E!MaxCount
BY DEF E!TypeOK, E!Idle, E!Checked, E!Counted

\* Where the rows stay, so does what was ever made.
LEMMA EverSame ==
    ASSUME UNCHANGED <<like, comment, repost>>
    PROVE  Ever' = Ever
BY DEF Ever, EverLiked, EverCommented, EverReposted, E!Made

LEMMA LikeCommitMakes ==
    ASSUME E!TypeOK, NEW r \in Requests, E!LikeCommit(r)
    PROVE  /\ like' \in [LikeIds -> {E!NoLike} \cup E!Like]
           /\ \A i \in LikeIds : like[i] # E!NoLike => like'[i] = like[i]
           /\ Ever' = IF engaging[r].target = "post" THEN Ever + 1 ELSE Ever
<1> DEFINE me == engaging[r]
           new == [user |-> me.user, target |-> me.target, is_active |-> TRUE]
<1>1. PICK i \in LikeIds : like[i] = E!NoLike /\ like' = [like EXCEPT ![i] = new]
  BY DEF E!LikeCommit
<1>2. new \in E!Like /\ new # E!NoLike /\ new.target = me.target
  BY EngagingShape DEF E!LikeCommit, E!Like, E!NoLike
<1>3. comment' = comment /\ repost' = repost
  BY DEF E!LikeCommit
<1>4. EverCommented' = EverCommented /\ EverReposted' = EverReposted
  BY <1>3 DEF EverCommented, EverReposted, E!Made
<1>5. like \in [LikeIds -> {E!NoLike} \cup E!Like]
  BY DEF E!TypeOK
<1> HIDE DEF new
<1>6. EverLiked' = IF me.target = "post" THEN EverLiked \cup {i} ELSE EverLiked
  BY <1>1, <1>2, <1>5 DEF EverLiked
<1>7. i \notin EverLiked /\ IsFiniteSet(EverLiked)
  BY <1>1, EverBounded DEF EverLiked
<1>8. Cardinality(EverLiked') =
        IF me.target = "post" THEN Cardinality(EverLiked) + 1 ELSE Cardinality(EverLiked)
  BY <1>6, <1>7, FS_AddElement
<1>9. /\ Cardinality(EverLiked) \in Nat /\ Cardinality(EverCommented) \in Nat
      /\ Cardinality(EverReposted) \in Nat
  BY EverBounded, FS_CardinalityType
<1>10. Ever' = IF me.target = "post" THEN Ever + 1 ELSE Ever
  BY <1>4, <1>8, <1>9 DEF Ever
<1>11. QED
  BY <1>1, <1>2, <1>5, <1>10

\* A like that is taken back or given again is the row that was made before.
LEMMA LikeSwitched ==
    ASSUME E!TypeOK, NEW i \in LikeIds, like[i] # E!NoLike, NEW b \in BOOLEAN,
           like' = [like EXCEPT ![i].is_active = b], UNCHANGED <<comment, repost>>
    PROVE  /\ like' \in [LikeIds -> {E!NoLike} \cup E!Like]
           /\ \A j \in LikeIds : like[j] # E!NoLike => like'[j] # E!NoLike
           /\ Ever' = Ever
<1>1. like \in [LikeIds -> {E!NoLike} \cup E!Like] /\ like[i] \in E!Like
  BY DEF E!TypeOK
<1>2. /\ like'[i] \in E!Like /\ like'[i] # E!NoLike /\ like'[i].target = like[i].target
      /\ \A j \in LikeIds : j # i => like'[j] = like[j]
  BY <1>1 DEF E!Like, E!NoLike
<1>3. EverLiked' = EverLiked
  BY <1>1, <1>2 DEF EverLiked
<1>4. EverCommented' = EverCommented /\ EverReposted' = EverReposted
  BY DEF EverCommented, EverReposted, E!Made
<1>5. like' \in [LikeIds -> {E!NoLike} \cup E!Like]
  BY <1>1, <1>2
<1>6. QED
  BY <1>2, <1>3, <1>4, <1>5 DEF Ever

LEMMA CommentCommitMakes ==
    ASSUME E!TypeOK, NEW r \in Requests, E!CommentCommit(r)
    PROVE  comment' \in [1 .. MaxComments -> E!Rows] /\ Ever' = Ever + 1
<1>1. PICK n \in E!Made(comment, {"none"}) : comment' = [comment EXCEPT ![n] = "active"]
  BY DEF E!CommentCommit
<1>2. n \in 1 .. MaxComments /\ comment[n] = "none" /\ like' = like /\ repost' = repost
  BY <1>1 DEF E!CommentCommit, E!Made, E!TypeOK
<1>3. EverCommented' = EverCommented \cup {n} /\ n \notin EverCommented
  BY <1>1, <1>2 DEF EverCommented, E!Made, E!TypeOK
<1>4. EverLiked' = EverLiked /\ EverReposted' = EverReposted
  BY <1>2 DEF EverLiked, EverReposted, E!Made
<1>5. IsFiniteSet(EverCommented)
  BY EverBounded
<1>6. Cardinality(EverCommented') = Cardinality(EverCommented) + 1
  BY <1>3, <1>5, FS_AddElement
<1>7. /\ Cardinality(EverLiked) \in Nat /\ Cardinality(EverCommented) \in Nat
      /\ Cardinality(EverReposted) \in Nat
  BY EverBounded, FS_CardinalityType
<1>8. Ever' = Ever + 1
  BY <1>4, <1>6, <1>7 DEF Ever
<1>9. QED
  BY <1>1, <1>2, <1>8 DEF E!TypeOK, E!Rows

LEMMA RepostCommitMakes ==
    ASSUME E!TypeOK, NEW r \in Requests, E!RepostCommit(r),
           repost[engaging[r].user] = "none"
    PROVE  Ever' = Ever + 1
<1> DEFINE u == engaging[r].user
<1>1. u \in Users
  BY EngagingShape DEF E!RepostCommit
<1>2. repost' = [repost EXCEPT ![u] = "active"] /\ like' = like /\ comment' = comment
  BY DEF E!RepostCommit
<1>3. EverReposted' = EverReposted \cup {u} /\ u \notin EverReposted
  BY <1>1, <1>2 DEF EverReposted, E!Made, E!TypeOK
<1>4. EverLiked' = EverLiked /\ EverCommented' = EverCommented
  BY <1>2 DEF EverLiked, EverCommented, E!Made
<1>5. IsFiniteSet(EverReposted)
  BY EverBounded
<1>6. Cardinality(EverReposted') = Cardinality(EverReposted) + 1
  BY <1>3, <1>5, FS_AddElement
<1>7. /\ Cardinality(EverLiked) \in Nat /\ Cardinality(EverCommented) \in Nat
      /\ Cardinality(EverReposted) \in Nat
  BY EverBounded, FS_CardinalityType
<1>8. QED
  BY <1>4, <1>6, <1>7 DEF Ever

LEMMA DeleteCommentKeeps ==
    ASSUME E!TypeOK, NEW n \in 1 .. MaxComments, E!DeleteComment(n)
    PROVE  Ever' = Ever
<1>1. EverCommented' = EverCommented
  BY DEF E!DeleteComment, EverCommented, E!Made, E!TypeOK
<1>2. QED
  BY <1>1 DEF E!DeleteComment, Ever, EverLiked, EverReposted, E!Made

LEMMA UnrepostKeeps ==
    ASSUME E!TypeOK, NEW u \in Users, E!Unrepost(u)
    PROVE  Ever' = Ever
<1>1. EverReposted' = EverReposted
  BY DEF E!Unrepost, EverReposted, E!Made, E!TypeOK
<1>2. QED
  BY <1>1 DEF E!Unrepost, Ever, EverLiked, EverCommented, E!Made

-----------------------------------------------------------------------------
(* Engagement: the invariant                                               *)

\* A request that inserts one row of its own has counted one more than there
\* ever was; a copy of the post, or a count without a row, has no more.
StepBacked(me) ==
    /\ me.at = "relike" => like[me.id] # E!NoLike
    /\ me.at \in {"repost", "reposted", "update"} => me.copy.engagement_count <= Ever
    /\ me.at = "interacted" => me.count <= Ever
    /\ me.at = "liked" /\ me.target = "post" => me.count <= Ever + 1
    /\ me.at \in {"commented", "reposted"} => me.count <= Ever + 1

Backed ==
    /\ item.engagement_count <= Ever
    /\ \A r \in Requests : StepBacked(engaging[r])

LEMMA MaxCountType == E!MaxCount' = E!MaxCount
BY DEF E!MaxCount

\* Others only add to what was ever made.
LEMMA OthersBacked ==
    ASSUME E!TypeOK, NEW s \in Requests, StepBacked(engaging[s]), engaging'[s] = engaging[s],
           Ever' \in Nat, Ever' >= Ever,
           \A i \in LikeIds : like[i] # E!NoLike => like'[i] # E!NoLike
    PROVE  StepBacked(engaging[s])'
<1>1. Ever \in Nat /\ E!MaxCount \in Nat
  BY EverBounded
<1>2. \A m \in E!Post : m.engagement_count \in Nat
  BY <1>1 DEF E!Post
<1>3. QED
  BY <1>1, <1>2, EngagingShape DEF StepBacked

LEMMA PostCounted ==
    ASSUME NEW m \in E!Post, NEW n \in 0 .. E!MaxCount
    PROVE  /\ [m EXCEPT !.engagement_count = n] \in E!Post
           /\ [m EXCEPT !.engagement_count = n].engagement_count = n
           /\ [m EXCEPT !.is_reposted = TRUE, !.engagement_count = n] \in E!Post
           /\ [m EXCEPT !.is_reposted = TRUE, !.engagement_count = n].engagement_count = n
           /\ [m EXCEPT !.is_active = FALSE] \in E!Post
           /\ [m EXCEPT !.is_active = FALSE].engagement_count = m.engagement_count
BY DEF E!Post

\* A step of one request: what it leaves for the others, and for itself.
LEMMA RequestMoves ==
    ASSUME E!TypeOK, Backed, NEW r \in Requests, NEW step,
           engaging' = [engaging EXCEPT ![r] = step],
           Ever' \in Nat, Ever' >= Ever,
           \A i \in LikeIds : like[i] # E!NoLike => like'[i] # E!NoLike,
           StepBacked(step)', item'.engagement_count <= Ever'
    PROVE  Backed'
<1>1. /\ engaging'[r] = step
      /\ \A s \in Requests : s # r => engaging'[s] = engaging[s]
  BY DEF E!TypeOK
<1>2. StepBacked(engaging[r])'
  BY <1>1 DEF StepBacked
<1>3. \A s \in Requests : s # r => StepBacked(engaging[s])'
  BY <1>1, OthersBacked DEF Backed
<1>4. QED
  BY <1>2, <1>3 DEF Backed

LEMMA CheckStep ==
    ASSUME E!TypeOK, Backed, NEW r \in Requests,
           \/ \E u \in Users, t \in E!Targets : E!LikeCheck(r, u, t)
           \/ \E u \in Users : E!RepostCheck(r, u)
           \/ E!LikeInsert(r) \/ E!CommentInsert(r) \/ E!RepostInsert(r)
           \/ E!InteractCount(r) \/ E!UpdateRead(r) \/ E!RequestFails(r)
    PROVE  E!TypeOK' /\ Backed'
<1>a. UNCHANGED <<item, like, comment, repost, copies>> /\ Ever' = Ever
  BY EverSame DEF E!LikeCheck, E!RepostCheck, E!LikeInsert, E!CommentInsert, E!RepostInsert,
                  E!InteractCount, E!UpdateRead, E!RequestFails
<1>b. /\ Ever \in Nat /\ E!MaxCount \in Nat /\ Ever <= E!MaxCount
      /\ E!Engagement \in 0 .. Ever
  BY EverBounded, EngagementWithinEver
<1>c. item \in E!Post /\ item.engagement_count <= Ever
  BY DEF E!TypeOK, Backed
<1>d. ASSUME NEW step \in {E!Idle} \cup E!Checked \cup E!Counted,
             engaging' = [engaging EXCEPT ![r] = step], StepBacked(step)
      PROVE  E!TypeOK' /\ Backed'
  <2>1. StepBacked(step)'
    BY <1>a, <1>d DEF StepBacked
  <2>a. /\ Ever' \in Nat /\ Ever' >= Ever /\ item'.engagement_count <= Ever'
        /\ \A i \in LikeIds : like[i] # E!NoLike => like'[i] # E!NoLike
    BY <1>a, <1>b, <1>c
  <2>2. Backed'
    BY <1>d, <2>1, <2>a, RequestMoves
  <2>3. E!TypeOK'
    BY <1>a, <1>d DEF E!TypeOK
  <2>4. QED
    BY <2>2, <2>3
<1>1. ASSUME NEW u \in Users, NEW t \in E!Targets, E!LikeCheck(r, u, t)
      PROVE  E!TypeOK' /\ Backed'
  <2>1. CASE engaging' = [engaging EXCEPT ![r] = [at |-> "like", user |-> u, target |-> t]]
    BY <2>1, <1>d DEF StepBacked, E!Checked
  <2>2. CASE \E i \in LikeIds : /\ E!Of(u, t) = {i}
                                /\ engaging' = [engaging EXCEPT ![r] = [at |-> "relike", id |-> i]]
    <3>1. PICK i \in LikeIds : /\ E!Of(u, t) = {i}
                               /\ engaging' = [engaging EXCEPT ![r] = [at |-> "relike", id |-> i]]
      BY <2>2
    <3>2. like[i] # E!NoLike
      BY <3>1 DEF E!Of
    <3>3. QED
      BY <3>1, <3>2, <1>d DEF StepBacked, E!Checked
  <2>3. QED
    BY <1>1, <2>1, <2>2 DEF E!LikeCheck, E!Goto
<1>2. ASSUME NEW u \in Users, E!RepostCheck(r, u)
      PROVE  E!TypeOK' /\ Backed'
  BY <1>2, <1>c, <1>d DEF E!RepostCheck, E!Goto, StepBacked, E!Checked
<1>3. CASE E!LikeInsert(r)
  <2> DEFINE me == engaging[r]
             n == IF me.target = "post" THEN E!CountWithOwn ELSE 0
             step == [at |-> "liked", user |-> me.user, target |-> me.target, count |-> n]
  <2>1. me.user \in Users /\ me.target \in E!Targets
    BY <1>3, EngagingShape DEF E!LikeInsert
  <2>2. n \in 0 .. E!MaxCount /\ n <= Ever + 1
    BY <1>3, <1>b, EverBounded DEF E!LikeInsert, E!CountWithOwn
  <2>3. engaging' = [engaging EXCEPT ![r] = step]
    BY <1>3 DEF E!LikeInsert, E!Goto
  <2> HIDE DEF n, me
  <2>4. step \in E!Counted /\ StepBacked(step)
    BY <2>1, <2>2 DEF E!Counted, StepBacked
  <2>5. QED
    BY <2>3, <2>4, <1>d
<1>4. CASE E!CommentInsert(r)
  <2> DEFINE n == E!CountWithOwn
             step == [at |-> "commented", count |-> n]
  <2>1. n \in 0 .. E!MaxCount /\ n <= Ever + 1
    BY <1>4, <1>b, EverBounded DEF E!CommentInsert, E!CountWithOwn
  <2>2. engaging' = [engaging EXCEPT ![r] = step]
    BY <1>4 DEF E!CommentInsert, E!Goto
  <2> HIDE DEF n
  <2>3. step \in E!Counted /\ StepBacked(step)
    BY <2>1 DEF E!Counted, StepBacked
  <2>4. QED
    BY <2>2, <2>3, <1>d
<1>5. CASE E!RepostInsert(r)
  <2> DEFINE me == engaging[r]
             n == E!CountWithOwn
             step == [at |-> "reposted", user |-> me.user, copy |-> me.copy, count |-> n]
  <2>1. me.user \in Users /\ me.copy \in E!Post /\ me.copy.engagement_count <= Ever
    BY <1>5, EngagingShape DEF E!RepostInsert, Backed, StepBacked
  <2>2. CASE engaging' = [engaging EXCEPT ![r] = E!Idle]
    BY <2>2, <1>d DEF StepBacked, E!Idle
  <2>3. CASE repost[me.user] = "none" /\ engaging' = [engaging EXCEPT ![r] = step]
    <3>1. n \in 0 .. E!MaxCount /\ n <= Ever + 1
      BY <2>1, <2>3, <1>b, EverBounded DEF E!CountWithOwn
    <3> HIDE DEF n, me
    <3>2. step \in E!Counted /\ StepBacked(step)
      BY <2>1, <3>1 DEF E!Counted, StepBacked
    <3>3. QED
      BY <2>3, <3>2, <1>d
  <2>4. QED
    BY <1>5, <2>2, <2>3 DEF E!RepostInsert, E!Goto
<1>6. CASE E!InteractCount(r)
  <2> DEFINE n == E!Engagement
             step == [at |-> "interacted", count |-> n]
  <2>1. n \in 0 .. E!MaxCount /\ n <= Ever
    BY <1>b
  <2>2. engaging' = [engaging EXCEPT ![r] = step]
    BY <1>6 DEF E!InteractCount, E!Goto
  <2> HIDE DEF n
  <2>3. step \in E!Counted /\ StepBacked(step)
    BY <2>1 DEF E!Counted, StepBacked
  <2>4. QED
    BY <2>2, <2>3, <1>d
<1>7. CASE E!UpdateRead(r)
  BY <1>7, <1>c, <1>d DEF E!UpdateRead, E!Goto, StepBacked, E!Checked
<1>8. CASE E!RequestFails(r)
  BY <1>8, <1>d DEF E!RequestFails, E!Goto, StepBacked, E!Idle
<1>9. QED
  BY <1>1, <1>2, <1>3, <1>4, <1>5, <1>6, <1>7, <1>8

LEMMA CommitStep ==
    ASSUME E!TypeOK, Backed, NEW r \in Requests,
           \/ E!LikeCommit(r) \/ E!Relike(r) \/ E!CommentCommit(r) \/ E!RepostCommit(r)
           \/ E!InteractCommit(r) \/ E!UpdateSave(r)
    PROVE  /\ item' \in E!Post /\ engaging' \in [Requests -> {E!Idle} \cup E!Checked \cup E!Counted]
           /\ like' \in [LikeIds -> {E!NoLike} \cup E!Like]
           /\ comment' \in [1 .. MaxComments -> E!Rows]
           /\ Backed'
<1> DEFINE me == engaging[r]
<1>a. /\ Ever \in Nat /\ E!MaxCount \in Nat /\ StepBacked(me)
      /\ item \in E!Post /\ item.engagement_count <= Ever /\ item.engagement_count \in Nat
  BY EverBounded DEF E!TypeOK, Backed, E!Post
<1>b. engaging' = [engaging EXCEPT ![r] = E!Idle]
  BY DEF E!LikeCommit, E!Relike, E!CommentCommit, E!RepostCommit, E!InteractCommit,
         E!UpdateSave, E!Goto
<1>c. engaging' \in [Requests -> {E!Idle} \cup E!Checked \cup E!Counted]
  BY <1>b DEF E!TypeOK
<1>d. ASSUME Ever' \in Nat, Ever' >= Ever, item'.engagement_count <= Ever',
             \A i \in LikeIds : like[i] # E!NoLike => like'[i] # E!NoLike
      PROVE  Backed'
  <2>1. StepBacked(E!Idle)'
    BY DEF StepBacked, E!Idle
  <2>2. QED
    BY <1>b, <1>d, <2>1, RequestMoves
<1>1. CASE E!LikeCommit(r)
  <2>1. /\ like' \in [LikeIds -> {E!NoLike} \cup E!Like]
        /\ \A i \in LikeIds : like[i] # E!NoLike => like'[i] = like[i]
        /\ Ever' = IF me.target = "post" THEN Ever + 1 ELSE Ever
    BY <1>1, LikeCommitMakes
  <2>2. /\ item' = IF me.target = "post" THEN [item EXCEPT !.engagement_count = me.count] ELSE item
        /\ me.at = "liked" /\ comment' = comment
    BY <1>1 DEF E!LikeCommit, E!Stored, E!Recount
  <2>3. me.count \in 0 .. E!MaxCount /\ (me.target = "post" => me.count <= Ever + 1)
    BY <1>a, <2>2, EngagingShape DEF StepBacked
  <2>4. /\ item' \in E!Post
        /\ item'.engagement_count = IF me.target = "post" THEN me.count ELSE item.engagement_count
    <3>1. CASE me.target = "post"
      <4>1. /\ [item EXCEPT !.engagement_count = me.count] \in E!Post
            /\ [item EXCEPT !.engagement_count = me.count].engagement_count = me.count
        BY <1>a, <2>3, PostCounted, Zenon
      <4>2. item' = [item EXCEPT !.engagement_count = me.count]
        BY <2>2, <3>1, Zenon
      <4>3. QED
        BY <3>1, <4>1, <4>2, Zenon
    <3>2. CASE me.target # "post"
      BY <1>a, <2>2, <3>2
    <3>3. QED
      BY <3>1, <3>2
  <2>5. Backed'
    BY <1>a, <1>d, <2>1, <2>3, <2>4
  <2>6. QED
    BY <1>c, <2>1, <2>2, <2>4, <2>5 DEF E!TypeOK
<1>2. CASE E!Relike(r)
  <2>1. /\ me.id \in LikeIds /\ like[me.id] # E!NoLike
        /\ like' = [like EXCEPT ![me.id].is_active = TRUE]
        /\ item' = item /\ comment' = comment /\ repost' = repost
    BY <1>2, <1>a, EngagingShape DEF E!Relike, StepBacked
  <2>2. /\ like' \in [LikeIds -> {E!NoLike} \cup E!Like]
        /\ \A j \in LikeIds : like[j] # E!NoLike => like'[j] # E!NoLike
        /\ Ever' = Ever
    BY <2>1, LikeSwitched
  <2>3. Backed'
    BY <1>a, <1>d, <2>1, <2>2
  <2>4. QED
    BY <1>a, <1>c, <2>1, <2>2, <2>3 DEF E!TypeOK
<1>3. CASE E!CommentCommit(r)
  <2>1. comment' \in [1 .. MaxComments -> E!Rows] /\ Ever' = Ever + 1
    BY <1>3, CommentCommitMakes
  <2>2. /\ item' = [item EXCEPT !.engagement_count = me.count] /\ me.at = "commented"
        /\ like' = like
    BY <1>3 DEF E!CommentCommit, E!Stored, E!Recount
  <2>3. me.count \in 0 .. E!MaxCount /\ me.count <= Ever + 1
    BY <1>a, <2>2, EngagingShape DEF StepBacked
  <2>4. item' \in E!Post /\ item'.engagement_count = me.count
    BY <1>a, <2>2, <2>3, PostCounted
  <2>5. Backed'
    BY <1>a, <1>d, <2>1, <2>2, <2>3, <2>4
  <2>6. QED
    BY <1>c, <2>1, <2>2, <2>4, <2>5 DEF E!TypeOK
<1>4. CASE E!RepostCommit(r)
  <2>1. me.at = "reposted" /\ like' = like /\ comment' = comment
    BY <1>4 DEF E!RepostCommit
  <2>2. /\ me.copy \in E!Post /\ me.count \in 0 .. E!MaxCount /\ me.count <= Ever + 1
    BY <1>a, <2>1, EngagingShape DEF StepBacked
  <2>3. CASE repost[me.user] # "none"
    <3>1. item' = item /\ repost' = repost
      BY <1>4, <2>3 DEF E!RepostCommit
    <3>2. Ever' = Ever
      BY <2>1, <3>1, EverSame
    <3>3. Backed'
      BY <1>a, <1>d, <2>1, <3>1, <3>2
    <3>4. QED
      BY <1>a, <1>c, <2>1, <3>1, <3>3 DEF E!TypeOK
  <2>4. CASE repost[me.user] = "none"
    <3>1. item' = [me.copy EXCEPT !.is_reposted = TRUE, !.engagement_count = me.count]
      BY <1>4, <2>4 DEF E!RepostCommit, E!Recount
    <3>2. item' \in E!Post /\ item'.engagement_count = me.count
      BY <2>2, <3>1, PostCounted
    <3>3. Ever' = Ever + 1
      BY <1>4, <2>4, RepostCommitMakes
    <3>4. Backed'
      BY <1>a, <1>d, <2>1, <2>2, <3>2, <3>3
    <3>5. QED
      BY <1>c, <2>1, <3>2, <3>4 DEF E!TypeOK
  <2>5. QED
    BY <2>3, <2>4
<1>5. CASE E!InteractCommit(r)
  <2>1. /\ item' = [item EXCEPT !.engagement_count = me.count] /\ me.at = "interacted"
        /\ like' = like /\ comment' = comment /\ repost' = repost
    BY <1>5 DEF E!InteractCommit, E!Stored, E!Recount
  <2>2. me.count \in 0 .. E!MaxCount /\ me.count <= Ever /\ Ever' = Ever
    BY <1>a, <2>1, EngagingShape, EverSame DEF StepBacked
  <2>3. item' \in E!Post /\ item'.engagement_count = me.count
    BY <1>a, <2>1, <2>2, PostCounted
  <2>4. Backed'
    BY <1>a, <1>d, <2>1, <2>2, <2>3
  <2>5. QED
    BY <1>c, <2>1, <2>3, <2>4 DEF E!TypeOK
<1>6. CASE E!UpdateSave(r)
  <2>1. /\ item' = me.copy /\ me.at = "update"
        /\ like' = like /\ comment' = comment /\ repost' = repost
    BY <1>6 DEF E!UpdateSave
  <2>2. me.copy \in E!Post /\ me.copy.engagement_count <= Ever /\ Ever' = Ever
    BY <1>a, <2>1, EngagingShape, EverSame DEF StepBacked
  <2>3. Backed'
    BY <1>a, <1>d, <2>1, <2>2
  <2>4. QED
    BY <1>c, <2>1, <2>2, <2>3 DEF E!TypeOK
<1>7. QED
  BY <1>1, <1>2, <1>3, <1>4, <1>5, <1>6

\* The rows of the reposts and the posts they created stay in step.
LEMMA CopiesStep ==
    ASSUME E!TypeOK, OneCopyPerRepost, [E!Next]_(E!vars)
    PROVE  /\ repost' \in [Users -> E!Rows] /\ copies' \in [Users -> 0 .. 1]
           /\ OneCopyPerRepost'
<1> USE DEF E!TypeOK, OneCopyPerRepost, E!OneCopyPerRepost
<1>1. ASSUME NEW r \in Requests, E!RepostCommit(r)
      PROVE  /\ repost' \in [Users -> E!Rows] /\ copies' \in [Users -> 0 .. 1]
             /\ OneCopyPerRepost'
  <2>1. engaging[r].user \in Users
    BY <1>1, EngagingShape DEF E!RepostCommit
  <2>2. QED
    BY <1>1, <2>1 DEF E!RepostCommit, E!Copied, E!Rows
<1>2. ASSUME NEW u \in Users, E!Unrepost(u)
      PROVE  /\ repost' \in [Users -> E!Rows] /\ copies' \in [Users -> 0 .. 1]
             /\ OneCopyPerRepost'
  BY <1>2 DEF E!Unrepost, E!Rows
<1>3. CASE UNCHANGED <<repost, copies>>
  BY <1>3
<1>4. \/ UNCHANGED <<repost, copies>>
      \/ \E r \in Requests : E!RepostCommit(r)
      \/ \E u \in Users : E!Unrepost(u)
  BY DEF E!Next, E!vars, E!LikeStep, E!ShareStep, E!OwnerStep, E!LikeCheck, E!LikeInsert,
         E!LikeCommit, E!Relike, E!CommentInsert, E!CommentCommit, E!RepostCheck,
         E!InteractCount, E!RepostInsert, E!InteractCommit, E!UpdateRead, E!UpdateSave,
         E!RequestFails, E!Unlike, E!DeleteComment, E!SoftDelete
<1>5. QED
  BY <1>1, <1>2, <1>3, <1>4

EngagementInv == E!TypeOK /\ Backed /\ OneCopyPerRepost

LEMMA EngagementStep == EngagementInv /\ [E!Next]_(E!vars) => EngagementInv'
<1> SUFFICES ASSUME E!TypeOK, Backed, OneCopyPerRepost, [E!Next]_(E!vars)
             PROVE  EngagementInv'
  BY DEF EngagementInv
<1>a. /\ repost' \in [Users -> E!Rows] /\ copies' \in [Users -> 0 .. 1]
      /\ OneCopyPerRepost'
  BY CopiesStep
<1>b. Ever \in Nat /\ item \in E!Post
  BY EverBounded DEF E!TypeOK
<1>c. ASSUME Ever' = Ever, engaging' = engaging, item'.engagement_count = item.engagement_count,
             \A i \in LikeIds : like[i] # E!NoLike => like'[i] # E!NoLike
      PROVE  Backed'
  <2>1. Ever' \in Nat /\ Ever' >= Ever
    BY <1>b, <1>c
  <2>2. \A s \in Requests : StepBacked(engaging[s])'
    BY <1>c, <2>1, OthersBacked DEF Backed
  <2>3. QED
    BY <1>c, <2>2 DEF Backed
<1>1. ASSUME NEW r \in Requests,
             \/ E!LikeCommit(r) \/ E!Relike(r) \/ E!CommentCommit(r) \/ E!RepostCommit(r)
             \/ E!InteractCommit(r) \/ E!UpdateSave(r)
      PROVE  EngagementInv'
  BY <1>1, <1>a, CommitStep, MaxCountType DEF EngagementInv, E!TypeOK
<1>2. ASSUME NEW r \in Requests,
             \/ \E u \in Users, t \in E!Targets : E!LikeCheck(r, u, t)
             \/ \E u \in Users : E!RepostCheck(r, u)
             \/ E!LikeInsert(r) \/ E!CommentInsert(r) \/ E!RepostInsert(r)
             \/ E!InteractCount(r) \/ E!UpdateRead(r) \/ E!RequestFails(r)
      PROVE  EngagementInv'
  BY <1>2, <1>a, CheckStep DEF EngagementInv
<1>3. ASSUME NEW u \in Users, NEW t \in E!Targets, E!Unlike(u, t)
      PROVE  EngagementInv'
  <2>1. PICK i \in LikeIds :
           /\ E!Active(E!Of(u, t)) = {i}
           /\ like' = [like EXCEPT ![i].is_active = FALSE]
    BY <1>3 DEF E!Unlike
  <2>2. like[i] # E!NoLike
    BY <2>1 DEF E!Active, E!Of
  <2>3. UNCHANGED <<item, comment, repost, copies, engaging>>
    BY <1>3 DEF E!Unlike
  <2>4. /\ like' \in [LikeIds -> {E!NoLike} \cup E!Like]
        /\ \A j \in LikeIds : like[j] # E!NoLike => like'[j] # E!NoLike
        /\ Ever' = Ever
    BY <2>1, <2>2, <2>3, LikeSwitched
  <2>5. QED
    BY <1>a, <1>c, <2>3, <2>4 DEF EngagementInv, E!TypeOK
<1>4. ASSUME NEW n \in 1 .. MaxComments, E!DeleteComment(n)
      PROVE  EngagementInv'
  <2>1. Ever' = Ever
    BY <1>4, DeleteCommentKeeps
  <2>2. Backed'
    BY <1>4, <1>c, <2>1 DEF E!DeleteComment
  <2>3. QED
    BY <1>4, <1>a, <2>2 DEF EngagementInv, E!TypeOK, E!DeleteComment, E!Rows
<1>5. ASSUME NEW u \in Users, E!Unrepost(u)
      PROVE  EngagementInv'
  <2>1. Ever' = Ever
    BY <1>5, UnrepostKeeps
  <2>2. Backed'
    BY <1>5, <1>c, <2>1 DEF E!Unrepost
  <2>3. QED
    BY <1>5, <1>a, <2>2 DEF EngagementInv, E!TypeOK, E!Unrepost
<1>6. CASE E!SoftDelete
  <2>1. /\ item' = [item EXCEPT !.is_active = FALSE]
        /\ UNCHANGED <<like, comment, repost, engaging>>
    BY <1>6 DEF E!SoftDelete
  <2>2. Ever' = Ever
    BY <2>1, EverSame
  <2>3. item' \in E!Post /\ item'.engagement_count = item.engagement_count
    BY <1>b, <2>1 DEF E!Post
  <2>4. Backed'
    BY <1>c, <2>1, <2>2, <2>3
  <2>5. QED
    BY <1>a, <2>1, <2>3, <2>4 DEF EngagementInv, E!TypeOK
<1>7. CASE UNCHANGED E!vars
  <2>1. Ever' = Ever
    BY <1>7, EverSame DEF E!vars
  <2>2. Backed'
    BY <1>7, <1>c, <2>1 DEF E!vars
  <2>3. QED
    BY <1>7, <1>a, <2>2 DEF EngagementInv, E!TypeOK, E!vars
<1>8. QED
  BY <1>1, <1>2, <1>3, <1>4, <1>5, <1>6, <1>7
     DEF E!Next, E!LikeStep, E!ShareStep, E!OwnerStep

LEMMA EngagementInvariant == E!Spec => []EngagementInv
<1>1. E!Init => EngagementInv
  <2> SUFFICES ASSUME E!Init PROVE EngagementInv
    OBVIOUS
  <2>1. E!MaxCount \in Nat
    <3>1. Cardinality(LikeIds) \in Nat /\ Cardinality(Users) \in Nat /\ MaxComments \in Nat
      BY BoundsAssumption, FS_CardinalityType
    <3>2. E!MaxCount = Cardinality(LikeIds) + MaxComments + Cardinality(Users)
      BY SameCardinality DEF E!MaxCount
    <3>3. QED
      BY <3>1, <3>2
  <2>2. E!TypeOK
    BY <2>1 DEF E!Init, E!TypeOK, E!Post, E!Rows
  <2>3. Ever \in Nat
    BY <2>2, EverBounded
  <2>4. QED
    BY <2>2, <2>3
       DEF E!Init, EngagementInv, Backed, StepBacked, E!Idle, OneCopyPerRepost,
           E!OneCopyPerRepost
<1>2. QED
  BY <1>1, EngagementStep, PTL DEF E!Spec

\* A repost and the post it creates stand or fall together (create.py:243),
\* whichever requests overlap, are refused by the constraint or die.
THEOREM CopiesFollowReposts == SocietySpec => []OneCopyPerRepost
<1>1. EngagementInv => OneCopyPerRepost
  BY DEF EngagementInv
<1>2. QED
  BY <1>1, EngagementInvariant, EachPart, PTL

\* The stored popularity of a post never exceeds the likes, comments and
\* reposts ever made (signals.py:36).
LEMMA PopularityBacked == EngagementInv => E!EngagementBacked
<1>1. EngagementInv => item.engagement_count <= Ever
  BY DEF EngagementInv, Backed
<1>2. Ever = E!Cardinality(EverLiked) + E!Cardinality(EverCommented) + E!Cardinality(EverReposted)
  BY SameCardinality DEF Ever
<1>3. QED
  BY <1>1, <1>2 DEF E!EngagementBacked, EverLiked, EverCommented, EverReposted

\* A deleted post stays deleted, unless a repost or an edit that read it
\* before saves its whole copy (create.py:251, :169).
THEOREM DeletedForGood == SocietySpec => DeletedStaysDeleted
<1> DEFINE Stays ==
        /\ ~ item.is_active
        /\ \A r \in Requests :
              engaging[r].at \in {"repost", "reposted", "update"}
              => ~ engaging[r].copy.is_active
        => ~ item'.is_active
<1>1. ASSUME EngagementInv, [E!Next]_(E!vars), ~ item.is_active,
             \A r \in Requests :
                engaging[r].at \in {"repost", "reposted", "update"}
                => ~ engaging[r].copy.is_active
      PROVE  ~ item'.is_active
  <2>1. item \in E!Post
    BY <1>1 DEF EngagementInv, E!TypeOK
  <2>2. ASSUME NEW n PROVE [item EXCEPT !.engagement_count = n].is_active = item.is_active
    BY <2>1 DEF E!Post
  <2>3. ASSUME NEW r \in Requests, E!RepostCommit(r) PROVE ~ item'.is_active
    <3>1. /\ engaging[r].copy \in E!Post /\ ~ engaging[r].copy.is_active
      BY <1>1, <2>3, EngagingShape DEF E!RepostCommit, EngagementInv
    <3>2. \/ item' = item
          \/ item' = [engaging[r].copy EXCEPT !.is_reposted = TRUE,
                                              !.engagement_count = E!Recount(engaging[r].count)]
      BY <2>3 DEF E!RepostCommit
    <3>3. QED
      BY <1>1, <3>1, <3>2 DEF E!Post
  <2>4. ASSUME NEW r \in Requests, E!UpdateSave(r) PROVE ~ item'.is_active
    BY <1>1, <2>4 DEF E!UpdateSave
  <2>5. ASSUME NEW r \in Requests, E!LikeCommit(r) \/ E!CommentCommit(r) \/ E!InteractCommit(r)
        PROVE ~ item'.is_active
    BY <1>1, <2>2, <2>5 DEF E!LikeCommit, E!CommentCommit, E!InteractCommit, E!Stored
  <2>6. CASE E!SoftDelete
    BY <2>6, <2>1 DEF E!SoftDelete, E!Post
  <2>7. CASE UNCHANGED item
    BY <1>1, <2>7
  <2>8. \/ UNCHANGED item
        \/ E!SoftDelete
        \/ \E r \in Requests :
              \/ E!RepostCommit(r) \/ E!UpdateSave(r)
              \/ E!LikeCommit(r) \/ E!CommentCommit(r) \/ E!InteractCommit(r)
    BY <1>1
       DEF E!Next, E!vars, E!LikeStep, E!ShareStep, E!OwnerStep, E!LikeCheck, E!LikeInsert,
           E!Relike, E!CommentInsert, E!RepostCheck, E!InteractCount, E!RepostInsert,
           E!UpdateRead, E!RequestFails, E!Unlike, E!DeleteComment, E!Unrepost
  <2>9. QED
    BY <2>3, <2>4, <2>5, <2>6, <2>7, <2>8
<1>2. EngagementInv /\ [E!Next]_(E!vars) => [Stays]_(E!vars)
  BY <1>1
<1>3. DeletedStaysDeleted <=> [][Stays]_(E!vars)
  BY DEF DeletedStaysDeleted, E!DeletedStaysDeleted
<1>4. QED
  BY <1>2, <1>3, EngagementInvariant, EachPart, PTL DEF E!Spec

\* With one request at a time a user has one row for a thing at most, liked
\* or not, and none while a new one is on its way.
OneRowPerLike ==
    /\ \A i, j \in LikeIds :
          /\ like[i] # E!NoLike /\ like[j] # E!NoLike
          /\ like[i].user = like[j].user /\ like[i].target = like[j].target
          => i = j
    /\ \A r \in Requests : engaging[r].at \in {"like", "liked"} =>
          E!Of(engaging[r].user, engaging[r].target) = {}

LEMMA OneRowStep ==
    EngagementInv /\ OneRowPerLike /\ Apart(engaging) /\ Apart(engaging)' /\ [E!Next]_(E!vars)
    => OneRowPerLike'
<1> SUFFICES ASSUME E!TypeOK, Backed, OneRowPerLike, [E!Next]_(E!vars),
                    Apart(engaging), Apart(engaging)'
             PROVE  OneRowPerLike'
  BY DEF EngagementInv
<1>b. ASSUME NEW r \in Requests, engaging[r].at # "idle", NEW step,
             engaging' = [engaging EXCEPT ![r] = step]
      PROVE  \A s \in Requests : s # r => engaging'[s].at = "idle"
  BY <1>b DEF Apart, E!TypeOK
<1>a. ASSUME NEW i \in LikeIds, like[i] # E!NoLike, NEW b \in BOOLEAN, UNCHANGED engaging,
             like' = [like EXCEPT ![i].is_active = b]
      PROVE  OneRowPerLike'
  <2>1. /\ like[i] \in E!Like /\ like \in [LikeIds -> {E!NoLike} \cup E!Like]
    BY <1>a DEF E!TypeOK
  <2>2. /\ like'[i] # E!NoLike /\ like'[i].user = like[i].user
        /\ like'[i].target = like[i].target
    BY <1>a, <2>1 DEF E!Like, E!NoLike
  <2>3. \A j \in LikeIds : j # i => like'[j] = like[j]
    BY <1>a, <2>1
  <2>4. QED
    BY <1>a, <2>1, <2>2, <2>3 DEF OneRowPerLike, E!Of
<1>1. ASSUME NEW r \in Requests, NEW u \in Users, NEW t \in E!Targets, E!LikeCheck(r, u, t)
      PROVE  OneRowPerLike'
  BY <1>1 DEF E!LikeCheck, E!Goto, E!TypeOK, OneRowPerLike, E!Of, E!Idle
<1>2. ASSUME NEW r \in Requests, E!LikeInsert(r)
      PROVE  OneRowPerLike'
  BY <1>2 DEF E!LikeInsert, E!Goto, E!TypeOK, OneRowPerLike, E!Of
<1>3. ASSUME NEW r \in Requests, E!LikeCommit(r)
      PROVE  OneRowPerLike'
  <2> DEFINE me == engaging[r]
             row == [user |-> me.user, target |-> me.target, is_active |-> TRUE]
  <2>1. PICK i \in LikeIds : like[i] = E!NoLike /\ like' = [like EXCEPT ![i] = row]
    BY <1>3 DEF E!LikeCommit
  <2>2. \A j \in LikeIds : like[j] # E!NoLike => ~ (like[j].user = me.user /\ like[j].target = me.target)
    BY <1>3 DEF E!LikeCommit, OneRowPerLike, E!Of
  <2>3. /\ like'[i] = row /\ \A j \in LikeIds : j # i => like'[j] = like[j]
    BY <2>1 DEF E!TypeOK
  <2>4. /\ engaging[r].at # "idle" /\ engaging'[r] = E!Idle
        /\ engaging' = [engaging EXCEPT ![r] = E!Idle]
    BY <1>3 DEF E!LikeCommit, E!Goto, E!TypeOK
  <2>5. \A s \in Requests : engaging'[s].at = "idle"
    <3>1. \A s \in Requests : s # r => engaging'[s].at = "idle"
      BY <2>4, <1>b
    <3>2. engaging'[r].at = "idle"
      BY <2>4 DEF E!Idle
    <3>3. QED
      BY <3>1, <3>2
  <2>6. QED
    BY <2>2, <2>3, <2>5 DEF OneRowPerLike
<1>4. ASSUME NEW r \in Requests, E!Relike(r)
      PROVE  OneRowPerLike'
  <2> DEFINE i == engaging[r].id
  <2>1. i \in LikeIds /\ like[i] # E!NoLike /\ like' = [like EXCEPT ![i].is_active = TRUE]
    BY <1>4, EngagingShape DEF E!Relike, Backed, StepBacked
  <2>2. /\ engaging[r].at # "idle" /\ engaging'[r] = E!Idle
        /\ engaging' = [engaging EXCEPT ![r] = E!Idle]
    BY <1>4 DEF E!Relike, E!Goto, E!TypeOK
  <2>3. \A s \in Requests : engaging'[s].at = "idle"
    <3>1. \A s \in Requests : s # r => engaging'[s].at = "idle"
      BY <2>2, <1>b
    <3>2. engaging'[r].at = "idle"
      BY <2>2 DEF E!Idle
    <3>3. QED
      BY <3>1, <3>2
  <2> HIDE DEF i
  <2>4. like[i] \in E!Like /\ like \in [LikeIds -> {E!NoLike} \cup E!Like]
    BY <2>1 DEF E!TypeOK
  <2>5. /\ like'[i].user = like[i].user /\ like'[i].target = like[i].target
        /\ \A j \in LikeIds : j # i => like'[j] = like[j]
    BY <2>1, <2>4 DEF E!Like
  <2>6. QED
    BY <2>1, <2>3, <2>5 DEF OneRowPerLike
<1>5. ASSUME NEW u \in Users, NEW t \in E!Targets, E!Unlike(u, t)
      PROVE  OneRowPerLike'
  <2>1. PICK i \in LikeIds :
           E!Active(E!Of(u, t)) = {i} /\ like' = [like EXCEPT ![i].is_active = FALSE]
    BY <1>5 DEF E!Unlike
  <2>2. like[i] # E!NoLike /\ UNCHANGED engaging
    BY <1>5, <2>1 DEF E!Active, E!Of, E!Unlike
  <2>3. QED
    BY <2>1, <2>2, <1>a
<1>6. ASSUME NEW r \in Requests,
             \/ \E u \in Users : E!RepostCheck(r, u)
             \/ E!CommentInsert(r) \/ E!RepostInsert(r) \/ E!InteractCount(r) \/ E!UpdateRead(r)
             \/ E!CommentCommit(r) \/ E!RepostCommit(r) \/ E!InteractCommit(r) \/ E!UpdateSave(r)
             \/ E!RequestFails(r)
      PROVE  OneRowPerLike'
  <2>1. /\ UNCHANGED like
        /\ engaging'[r].at \notin {"like", "liked"}
        /\ \A s \in Requests : s # r => engaging'[s] = engaging[s]
    BY <1>6
       DEF E!RepostCheck, E!CommentInsert, E!RepostInsert, E!InteractCount, E!UpdateRead,
           E!CommentCommit, E!RepostCommit, E!InteractCommit, E!UpdateSave, E!RequestFails,
           E!Goto, E!Idle, E!TypeOK
  <2>2. QED
    BY <2>1 DEF OneRowPerLike, E!Of
<1>7. CASE UNCHANGED <<like, engaging>>
  BY <1>7 DEF OneRowPerLike, E!Of
<1>8. \/ \E u \in Users, t \in E!Targets : E!Unlike(u, t)
      \/ \E r \in Requests : E!LikeStep(r) \/ E!ShareStep(r) \/ E!OwnerStep(r) \/ E!RequestFails(r)
      \/ UNCHANGED <<like, engaging>>
  BY DEF E!Next, E!vars, E!DeleteComment, E!Unrepost, E!SoftDelete
<1>9. QED
  BY <1>1, <1>2, <1>3, <1>4, <1>5, <1>6, <1>7, <1>8 DEF E!LikeStep, E!ShareStep, E!OwnerStep

\* "You already liked this post": until two requests overlap between
\* check and insert, nobody has two active likes of one thing
\* (services_T.py:105 raises when one does).
THEOREM LikedOnce == SocietySpec => []OneLike
<1> DEFINE Inv == ~ overlapped => OneRowPerLike /\ ~ Overlap
<1>1. SocietyInit => Inv
  <2>1. SocietyInit => OneRowPerLike
    BY DEF SocietyInit, E!Init, OneRowPerLike, E!Idle
  <2>2. SocietyInit => ~ Overlap
    BY DEF SocietyInit, E!Init, P!Init, E!Idle, P!Idle, Overlap, AtOnce
  <2>3. QED
    BY <2>1, <2>2
<1>2. EngagementInv /\ Inv /\ [SocietyNext]_societyVars => Inv'
  <2> SUFFICES ASSUME EngagementInv, Inv, [SocietyNext]_societyVars, ~ overlapped'
               PROVE  OneRowPerLike' /\ ~ Overlap'
    OBVIOUS
  <2>1. OneRowPerLike /\ ~ Overlap /\ ~ Overlap'
    BY NoOverlapYet
  <2>2. Apart(engaging) /\ Apart(engaging)'
    BY <2>1 DEF Overlap, AtOnce, Apart
  <2>3. QED
    BY <2>1, <2>2, OnePartMoves, OneRowStep
<1>3. Inv => OneLike
  <2> SUFFICES ASSUME OneRowPerLike, NEW u \in Users, NEW t \in E!Targets
               PROVE  E!Cardinality(E!Active(E!Of(u, t))) <= 1
    BY DEF OneLike, E!OneLike
  <2> DEFINE S == E!Active(E!Of(u, t))
  <2>1. \A i, j \in S : i = j
    BY DEF OneRowPerLike, E!Active, E!Of
  <2> HIDE DEF S
  <2>2. ASSUME S = {} PROVE E!Cardinality(S) <= 1
    BY <2>2, SameCardinality, FS_EmptySet
  <2>3. ASSUME S # {} PROVE E!Cardinality(S) <= 1
    <3>1. PICK i : S = {i}
      BY <2>1, <2>3
    <3>2. Cardinality({i}) = 1
      BY FS_Singleton
    <3>3. QED
      BY <3>1, <3>2, SameCardinality
  <2>4. E!Cardinality(S) <= 1
    BY <2>2, <2>3
  <2>5. QED
    BY <2>4 DEF S
<1> HIDE DEF Inv
<1>4. QED
  BY <1>1, <1>2, <1>3, EngagementInvariant, EachPart, PTL DEF SocietySpec

-----------------------------------------------------------------------------
(* Reputation: the range of the score                                      *)

Reviews == [Customers -> {0} \cup Ratings]

LEMMA RatedFinite ==
    ASSUME NEW stars \in Reviews
    PROVE  /\ IsFiniteSet(P!Rated(stars)) /\ Cardinality(P!Rated(stars)) \in Nat
           /\ P!Rated(stars) # {} => Cardinality(P!Rated(stars)) \in Nat \ {0}
<1>1. IsFiniteSet(P!Rated(stars)) /\ Cardinality(P!Rated(stars)) \in Nat
  BY Smaller, BoundsAssumption DEF P!Rated
<1>2. P!Rated(stars) # {} => Cardinality(P!Rated(stars)) # 0
  BY <1>1, FS_EmptySet
<1>3. QED
  BY <1>1, <1>2

\* Four stars above the first are the most a customer can give.
LEMMA AverageRange ==
    ASSUME NEW stars \in Reviews
    PROVE  P!AverageRating(stars) \in 0 .. 30
<1> DEFINE R == P!Rated(stars)
           S == P!StarsAboveOne(stars)
<1>1. CASE R = {}
  BY <1>1 DEF P!AverageRating
<1>2. CASE R # {}
  <2>1. IsFiniteSet(R) /\ Cardinality(R) \in Nat \ {0}
    BY <1>2, RatedFinite
  <2>2. IsFiniteSet(2 .. 5) /\ Cardinality(2 .. 5) = 4
    <3>1. 2 \in Int /\ 5 \in Int
      OBVIOUS
    <3>2. /\ IsFiniteSet(2 .. 5)
          /\ Cardinality(2 .. 5) = IF 2 > 5 THEN 0 ELSE 5 - 2 + 1
      BY <3>1, FS_Interval, Zenon
    <3>3. QED
      BY <3>2
  <2>3. IsFiniteSet(R \X (2 .. 5)) /\ Cardinality(R \X (2 .. 5)) = Cardinality(R) * 4
    <3>1. /\ IsFiniteSet(R \X (2 .. 5))
          /\ Cardinality(R \X (2 .. 5)) = Cardinality(R) * Cardinality(2 .. 5)
      BY <2>1, <2>2, FS_Product
    <3>2. QED
      BY <2>2, <3>1
  <2>4. S \subseteq R \X (2 .. 5)
    BY DEF P!StarsAboveOne
  <2>5. Cardinality(S) \in Nat /\ Cardinality(S) <= Cardinality(R) * 4
    BY <2>3, <2>4, Smaller
  <2>6. P!AverageRating(stars) = (30 * Cardinality(S)) \div (4 * Cardinality(R))
    BY <1>2, SameCardinality DEF P!AverageRating
  <2> DEFINE c == Cardinality(S)
             m == 4 * Cardinality(R)
  <2>7. c \in Nat /\ m \in Nat /\ m > 0 /\ c <= m
    BY <2>1, <2>5
  <2>8. P!AverageRating(stars) = (30 * c) \div m
    BY <2>6
  <2> HIDE DEF c, m
  <2>9. (30 * c) \div m \in 0 .. 30
    BY <2>7
  <2>10. QED
    BY <2>8, <2>9
<1>3. QED
  BY <1>1, <1>2

EverEndorsed == {i \in Ids : endorsement[i] # "none"}

\* What so many jobs, a review or none, and the endorsements ever made give
\* at most.
Points(completed, rated) ==
    P!AtMost(50, 5 * completed) + (IF rated THEN 30 ELSE 0)
    + P!AtMost(20, 2 * Cardinality(EverEndorsed))

LEMMA EndorsedFinite ==
    /\ Cardinality(EverEndorsed) \in Nat
    /\ Cardinality(P!Endorsements) \in Nat
    /\ Cardinality(P!Endorsements) <= Cardinality(EverEndorsed)
<1>1. IsFiniteSet(EverEndorsed) /\ Cardinality(EverEndorsed) \in Nat
  BY Smaller, BoundsAssumption DEF EverEndorsed
<1>2. P!Endorsements \subseteq EverEndorsed
  BY DEF P!Endorsements, EverEndorsed
<1>3. QED
  BY <1>1, <1>2, Smaller

LEMMA ScoreRange ==
    ASSUME NEW n \in Nat, NEW stars \in Reviews
    PROVE  /\ P!ComputeTrustScore(n, stars) \in 0 .. 100
           /\ P!ComputeTrustScore(n, stars) <= Points(n, P!Rated(stars) # {})
<1>1. P!AverageRating(stars) \in 0 .. 30
  BY AverageRange
<1>2. P!Rated(stars) = {} => P!AverageRating(stars) = 0
  BY DEF P!AverageRating
<1>3. P!Cardinality(P!Endorsements) = Cardinality(P!Endorsements)
  BY SameCardinality
<1> DEFINE average == P!AverageRating(stars)
           e == Cardinality(P!Endorsements)
           ever == Cardinality(EverEndorsed)
           total == P!AtMost(50, 5 * n) + average + P!AtMost(20, 2 * e)
<1>4. e \in Nat /\ ever \in Nat /\ e <= ever
  BY EndorsedFinite
<1>5. P!ComputeTrustScore(n, stars) = P!AtMost(100, total)
  BY <1>3 DEF P!ComputeTrustScore
<1>6. Points(n, P!Rated(stars) # {}) =
        P!AtMost(50, 5 * n) + (IF P!Rated(stars) # {} THEN 30 ELSE 0)
        + P!AtMost(20, 2 * ever)
  BY DEF Points
<1> HIDE DEF average, e, ever
<1>7. average \in 0 .. 30 /\ (P!Rated(stars) = {} => average = 0)
  BY <1>1, <1>2 DEF average
<1>8. QED
  BY <1>4, <1>5, <1>6, <1>7 DEF P!AtMost

LEMMA PointsGrow ==
    ASSUME NEW m \in Nat, NEW n \in Nat, m <= n, NEW a \in BOOLEAN, NEW b \in BOOLEAN, a => b
    PROVE  Points(m, a) \in Nat /\ Points(n, b) \in Nat /\ Points(m, a) <= Points(n, b)
BY EndorsedFinite DEF Points, P!AtMost

-----------------------------------------------------------------------------
(* Reputation: the invariant                                               *)

Cap == Points(jobs, P!Rated(review) # {})

CapWith(own) ==
    Points(IF own.kind = "job" THEN jobs + 1 ELSE jobs,
           own.kind = "review" \/ P!Rated(review) # {})

StepEarned(me) ==
    /\ me.at = "profile" => me.copy <= Cap
    /\ me.at = "save" => me.score <= CapWith(me.own)

\* Nothing is stored, or about to be stored, that was not earned, and the
\* bookings on their way to completion fit under the bound.
Earned ==
    /\ trust_score <= Cap
    /\ \A r \in Requests : StepEarned(scoring[r])
    /\ jobs + Cardinality(P!Completing) <= MaxJobs

ReputationInv == P!TypeOK /\ Earned

LEMMA ScoringShape ==
    ASSUME P!TypeOK, NEW r \in Requests
    PROVE  LET me == scoring[r] IN
           /\ me.at \in {"score", "save"} =>
                /\ me.own \in P!Own /\ me.own.kind \in {"job", "review", "endorsement"}
                /\ me.own.kind = "review" =>
                      me.own.customer \in Customers /\ me.own.stars \in Ratings
           /\ me.at = "save" => me.score \in 0 .. 100
           /\ me.at = "profile" => me.copy \in 0 .. 100
BY DEF P!TypeOK, P!Idle, P!Running, P!Own

LEMMA JobsType ==
    ASSUME P!TypeOK
    PROVE  jobs \in Nat /\ MaxJobs \in Nat /\ PastJobs \in Nat
BY ReputationAssumption DEF P!TypeOK

LEMMA CompletingFinite ==
    IsFiniteSet(P!Completing) /\ Cardinality(P!Completing) \in Nat
BY Smaller, BoundsAssumption DEF P!Completing

\* When a request takes a step, the completions on their way gain or lose at
\* most its own.
LEMMA CompletingMoves ==
    ASSUME P!TypeOK, NEW r \in Requests, NEW step, scoring' = [scoring EXCEPT ![r] = step]
    PROVE  /\ Cardinality(P!Completing') <= Cardinality(P!Completing) + 1
           /\ ~ (step.at \in {"score", "save"} /\ step.own.kind = "job") \/ r \in P!Completing =>
                 Cardinality(P!Completing') <= Cardinality(P!Completing)
           /\ ~ (step.at \in {"score", "save"} /\ step.own.kind = "job") /\ r \in P!Completing =>
                 Cardinality(P!Completing') + 1 <= Cardinality(P!Completing)
           /\ Cardinality(P!Completing') \in Nat
<1>1. /\ scoring'[r] = step
      /\ \A s \in Requests : s # r => scoring'[s] = scoring[s]
  BY DEF P!TypeOK
<1>2. CASE step.at \in {"score", "save"} /\ step.own.kind = "job"
  <2>1. P!Completing' = P!Completing \cup {r}
    BY <1>1, <1>2 DEF P!Completing
  <2>2. IsFiniteSet(P!Completing) /\ Cardinality(P!Completing) \in Nat
    BY CompletingFinite
  <2>3. Cardinality(P!Completing') =
           IF r \in P!Completing THEN Cardinality(P!Completing) ELSE Cardinality(P!Completing) + 1
    <3>1. Cardinality(P!Completing \cup {r}) =
             IF r \in P!Completing THEN Cardinality(P!Completing) ELSE Cardinality(P!Completing) + 1
      BY <2>2, FS_AddElement, Zenon
    <3>2. QED
      BY <2>1, <3>1
  <2>4. Cardinality(P!Completing') \in Nat
        /\ Cardinality(P!Completing') <= Cardinality(P!Completing) + 1
        /\ (r \in P!Completing => Cardinality(P!Completing') <= Cardinality(P!Completing))
    <3> DEFINE c == Cardinality(P!Completing)
               d == Cardinality(P!Completing')
    <3>1. c \in Nat /\ d = IF r \in P!Completing THEN c ELSE c + 1
      BY <2>2, <2>3
    <3> HIDE DEF c, d
    <3>2. d \in Nat /\ d <= c + 1 /\ (r \in P!Completing => d <= c)
      BY <3>1
    <3>3. QED
      BY <3>2 DEF c, d
  <2>5. QED
    BY <1>2, <2>4
<1>3. CASE ~ (step.at \in {"score", "save"} /\ step.own.kind = "job")
  <2>1. P!Completing' = P!Completing \ {r}
    BY <1>1, <1>3 DEF P!Completing
  <2>2. /\ IsFiniteSet(P!Completing')
        /\ Cardinality(P!Completing') =
              IF r \in P!Completing THEN Cardinality(P!Completing) - 1 ELSE Cardinality(P!Completing)
    BY <2>1, CompletingFinite, FS_RemoveElement
  <2>3. Cardinality(P!Completing') \in Nat /\ Cardinality(P!Completing) \in Nat
    BY <2>2, CompletingFinite, FS_CardinalityType
  <2>4. QED
    BY <1>3, <2>2, <2>3
<1>4. QED
  BY <1>2, <1>3

\* Jobs, reviews and endorsements are only added.
OnlyAdded ==
    /\ jobs' \in Nat /\ jobs <= jobs'
    /\ P!Rated(review) # {} => P!Rated(review') # {}
    /\ \A i \in Ids : endorsement[i] # "none" => endorsement'[i] # "none"

\* The three parts, as numbers.
PointsOf(n, reviewed, endorsed) ==
    P!AtMost(50, 5 * n) + reviewed + P!AtMost(20, 2 * endorsed)

LEMMA PointsOfGrow ==
    ASSUME NEW m \in Nat, NEW n \in Nat, m <= n,
           NEW a \in Nat, NEW b \in Nat, a <= b,
           NEW x \in Nat, NEW y \in Nat, x <= y
    PROVE  /\ PointsOf(m, a, x) \in Nat /\ PointsOf(n, b, y) \in Nat
           /\ PointsOf(m, a, x) <= PointsOf(n, b, y)
BY DEF PointsOf, P!AtMost

LEMMA CapsGrow ==
    ASSUME P!TypeOK, OnlyAdded
    PROVE  /\ Cap \in Nat /\ Cap' \in Nat /\ Cap <= Cap'
           /\ \A own : CapWith(own) \in Nat /\ CapWith(own)' \in Nat /\ CapWith(own) <= CapWith(own)'
<1>1. IsFiniteSet(EverEndorsed') /\ EverEndorsed \subseteq EverEndorsed'
  <2>1. IsFiniteSet(EverEndorsed')
    BY Smaller, BoundsAssumption DEF EverEndorsed
  <2>2. QED
    BY <2>1 DEF EverEndorsed, OnlyAdded
<1>2. PICK x \in Nat, y \in Nat :
         x = Cardinality(EverEndorsed) /\ y = Cardinality(EverEndorsed') /\ x <= y
  BY <1>1, Smaller
<1>3. PICK m \in Nat, n \in Nat : m = jobs /\ n = jobs' /\ m <= n
  BY JobsType DEF OnlyAdded
<1>a. m <= n
  BY <1>3
<1>b. x <= y
  BY <1>2
<1>4. ASSUME NEW more \in 0 .. 1, NEW always \in BOOLEAN
      PROVE  LET low == PointsOf(m + more, IF always \/ P!Rated(review) # {} THEN 30 ELSE 0, x)
                 high == PointsOf(n + more, IF always \/ P!Rated(review') # {} THEN 30 ELSE 0, y)
             IN  low \in Nat /\ high \in Nat /\ low <= high
  <2>1. PICK a \in Nat : a = IF always \/ P!Rated(review) # {} THEN 30 ELSE 0
    OBVIOUS
  <2>2. PICK b \in Nat : b = IF always \/ P!Rated(review') # {} THEN 30 ELSE 0
    OBVIOUS
  <2>3. a <= b
    BY <2>1, <2>2 DEF OnlyAdded
  <2>4. m + more \in Nat /\ n + more \in Nat /\ m + more <= n + more
    BY <1>a
  <2>5. QED
    BY <1>b, <2>1, <2>2, <2>3, <2>4, PointsOfGrow
<1>5. Cap \in Nat /\ Cap' \in Nat /\ Cap <= Cap'
  <2>0. m + 0 = m /\ n + 0 = n
    OBVIOUS
  <2>1. /\ Cap = PointsOf(m + 0, IF FALSE \/ P!Rated(review) # {} THEN 30 ELSE 0, x)
        /\ Cap' = PointsOf(n + 0, IF FALSE \/ P!Rated(review') # {} THEN 30 ELSE 0, y)
    BY <1>2, <1>3, <2>0 DEF Cap, Points, PointsOf
  <2>2. 0 \in 0 .. 1 /\ FALSE \in BOOLEAN
    OBVIOUS
  <2>3. LET low == PointsOf(m + 0, IF FALSE \/ P!Rated(review) # {} THEN 30 ELSE 0, x)
            high == PointsOf(n + 0, IF FALSE \/ P!Rated(review') # {} THEN 30 ELSE 0, y)
        IN  low \in Nat /\ high \in Nat /\ low <= high
    BY <1>4, <2>2, Zenon
  <2>4. QED
    BY <2>1, <2>3
<1>6. ASSUME NEW own
      PROVE  CapWith(own) \in Nat /\ CapWith(own)' \in Nat /\ CapWith(own) <= CapWith(own)'
  <2>1. PICK more \in 0 .. 1 : more = IF own.kind = "job" THEN 1 ELSE 0
    OBVIOUS
  <2>2. PICK always \in BOOLEAN : always <=> own.kind = "review"
    OBVIOUS
  <2>3. /\ (IF own.kind = "job" THEN jobs + 1 ELSE jobs) = m + more
        /\ (IF own.kind = "job" THEN jobs' + 1 ELSE jobs') = n + more
    <3>1. CASE own.kind = "job"
      BY <1>3, <2>1, <3>1
    <3>2. CASE own.kind # "job"
      <4>1. more = 0 /\ m + 0 = m /\ n + 0 = n
        BY <2>1, <3>2
      <4>2. QED
        BY <1>3, <3>2, <4>1
    <3>3. QED
      BY <3>1, <3>2
  <2>4. /\ CapWith(own) = PointsOf(m + more, IF always \/ P!Rated(review) # {} THEN 30 ELSE 0, x)
        /\ CapWith(own)' = PointsOf(n + more, IF always \/ P!Rated(review') # {} THEN 30 ELSE 0, y)
    BY <1>2, <2>2, <2>3 DEF CapWith, Points, PointsOf
  <2>5. QED
    BY <1>4, <2>4
<1>7. QED
  BY <1>5, <1>6

LEMMA OthersEarned ==
    ASSUME P!TypeOK, OnlyAdded, NEW s \in Requests, StepEarned(scoring[s]), scoring'[s] = scoring[s]
    PROVE  StepEarned(scoring[s])'
BY CapsGrow, ScoringShape DEF StepEarned

\* What a step of one request has to keep.
LEMMA ScoringMoves ==
    ASSUME P!TypeOK, Earned, OnlyAdded, NEW r \in Requests, NEW step,
           scoring' = [scoring EXCEPT ![r] = step],
           StepEarned(step)', trust_score' <= Cap',
           jobs' + Cardinality(P!Completing') <= MaxJobs
    PROVE  Earned'
<1>1. /\ scoring'[r] = step
      /\ \A s \in Requests : s # r => scoring'[s] = scoring[s]
  BY DEF P!TypeOK
<1>2. StepEarned(scoring[r])'
  BY <1>1 DEF StepEarned
<1>3. \A s \in Requests : s # r => StepEarned(scoring[s])'
  BY <1>1, OthersEarned DEF Earned
<1>4. QED
  BY <1>2, <1>3 DEF Earned

\* A request that only begins, ends or computes.
LEMMA ScoringStep ==
    ASSUME ReputationInv, NEW r \in Requests,
           \/ P!Complete(r) \/ P!Endorse(r) \/ P!Score(r) \/ P!ProfileRead(r) \/ P!RequestFails(r)
           \/ \E c \in Customers, stars \in Ratings : P!Review(r, c, stars)
    PROVE  ReputationInv'
<1> USE DEF ReputationInv
<1>1. UNCHANGED <<trust_score, jobs, review>> /\ trust_score \in 0 .. 100 /\ trust_score <= Cap
  BY DEF P!Complete, P!Endorse, P!Score, P!ProfileRead, P!RequestFails, P!Review, P!TypeOK, Earned
<1>2. /\ endorsement' \in [Ids -> {"none", "active", "deleted"}]
      /\ \A i \in Ids : endorsement[i] # "none" => endorsement'[i] # "none"
  BY DEF P!Complete, P!Endorse, P!Score, P!ProfileRead, P!RequestFails, P!Review, P!TypeOK
<1>3. OnlyAdded
  BY <1>1, <1>2, JobsType DEF OnlyAdded
<1>4. trust_score' <= Cap'
  BY <1>1, <1>3, CapsGrow
<1>5. /\ jobs + Cardinality(P!Completing) <= MaxJobs /\ jobs \in Nat /\ MaxJobs \in Nat
      /\ Cardinality(P!Completing) \in Nat
  BY JobsType, CompletingFinite DEF Earned
<1>a. ASSUME NEW step \in {P!Idle} \cup P!Running, scoring' = [scoring EXCEPT ![r] = step],
             StepEarned(step)', jobs' + Cardinality(P!Completing') <= MaxJobs
      PROVE  ReputationInv'
  <2>1. Earned'
    BY <1>3, <1>4, <1>a, ScoringMoves
  <2>2. P!TypeOK'
    BY <1>1, <1>2, <1>a DEF P!TypeOK
  <2>3. QED
    BY <2>1, <2>2
\* a step that adds no completion
<1>b. ASSUME NEW step, scoring' = [scoring EXCEPT ![r] = step],
             step.at \in {"score", "save"} /\ step.own.kind = "job" => r \in P!Completing
      PROVE  jobs' + Cardinality(P!Completing') <= MaxJobs
  <2>1. /\ Cardinality(P!Completing') \in Nat
        /\ Cardinality(P!Completing') <= Cardinality(P!Completing)
    BY <1>b, CompletingMoves
  <2>2. QED
    BY <1>1, <1>5, <2>1
<1>6. CASE P!Complete(r)
  <2>0. PICK step : step = [at |-> "score", own |-> [kind |-> "job"]]
    OBVIOUS
  <2>1. /\ scoring' = [scoring EXCEPT ![r] = step] /\ step \in P!Running
        /\ jobs + Cardinality(P!Completing) < MaxJobs
    BY <2>0, <1>6, SameCardinality DEF P!Complete, P!Goto, P!Running, P!Own
  <2>2. /\ step.at = "score" /\ step.own.kind = "job"
        /\ Cardinality(P!Completing') \in Nat
        /\ Cardinality(P!Completing') <= Cardinality(P!Completing) + 1
    BY <2>0, <2>1, <1>5, CompletingMoves
  <2>3. StepEarned(step)'
    BY <2>0 DEF StepEarned
  <2>4. jobs' + Cardinality(P!Completing') <= MaxJobs
    BY <1>1, <1>5, <2>1, <2>2
  <2>5. QED
    BY <1>a, <2>1, <2>3, <2>4
<1>7. ASSUME NEW c \in Customers, NEW stars \in Ratings, P!Review(r, c, stars)
      PROVE  ReputationInv'
  <2>0. PICK step : step = [at |-> "score", own |-> [kind |-> "review", customer |-> c, stars |-> stars]]
    OBVIOUS
  <2>1. scoring' = [scoring EXCEPT ![r] = step] /\ step \in P!Running
    BY <2>0, <1>7 DEF P!Review, P!Goto, P!Running, P!Own
  <2>2. StepEarned(step)' /\ step.own.kind # "job"
    BY <2>0 DEF StepEarned
  <2>3. QED
    BY <1>a, <1>b, <2>1, <2>2
<1>8. CASE P!Endorse(r)
  <2>0. PICK step : step = [at |-> "score", own |-> [kind |-> "endorsement"]]
    OBVIOUS
  <2>1. scoring' = [scoring EXCEPT ![r] = step] /\ step \in P!Running
    BY <2>0, <1>8 DEF P!Endorse, P!Goto, P!Running, P!Own
  <2>2. StepEarned(step)' /\ step.own.kind # "job"
    BY <2>0 DEF StepEarned
  <2>3. QED
    BY <1>a, <1>b, <2>1, <2>2
<1>9. CASE P!ProfileRead(r)
  <2>0. PICK step : step = [at |-> "profile", copy |-> trust_score]
    OBVIOUS
  <2>1. scoring' = [scoring EXCEPT ![r] = step] /\ step \in P!Running
    BY <2>0, <1>1, <1>9 DEF P!ProfileRead, P!Goto, P!Running
  <2>2. StepEarned(step)' /\ step.at = "profile"
    BY <2>0, <1>1, <1>4 DEF StepEarned
  <2>3. QED
    BY <1>a, <1>b, <2>1, <2>2
<1>10. CASE P!RequestFails(r) \/ (P!Score(r) /\ scoring' = [scoring EXCEPT ![r] = P!Idle])
  <2>1. scoring' = [scoring EXCEPT ![r] = P!Idle]
    BY <1>10 DEF P!RequestFails, P!Goto
  <2>2. StepEarned(P!Idle)' /\ P!Idle.at = "idle"
    BY DEF StepEarned, P!Idle
  <2>3. QED
    BY <1>a, <1>b, <2>1, <2>2
<1>11. ASSUME P!Score(r), scoring' # [scoring EXCEPT ![r] = P!Idle]
       PROVE  ReputationInv'
  <2>0. PICK own : own = scoring[r].own
    OBVIOUS
  <2> DEFINE n == IF own.kind = "job" THEN jobs + 1 ELSE jobs
             stars == IF own.kind = "review" THEN [review EXCEPT ![own.customer] = own.stars] ELSE review
  <2>a. PICK score_ : score_ = P!WithOwn(own)
    OBVIOUS
  <2>b. PICK step : step = [at |-> "save", own |-> own, score |-> score_]
    OBVIOUS
  <2>1. /\ scoring' = [scoring EXCEPT ![r] = step]
        /\ own \in P!Own /\ scoring[r].at = "score"
        /\ own.kind = "review" => own.customer \in Customers /\ own.stars \in Ratings
    BY <1>11, <2>0, <2>a, <2>b, ScoringShape DEF P!Score, P!Goto
  <2>2. n \in Nat /\ stars \in Reviews
    BY <1>5, <2>1 DEF P!TypeOK, Reviews
  <2>3. score_ = P!ComputeTrustScore(n, stars)
    BY <2>a DEF P!WithOwn
  <2>4. own.kind = "review" \/ P!Rated(review) # {} <=> P!Rated(stars) # {}
    BY <2>1, ReputationAssumption DEF P!Rated, P!TypeOK
  <2>5. score_ \in 0 .. 100 /\ score_ <= CapWith(own)
    <3>1. Points(n, P!Rated(stars) # {}) = CapWith(own)
      BY <2>4 DEF CapWith
    <3> HIDE DEF n, stars
    <3>2. QED
      BY <2>2, <2>3, <3>1, ScoreRange
  <2>6. CapWith(own)' = CapWith(own)
    BY <1>1, <1>11 DEF CapWith, Points, EverEndorsed, P!Score
  <2>7. own.kind = "job" => r \in P!Completing
    BY <2>0, <2>1 DEF P!Completing
  <2>8. step \in P!Running
    BY <2>b, <2>1, <2>5 DEF P!Running
  <2>9. StepEarned(step)' /\ step.own = own
    BY <2>b, <2>5, <2>6 DEF StepEarned
  <2>10. QED
    BY <1>a, <1>b, <2>1, <2>7, <2>8, <2>9
<1>12. QED
  BY <1>6, <1>7, <1>8, <1>9, <1>10, <1>11

LEMMA SaveStep ==
    ASSUME ReputationInv, NEW r \in Requests, P!SaveTrustScore(r)
    PROVE  ReputationInv'
<1> USE DEF ReputationInv
<1>1. PICK me : me = scoring[r]
  OBVIOUS
<1>2. /\ me.at = "save" /\ me.own \in P!Own /\ me.score \in 0 .. 100
      /\ me.own.kind = "review" => me.own.customer \in Customers /\ me.own.stars \in Ratings
      /\ me.score <= CapWith(me.own)
  BY <1>1, ScoringShape DEF P!SaveTrustScore, Earned, StepEarned
<1>3. scoring' = [scoring EXCEPT ![r] = P!Idle] /\ UNCHANGED endorsement
  BY DEF P!SaveTrustScore, P!Goto
<1>4. P!Rated(review) # {} => P!Rated(review') # {}
  BY <1>1, <1>2, ReputationAssumption DEF P!SaveTrustScore, P!Rated, P!TypeOK
<1>5. review' \in Reviews
  BY <1>1, <1>2 DEF P!SaveTrustScore, P!TypeOK, Reviews
<1>6. (me.own.kind = "job" => jobs' = jobs + 1) /\ (me.own.kind # "job" => jobs' = jobs)
  BY <1>1 DEF P!SaveTrustScore
<1>7. OnlyAdded
  BY <1>3, <1>4, <1>6, JobsType DEF OnlyAdded
<1>8. trust_score' \in 0 .. 100 /\ trust_score' <= Cap'
  <2>1. CASE UNCHANGED <<trust_score, review>>
    BY <2>1, <1>7, CapsGrow DEF Earned, P!TypeOK
  <2>2. CASE ~ (me.own.kind = "review" /\ review[me.own.customer] # 0)
    <3>1. /\ trust_score' = me.score
          /\ review' = IF me.own.kind = "review"
                       THEN [review EXCEPT ![me.own.customer] = me.own.stars] ELSE review
      BY <1>1, <2>2 DEF P!SaveTrustScore
    <3>2. (me.own.kind = "review" \/ P!Rated(review) # {}) <=> P!Rated(review') # {}
      BY <1>2, <3>1, ReputationAssumption DEF P!Rated, P!TypeOK
    <3>3. EverEndorsed' = EverEndorsed
      BY <1>3 DEF EverEndorsed
    <3>4. Cap' = CapWith(me.own)
      BY <1>6, <3>2, <3>3 DEF Cap, CapWith, Points
    <3>5. QED
      BY <1>2, <3>1, <3>4
  <2>3. QED
    BY <1>1, <2>1, <2>2 DEF P!SaveTrustScore
<1>9. jobs' + Cardinality(P!Completing') <= MaxJobs /\ jobs' \in PastJobs .. MaxJobs
  <2>1. PICK n \in Nat, k \in Nat : n = Cardinality(P!Completing) /\ k = Cardinality(P!Completing')
    BY <1>3, CompletingFinite, CompletingMoves
  <2>2. /\ jobs \in Nat /\ MaxJobs \in Nat /\ PastJobs \in Nat /\ PastJobs <= jobs
        /\ jobs + n <= MaxJobs
    BY <2>1, JobsType DEF P!TypeOK, Earned
  <2>3. P!Idle.at = "idle"
    BY DEF P!Idle
  <2>4. CASE me.own.kind = "job"
    <3>1. r \in P!Completing
      BY <1>1, <1>2, <2>4 DEF P!Completing
    <3>2. Cardinality(P!Completing') + 1 <= Cardinality(P!Completing)
      BY <1>3, <2>3, <3>1, CompletingMoves
    <3>3. QED
      BY <1>6, <2>1, <2>2, <2>4, <3>2
  <2>5. CASE me.own.kind # "job"
    <3>1. Cardinality(P!Completing') <= Cardinality(P!Completing)
      BY <1>3, <2>3, CompletingMoves
    <3>2. QED
      BY <1>6, <2>1, <2>2, <2>5, <3>1
  <2>6. QED
    BY <2>4, <2>5
<1>10. Earned'
  <2>1. StepEarned(P!Idle)'
    BY DEF StepEarned, P!Idle
  <2>2. QED
    BY <1>3, <1>7, <1>8, <1>9, <2>1, ScoringMoves
<1>11. P!TypeOK'
  BY <1>3, <1>5, <1>8, <1>9 DEF P!TypeOK, Reviews
<1>12. QED
  BY <1>10, <1>11

LEMMA ReputationStep == ReputationInv /\ [P!Next]_(P!vars) => ReputationInv'
<1> SUFFICES ASSUME ReputationInv, [P!Next]_(P!vars) PROVE ReputationInv'
  OBVIOUS
<1> USE DEF ReputationInv
\* what changes the parts, or nothing at all
<1>a. ASSUME OnlyAdded, UNCHANGED <<trust_score, jobs, scoring>>,
             review' \in Reviews, endorsement' \in [Ids -> {"none", "active", "deleted"}]
      PROVE  ReputationInv'
  <2>1. \A s \in Requests : StepEarned(scoring[s])'
    BY <1>a, OthersEarned DEF Earned
  <2>2. trust_score' <= Cap'
    BY <1>a, CapsGrow DEF Earned, P!TypeOK
  <2>3. P!Completing' = P!Completing
    BY <1>a DEF P!Completing
  <2>4. Earned'
    BY <1>a, <2>1, <2>2, <2>3 DEF Earned
  <2>5. QED
    BY <1>a, <2>4 DEF P!TypeOK, Reviews
<1>1. ASSUME NEW r \in Requests, NEW c \in Customers, NEW stars \in Ratings, P!PatchReview(r, c, stars)
      PROVE  ReputationInv'
  <2>1. review' \in Reviews /\ UNCHANGED <<trust_score, jobs, endorsement, scoring>>
    BY <1>1 DEF P!PatchReview, P!TypeOK, Reviews
  <2>2. P!Rated(review) # {} => P!Rated(review') # {}
    BY <1>1, ReputationAssumption DEF P!PatchReview, P!Rated, P!TypeOK
  <2>3. OnlyAdded
    BY <2>1, <2>2, JobsType DEF OnlyAdded
  <2>4. QED
    BY <1>a, <2>1, <2>3 DEF P!TypeOK
<1>2. ASSUME NEW r \in Requests, NEW i \in Ids, P!DestroyEndorsement(r, i)
      PROVE  ReputationInv'
  <2>1. /\ UNCHANGED <<trust_score, jobs, review, scoring>>
        /\ endorsement' \in [Ids -> {"none", "active", "deleted"}]
        /\ \A j \in Ids : endorsement[j] # "none" => endorsement'[j] # "none"
    BY <1>2 DEF P!DestroyEndorsement, P!TypeOK
  <2>2. OnlyAdded
    BY <2>1, JobsType DEF OnlyAdded
  <2>3. QED
    BY <1>a, <2>1, <2>2 DEF P!TypeOK, Reviews
<1>3. ASSUME NEW r \in Requests, P!ProfileSave(r)
      PROVE  ReputationInv'
  <2>1. /\ trust_score' = scoring[r].copy /\ UNCHANGED <<jobs, review, endorsement>>
        /\ scoring[r].at = "profile" /\ scoring' = [scoring EXCEPT ![r] = P!Idle]
    BY <1>3 DEF P!ProfileSave, P!Goto
  <2>2. OnlyAdded
    BY <2>1, JobsType DEF OnlyAdded
  <2>3. trust_score' \in 0 .. 100 /\ trust_score' <= Cap
    BY <2>1, ScoringShape DEF Earned, StepEarned
  <2>4. trust_score' <= Cap'
    BY <2>2, <2>3, CapsGrow
  <2>5. P!Completing' = P!Completing
    BY <2>1 DEF P!Completing, P!Idle, P!TypeOK
  <2>6. StepEarned(P!Idle)'
    BY DEF StepEarned, P!Idle
  <2>7. Earned'
    BY <2>1, <2>2, <2>4, <2>5, <2>6, ScoringMoves DEF Earned
  <2>8. QED
    BY <2>1, <2>3, <2>7 DEF P!TypeOK
<1>4. CASE UNCHANGED P!vars
  <2>1. OnlyAdded /\ UNCHANGED <<trust_score, jobs, review, endorsement, scoring>>
    BY <1>4, JobsType DEF P!vars, OnlyAdded
  <2>2. QED
    BY <1>a, <2>1 DEF P!TypeOK, Reviews
<1>5. ASSUME NEW r \in Requests,
             \/ P!Complete(r) \/ P!Endorse(r) \/ P!Score(r) \/ P!ProfileRead(r) \/ P!RequestFails(r)
             \/ \E c \in Customers, stars \in Ratings : P!Review(r, c, stars)
      PROVE  ReputationInv'
  BY <1>5, ScoringStep
<1>6. ASSUME NEW r \in Requests, P!SaveTrustScore(r)
      PROVE  ReputationInv'
  BY <1>6, SaveStep
<1>7. QED
  BY <1>1, <1>2, <1>3, <1>4, <1>5, <1>6 DEF P!Next

LEMMA ReputationInvariant == P!Spec => []ReputationInv
<1>1. P!Init => ReputationInv
  <2> SUFFICES ASSUME P!Init PROVE ReputationInv
    OBVIOUS
  <2>1. P!TypeOK
    BY ReputationAssumption DEF P!Init, P!TypeOK, P!AtMost
  <2>2. trust_score <= Cap
    <3>1. Cardinality(EverEndorsed) \in Nat /\ PastJobs \in Nat
      BY EndorsedFinite, ReputationAssumption
    <3>2. /\ trust_score = P!AtMost(50, 5 * PastJobs)
          /\ Cap = P!AtMost(50, 5 * PastJobs) + (IF P!Rated(review) # {} THEN 30 ELSE 0)
                   + P!AtMost(20, 2 * Cardinality(EverEndorsed))
      BY DEF P!Init, Cap, Points
    <3>3. QED
      BY <3>1, <3>2 DEF P!AtMost
  <2>3. P!Completing = {}
    BY DEF P!Init, P!Completing, P!Idle
  <2>4. Earned
    BY <2>2, <2>3, FS_EmptySet, ReputationAssumption DEF P!Init, Earned, StepEarned, P!Idle
  <2>5. QED
    BY <2>1, <2>4 DEF ReputationInv
<1>2. QED
  BY <1>1, ReputationStep, PTL DEF P!Spec

LEMMA TrustEarned == ReputationInv => P!TrustIsEarned
<1> SUFFICES ASSUME ReputationInv PROVE P!TrustIsEarned
  OBVIOUS
<1>1. trust_score <= Cap
  BY DEF ReputationInv, Earned
<1>2. Cap = P!AtMost(50, 5 * jobs) + (IF P!Rated(review) = {} THEN 0 ELSE 30)
            + P!AtMost(20, 2 * P!Cardinality({i \in Ids : endorsement[i] # "none"}))
  BY SameCardinality DEF Cap, Points, EverEndorsed
<1>3. QED
  BY <1>1, <1>2 DEF P!TrustIsEarned

\* The two numbers that rank people and posts count nothing that did not
\* happen: the popularity of a post (signals.py:36) and the trust score of a
\* provider (trust_score_service.py:29), whatever recounts overlap, fail or
\* are overwritten by stale rows.
THEOREM NumbersStayEarned == SocietySpec => []NumbersAreEarned
<1>1. EngagementInv /\ ReputationInv => NumbersAreEarned
  BY PopularityBacked, TrustEarned DEF NumbersAreEarned
<1>2. QED
  BY <1>1, EngagementInvariant, ReputationInvariant, EachPart, PTL

\* With one request at a time, a score on its way to the row is the one of
\* this moment, and a copy of the profile is fresh.
NothingStale ==
    \A r \in Requests :
        LET me == scoring[r] IN
        /\ me.at = "save" =>
              /\ me.score = P!WithOwn(me.own)
              /\ me.own.kind = "review" => review[me.own.customer] = 0
        /\ me.at = "profile" => me.copy = trust_score

\* Whoever takes a step is the only one there is.
LEMMA StaleStep ==
    /\ P!TypeOK /\ NothingStale /\ Apart(scoring) /\ Apart(scoring)'
    /\ [P!Next]_(P!vars)
    /\ ~ Meanwhile \/ UNCHANGED P!vars
    => NothingStale'
<1> SUFFICES ASSUME P!TypeOK, NothingStale, Apart(scoring), Apart(scoring)', [P!Next]_(P!vars),
                    ~ Meanwhile \/ UNCHANGED P!vars
             PROVE  NothingStale'
  OBVIOUS
<1>a. ASSUME NEW r \in Requests, \A s \in Requests : s # r => scoring'[s].at = "idle",
             scoring'[r].at \notin {"save", "profile"}
      PROVE  NothingStale'
  BY <1>a DEF NothingStale
<1>b. ASSUME NEW r \in Requests, NEW step, scoring' = [scoring EXCEPT ![r] = step],
             scoring[r].at # "idle" \/ step.at # "idle"
      PROVE  \A s \in Requests : s # r => scoring'[s].at = "idle"
  BY <1>b DEF Apart, P!TypeOK
<1>1. ASSUME NEW r \in Requests, P!Score(r)
      PROVE  NothingStale'
  <2>1. PICK own : own = scoring[r].own
    OBVIOUS
  <2>a. scoring[r].at # "idle"
    BY <1>1 DEF P!Score
  <2>2. CASE scoring' = [scoring EXCEPT ![r] = P!Idle]
    <3>1. scoring'[r].at \notin {"save", "profile"}
      BY <2>2 DEF P!TypeOK, P!Idle
    <3>2. QED
      BY <2>2, <2>a, <3>1, <1>a, <1>b
  <2>3. CASE /\ scoring' = [scoring EXCEPT ![r] = [at |-> "save", own |-> own, score |-> P!WithOwn(own)]]
             /\ ~ (own.kind = "review" /\ review[own.customer] # 0)
    <3>1. scoring'[r] = [at |-> "save", own |-> own, score |-> P!WithOwn(own)]
      BY <2>3 DEF P!TypeOK
    <3>2. UNCHANGED <<jobs, review, endorsement>>
      BY <1>1 DEF P!Score
    <3>3. P!WithOwn(own)' = P!WithOwn(own)
      BY <3>2 DEF P!WithOwn, P!ComputeTrustScore, P!Endorsements
    <3>4. /\ scoring'[r].score = P!WithOwn(own)' /\ scoring'[r].own = own
          /\ scoring'[r].at = "save"
      BY <3>1, <3>3
    <3>5. \A s \in Requests : s # r => scoring'[s].at = "idle"
      BY <2>a, <2>3, <1>b
    <3>6. /\ scoring'[r].score = P!WithOwn(scoring[r].own)'
          /\ scoring'[r].own.kind = "review" => review'[scoring'[r].own.customer] = 0
      BY <2>3, <3>2, <3>4 DEF P!WithOwn
    <3>7. QED
      BY <3>4, <3>5, <3>6 DEF NothingStale
  <2>4. QED
    BY <1>1, <2>1, <2>2, <2>3 DEF P!Score, P!Goto
<1>2. ASSUME NEW r \in Requests, P!ProfileRead(r)
      PROVE  NothingStale'
  <2> DEFINE step == [at |-> "profile", copy |-> trust_score]
  <2>1. /\ scoring' = [scoring EXCEPT ![r] = step] /\ scoring'[r] = step
        /\ trust_score' = trust_score
    BY <1>2 DEF P!ProfileRead, P!Goto, P!TypeOK
  <2>2. \A s \in Requests : s # r => scoring'[s].at = "idle"
    BY <2>1, <1>b
  <2>3. QED
    BY <2>1, <2>2 DEF NothingStale
<1>3. ASSUME NEW r \in Requests,
             \/ P!Complete(r) \/ P!Endorse(r) \/ P!SaveTrustScore(r) \/ P!ProfileSave(r) \/ P!RequestFails(r)
             \/ \E c \in Customers, stars \in Ratings : P!Review(r, c, stars)
      PROVE  NothingStale'
  <2>1. PICK step :
           /\ scoring' = [scoring EXCEPT ![r] = step]
           /\ step.at \notin {"save", "profile"}
           /\ scoring[r].at # "idle" \/ step.at # "idle"
    <3>1. CASE \/ P!Complete(r) \/ P!Endorse(r)
               \/ \E c \in Customers, stars \in Ratings : P!Review(r, c, stars)
      <4>1. PICK own : scoring' = [scoring EXCEPT ![r] = [at |-> "score", own |-> own]]
        BY <3>1 DEF P!Complete, P!Endorse, P!Review, P!Goto
      <4>2. PICK step : step = [at |-> "score", own |-> own]
        OBVIOUS
      <4>3. step.at = "score" /\ scoring' = [scoring EXCEPT ![r] = step]
        BY <4>1, <4>2
      <4>4. QED
        BY <4>3
    <3>2. CASE P!SaveTrustScore(r) \/ P!ProfileSave(r) \/ P!RequestFails(r)
      <4>1. scoring' = [scoring EXCEPT ![r] = P!Idle]
        BY <3>2 DEF P!SaveTrustScore, P!ProfileSave, P!RequestFails, P!Goto
      <4>2. scoring[r].at # "idle"
        BY <3>2 DEF P!SaveTrustScore, P!ProfileSave, P!RequestFails, P!TypeOK, P!Running
      <4>3. P!Idle.at = "idle"
        BY DEF P!Idle
      <4>4. QED
        BY <4>1, <4>2, <4>3
    <3>3. QED
      BY <1>3, <3>1, <3>2
  <2>2. scoring'[r].at \notin {"save", "profile"}
    BY <2>1 DEF P!TypeOK
  <2>3. QED
    BY <2>1, <2>2, <1>a, <1>b
<1>4. CASE UNCHANGED P!vars
  BY <1>4
     DEF P!vars, NothingStale, P!WithOwn, P!ComputeTrustScore, P!Endorsements
<1>5. ASSUME NEW r \in Requests,
             \/ \E c \in Customers, stars \in Ratings : P!PatchReview(r, c, stars)
             \/ \E i \in Ids : P!DestroyEndorsement(r, i)
      PROVE  NothingStale'
  <2>1. UNCHANGED scoring
    BY <1>5 DEF P!PatchReview, P!DestroyEndorsement
  <2>2. CASE ~ Meanwhile
    BY <2>1, <2>2 DEF Meanwhile, NothingStale
  <2>3. QED
    BY <2>2, <1>4
<1>6. QED
  BY <1>1, <1>2, <1>3, <1>4, <1>5 DEF P!Next

\* Until two requests overlap the trust score never moves but to what the
\* jobs, reviews and endorsements of that moment give
\* (trust_score_service.py:29).
THEOREM TrustStaysTrue == SocietySpec => TrustTellsTheTruth
<1> DEFINE Inv == ~ overlapped => NothingStale /\ ~ Overlap
           Tells == ~ overlapped' /\ trust_score' # trust_score
                    => trust_score' = P!ComputeTrustScore(jobs, review)'
<1>1. SocietyInit => Inv
  <2>1. SocietyInit => NothingStale
    BY DEF SocietyInit, P!Init, NothingStale, P!Idle
  <2>2. SocietyInit => ~ Overlap
    BY DEF SocietyInit, E!Init, P!Init, E!Idle, P!Idle, Overlap, AtOnce
  <2>3. QED
    BY <2>1, <2>2
<1>2. ReputationInv /\ Inv /\ [SocietyNext]_societyVars => Inv'
  <2> SUFFICES ASSUME ReputationInv, Inv, [SocietyNext]_societyVars, ~ overlapped'
               PROVE  NothingStale' /\ ~ Overlap'
    OBVIOUS
  <2>1. NothingStale /\ ~ Overlap /\ ~ Overlap' /\ (~ Meanwhile \/ UNCHANGED P!vars)
    BY NoOverlapYet
  <2>2. Apart(scoring) /\ Apart(scoring)'
    BY <2>1 DEF Overlap, AtOnce, Apart
  <2>3. P!TypeOK
    BY DEF ReputationInv
  <2>4. QED
    BY <2>1, <2>2, <2>3, OnePartMoves, StaleStep
<1>3. ASSUME P!TypeOK, NothingStale, [P!Next]_(P!vars), trust_score' # trust_score
      PROVE  trust_score' = P!ComputeTrustScore(jobs, review)'
  <2>1. PICK r \in Requests : P!SaveTrustScore(r) \/ P!ProfileSave(r)
    BY <1>3
       DEF P!Next, P!vars, P!Complete, P!Endorse, P!Score, P!ProfileRead, P!RequestFails,
           P!Review, P!PatchReview, P!DestroyEndorsement
  <2>2. ~ P!ProfileSave(r)
    BY <1>3 DEF P!ProfileSave, NothingStale
  <2>3. PICK own : own = scoring[r].own
    OBVIOUS
  <2>4. /\ trust_score' = P!WithOwn(own)
        /\ jobs' = IF own.kind = "job" THEN jobs + 1 ELSE jobs
        /\ review' = IF own.kind = "review"
                     THEN [review EXCEPT ![own.customer] = own.stars] ELSE review
        /\ endorsement' = endorsement
    BY <1>3, <2>1, <2>2, <2>3 DEF P!SaveTrustScore, NothingStale
  <2>5. QED
    BY <2>4 DEF P!WithOwn, P!ComputeTrustScore, P!Endorsements
<1>4. ReputationInv /\ Inv /\ [SocietyNext]_societyVars => [Tells]_societyVars
  <2> SUFFICES ASSUME ReputationInv, Inv, [SocietyNext]_societyVars, ~ overlapped',
                      trust_score' # trust_score
               PROVE  trust_score' = P!ComputeTrustScore(jobs, review)'
    OBVIOUS
  <2>1. NothingStale /\ P!TypeOK
    BY NoOverlapYet DEF ReputationInv
  <2>2. QED
    BY <2>1, <1>3, OnePartMoves
<1>5. TrustTellsTheTruth <=> [][Tells]_societyVars
  BY DEF TrustTellsTheTruth
<1> HIDE DEF Inv, Tells
<1>6. QED
  BY <1>1, <1>2, <1>4, <1>5, ReputationInvariant, EachPart, PTL DEF SocietySpec

\* Every variable of every module keeps its shape, and no score of the feed
\* exceeds 1.0 (ShapesKept of Society), for overlapping requests and failures.
THEOREM ShapesAlwaysKept == SocietySpec => []ShapesKept
<1>1. TypeOK /\ RankingInv /\ EngagementInv /\ ReputationInv => ShapesKept
  BY DEF RankingInv, EngagementInv, ReputationInv, ShapesKept
<1>2. QED
  BY <1>1, TypeCorrect, RankingInvariant, EngagementInvariant, ReputationInvariant, EachPart, PTL
=============================================================================
