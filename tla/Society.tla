------------------------------ MODULE Society ------------------------------
(***************************************************************************)
(* The modules about posts and those who make them, side by side: Feed     *)
(* (extended here), Ranking, Engagement and Reputation.  They share no     *)
(* variable, so part picks one of them for a whole behaviour, as in Chats. *)
(* In the code they meet in three numbers: the engagement_count that       *)
(* Engagement keeps, the trust_score that Reputation keeps, and the scores *)
(* that Ranking computes from whatever the two are.                        *)
(*                                                                         *)
(* Some of the properties are the code's whatever overlaps.  Others hold   *)
(* only until two requests have been in flight at once, which the history  *)
(* variable overlapped remembers.  SocietyProofs proves the properties for *)
(* every value of the constants.                                           *)
(***************************************************************************)
EXTENDS Feed, FiniteSets

CONSTANTS
    Explored,     \* the parts that a run explores
    Counts,       \* values of engagement_count
    Trusts,       \* values of trust_score, in hundredths
    Days,         \* ages of posts
    Vouchers,     \* numbers of reposts with a comment by trusted neighbours
    Users,        \* who look at a post
    LikeIds,      \* primary keys of likes (a bound)
    MaxComments,  \* bound on the comments
    Customers,    \* who review a provider
    Ratings,      \* the stars they give
    PastJobs,     \* completed bookings the provider starts with
    MaxJobs,      \* bound on the completed bookings
    Ids           \* primary keys of endorsements (a bound)

Parts == {"feed", "ranking", "engagement", "reputation"}

ASSUME PartsAssumption == Explored \subseteq Parts

ASSUME RankingAssumption ==
    /\ Counts \subseteq Nat
    /\ Trusts \subseteq 0 .. 100
    /\ Days \subseteq Nat
    /\ Vouchers \subseteq Nat

ASSUME BoundsAssumption ==
    /\ IsFiniteSet(Requests) /\ IsFiniteSet(Users) /\ IsFiniteSet(LikeIds)
    /\ IsFiniteSet(Customers) /\ IsFiniteSet(Ids)
    /\ MaxComments \in Nat

\* ProfileReview.ratings is validated to be one to five stars.
ASSUME ReputationAssumption ==
    /\ Ratings \subseteq 1 .. 5
    /\ PastJobs \in Nat /\ MaxJobs \in Nat /\ PastJobs <= MaxJobs

VARIABLES
    part, overlapped,
    engagement_count, signal, candidate, max_engagement, score,
    item, like, comment, repost, copies, engaging,
    trust_score, jobs, review, endorsement, scoring

Signals ==
    [trust : Trusts, near : BOOLEAN, days : Days, vouchers : Vouchers, active_user : BOOLEAN]

K == INSTANCE Ranking

E == INSTANCE Engagement WITH post <- item, request <- engaging

P == INSTANCE Reputation WITH request <- scoring

Frozen(p) ==
    CASE p = "feed"       -> UNCHANGED vars
      [] p = "ranking"    -> UNCHANGED <<engagement_count, signal, candidate, max_engagement, score>>
      [] p = "engagement" -> UNCHANGED <<item, like, comment, repost, copies, engaging>>
      [] p = "reputation" -> UNCHANGED <<trust_score, jobs, review, endorsement, scoring>>

\* Two requests of which none has returned.
AtOnce(f) == \E r, s \in Requests : r # s /\ f[r].at # "idle" /\ f[s].at # "idle"

\* A review is patched, or an endorsement deleted, while a score is computed.
Meanwhile == UNCHANGED scoring /\ \E r \in Requests : scoring[r].at # "idle"

Overlap == AtOnce(engaging) \/ AtOnce(scoring)

Only(p) == part = p /\ UNCHANGED part /\ \A q \in Parts \ {p} : Frozen(q)

\* Ranking starts in several states; the other parts fix one of them.
SocietyInit ==
    /\ part \in Explored
    /\ overlapped = FALSE
    /\ Init /\ K!Init /\ E!Init /\ P!Init
    /\ part # "ranking" =>
          engagement_count = [p \in Posts |-> CHOOSE n \in Counts : TRUE]
          /\ signal = [p \in Posts |-> CHOOSE s \in Signals : TRUE]

SocietyNext ==
    /\ \/ Only("feed") /\ Next
       \/ Only("ranking") /\ K!Next
       \/ Only("engagement") /\ E!Next
       \/ Only("reputation") /\ P!Next
    /\ overlapped' = (overlapped \/ Overlap' \/ Meanwhile)

societyVars == <<part, overlapped, vars, K!vars, E!vars, P!vars>>

SocietySpec == SocietyInit /\ [][SocietyNext]_societyVars

-----------------------------------------------------------------------------
(* What the module promises beside the property of Feed itself.            *)

\* Every module's variables keep their shapes.  Of their numbers, a score of
\* the feed stays within 1.0 even with the boost for active users, for which
\* the code's docs leave room up to about 1.5 (Ranking's TypeOK).
ShapesKept == TypeOK /\ K!TypeOK /\ E!TypeOK /\ P!TypeOK

\* The two numbers that rank people and posts count nothing that did not
\* happen (Engagement's EngagementBacked and Reputation's TrustIsEarned).
NumbersAreEarned == E!EngagementBacked /\ P!TrustIsEarned

\* Until two requests overlap the score never moves but to what the jobs,
\* reviews and endorsements of that moment give (trust_score_service.py:29);
\* overlapping events count without each other and leave a lower one.
TrustTellsTheTruth ==
    [][~ overlapped' /\ trust_score' # trust_score
        => trust_score' = P!ComputeTrustScore(jobs, review)']_societyVars

\* The properties of the other modules, under their names and as explained
\* there, the check-then-insert one for requests that come one after the
\* other.
OneLike == ~ overlapped => E!OneLike
OneCopyPerRepost == E!OneCopyPerRepost
DeletedStaysDeleted == E!DeletedStaysDeleted
TrustOutweighsPopularity == K!TrustOutweighsPopularity
=============================================================================
