----------------------------- MODULE Reputation -----------------------------
(***************************************************************************)
(* The trust score of one provider (apps/posts/services/trust_score_       *)
(* service.py and the signals that store it) and the reviews it reads      *)
(* (apps/ratings).  A completed booking, a new review and a new            *)
(* endorsement recompute it; a booking and a review do so inside the       *)
(* transaction that writes them, an endorsement after it was committed.    *)
(* Requests that save the whole profile row write back the score they      *)
(* read.  The score is in hundredths, rounded down.                        *)
(*                                                                         *)
(* Left out: texts; reviews without stars (the column is nullable), which  *)
(* the average ignores, so that they only recompute the score; and a query *)
(* that fails, whose part counts as 0.                                     *)
(*                                                                         *)
(* An operator marked "faulty" stands for a plausible bug: only the mutant *)
(* runs use it, in the place of the definition that follows it.            *)
(***************************************************************************)
EXTENDS Naturals, FiniteSets

CONSTANTS
    Customers,  \* who may review the provider
    Ratings,    \* the stars they give, of 1 .. 5
    PastJobs,   \* completed bookings the provider starts with
    MaxJobs,    \* bound on the completed bookings
    Ids,        \* primary keys of endorsements (a bound)
    Requests    \* slots for requests in flight (bounds the overlap)

VARIABLES
    trust_score,  \* of the BaseProfile row
    jobs,         \* the provider's completed bookings
    review,       \* review[c]      : c's stars, 0 without a ProfileReview row
    endorsement,  \* endorsement[i] : the status of the row
    request       \* request[r]     : where request r is

vars == <<trust_score, jobs, review, endorsement, request>>

-----------------------------------------------------------------------------

Idle == [at |-> "idle"]

\* What a request inserts and has not committed.
Own ==
    [kind : {"job", "endorsement"}] \cup
    [kind : {"review"}, customer : Customers, stars : Ratings]

Running ==
    [at : {"score"}, own : Own] \cup
    [at : {"save"}, own : Own, score : 0 .. 100] \cup
    [at : {"profile"}, copy : 0 .. 100]

AtMost(cap, n) == IF n > cap THEN cap ELSE n

Rated(stars) == {c \in Customers : stars[c] # 0}

\* The stars above the first, each as a pair of its customer and its place.
StarsAboveOne(stars) == {d \in Rated(stars) \X (2 .. 5) : d[2] <= stars[d[1]]}

AverageRating(stars) ==
    IF Rated(stars) = {}
    THEN 0
    ELSE (30 * Cardinality(StarsAboveOne(stars))) \div (4 * Cardinality(Rated(stars)))

Endorsements == {i \in Ids : endorsement[i] = "active"}

\* Faulty: the parts are added without their caps.
ScoreUncapped(completed, stars) ==
    5 * completed + AverageRating(stars) + 2 * Cardinality(Endorsements)

ComputeTrustScore(completed, stars) ==
    AtMost(100,
        AtMost(50, 5 * completed) + AverageRating(stars)
        + AtMost(20, 2 * Cardinality(Endorsements)))

Init ==
    /\ jobs = PastJobs
    /\ review = [c \in Customers |-> 0]
    /\ endorsement = [i \in Ids |-> "none"]
    /\ trust_score = AtMost(50, 5 * PastJobs)
    /\ request = [r \in Requests |-> Idle]

Goto(r, step) == request' = [request EXCEPT ![r] = step]

-----------------------------------------------------------------------------
(* The three events                                                        *)

Completing == {r \in Requests :
    request[r].at \in {"score", "save"} /\ request[r].own.kind = "job"}

\* A booking is saved as COMPLETED, once: on the administration site today,
\* because the review that would call release_funds raises before.
Complete(r) ==
    /\ request[r] = Idle
    /\ jobs + Cardinality(Completing) < MaxJobs
    /\ Goto(r, [at |-> "score", own |-> [kind |-> "job"]])
    /\ UNCHANGED <<trust_score, jobs, review, endorsement>>

\* create_review, after _dublicate_reviews.
Review(r, c, stars) ==
    /\ request[r] = Idle
    /\ review[c] = 0
    /\ Goto(r, [at |-> "score", own |-> [kind |-> "review", customer |-> c, stars |-> stars]])
    /\ UNCHANGED <<trust_score, jobs, review, endorsement>>

\* The insert is committed before the signal runs.
Endorse(r) ==
    /\ request[r] = Idle
    /\ \E i \in Ids :
          /\ endorsement[i] = "none"
          /\ endorsement' = [endorsement EXCEPT ![i] = "active"]
    /\ Goto(r, [at |-> "score", own |-> [kind |-> "endorsement"]])
    /\ UNCHANGED <<trust_score, jobs, review>>

\* Faulty: the row of the own transaction is not counted yet.
WithoutOwn(own) == ComputeTrustScore(jobs, review)

\* Computed from what is committed and the row of the own transaction.
WithOwn(own) ==
    ComputeTrustScore(
        IF own.kind = "job" THEN jobs + 1 ELSE jobs,
        IF own.kind = "review" THEN [review EXCEPT ![own.customer] = own.stars] ELSE review)

\* unique_user_profile: the second of two reviews by one user is refused.
Score(r) ==
    LET own == request[r].own IN
    /\ request[r].at = "score"
    /\ IF own.kind = "review" /\ review[own.customer] # 0
       THEN Goto(r, Idle)
       ELSE Goto(r, [at |-> "save", own |-> own, score |-> WithOwn(own)])
    /\ UNCHANGED <<trust_score, jobs, review, endorsement>>

\* The profile is saved with update_fields, and the transaction committed.
SaveTrustScore(r) ==
    LET me == request[r] IN
    /\ me.at = "save"
    /\ IF me.own.kind = "review" /\ review[me.own.customer] # 0
       THEN UNCHANGED <<trust_score, review>>
       ELSE /\ trust_score' = me.score
            /\ review' = IF me.own.kind = "review"
                         THEN [review EXCEPT ![me.own.customer] = me.own.stars]
                         ELSE review
    /\ jobs' = IF me.own.kind = "job" THEN jobs + 1 ELSE jobs
    /\ Goto(r, Idle)
    /\ UNCHANGED endorsement

-----------------------------------------------------------------------------
(* What changes the parts, or the row, without computing the score         *)

PatchReview(r, c, stars) ==
    /\ request[r] = Idle
    /\ review[c] # 0
    /\ review' = [review EXCEPT ![c] = stars]
    /\ UNCHANGED <<trust_score, jobs, endorsement, request>>

DestroyEndorsement(r, i) ==
    /\ request[r] = Idle
    /\ endorsement[i] = "active"
    /\ endorsement' = [endorsement EXCEPT ![i] = "deleted"]
    /\ UNCHANGED <<trust_score, jobs, review, request>>

\* Cover photo and onboarding: the whole profile is read, then saved.
ProfileRead(r) ==
    /\ request[r] = Idle
    /\ Goto(r, [at |-> "profile", copy |-> trust_score])
    /\ UNCHANGED <<trust_score, jobs, review, endorsement>>

ProfileSave(r) ==
    /\ request[r].at = "profile"
    /\ trust_score' = request[r].copy
    /\ Goto(r, Idle)
    /\ UNCHANGED <<jobs, review, endorsement>>

\* The thread dies or a statement raises: a transaction is rolled back.
RequestFails(r) ==
    /\ request[r] # Idle
    /\ Goto(r, Idle)
    /\ UNCHANGED <<trust_score, jobs, review, endorsement>>

Next ==
    \/ \E r \in Requests :
          \/ Complete(r) \/ Endorse(r) \/ Score(r) \/ SaveTrustScore(r)
          \/ ProfileRead(r) \/ ProfileSave(r) \/ RequestFails(r)
    \/ \E r \in Requests, c \in Customers, stars \in Ratings :
          Review(r, c, stars) \/ PatchReview(r, c, stars)
    \/ \E r \in Requests, i \in Ids : DestroyEndorsement(r, i)

Spec == Init /\ [][Next]_vars

-----------------------------------------------------------------------------

\* Every variable keeps the shape the database and the threads give it; the
\* score stays in the range of its documentation, 0.0 to 1.0.
TypeOK ==
    /\ trust_score \in 0 .. 100
    /\ jobs \in PastJobs .. MaxJobs
    /\ review \in [Customers -> {0} \cup Ratings]
    /\ endorsement \in [Ids -> {"none", "active", "deleted"}]
    /\ request \in [Requests -> {Idle} \cup Running]

\* Whatever computations overlap, fail or are overwritten by a stale profile,
\* a score above the threshold that lets a provider's reposts rank other
\* posts (0.6) takes a job, a review or an endorsement for every point of it.
TrustIsEarned ==
    trust_score <=
        AtMost(50, 5 * jobs)
        + (IF Rated(review) = {} THEN 0 ELSE 30)
        + AtMost(20, 2 * Cardinality({i \in Ids : endorsement[i] # "none"}))
=============================================================================
