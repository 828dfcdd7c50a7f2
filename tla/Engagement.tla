----------------------------- MODULE Engagement -----------------------------
(***************************************************************************)
(* One post and what people do to it (apps/posts): likes of the post or of *)
(* its first comment, comments and replies, reposts, recorded              *)
(* interactions, edits and deletion.  The post_save signals count the      *)
(* active likes, comments and reposts and store the sum in the post's      *)
(* engagement_count, inside the transaction that inserts the row: at READ  *)
(* COMMITTED they see their own row and what is committed.                 *)
(*                                                                         *)
(* Left out: texts, tags and attachments, the rows of the interactions,    *)
(* and the profile's last_active that the same signals stamp (Feed).       *)
(*                                                                         *)
(* An operator marked "faulty" stands for a plausible bug: only the mutant *)
(* runs use it, in the place of the definition that follows it.            *)
(***************************************************************************)
EXTENDS Naturals, FiniteSets

CONSTANTS
    Users,        \* who look at the post
    LikeIds,      \* primary keys of likes (a bound)
    MaxComments,  \* bound on the comments
    Requests      \* slots for requests in flight (bounds the overlap)

VARIABLES
    post,      \* the Post row
    like,      \* like[i]    : the Likes row, or NoLike
    comment,   \* comment[n] : the Comment row, by number
    repost,    \* repost[u]  : u's Repost row
    copies,    \* copies[u]  : posts of their own that u's reposts created
    request    \* request[r] : where request r is, and what it has read

vars == <<post, like, comment, repost, copies, request>>

-----------------------------------------------------------------------------

MaxCount == Cardinality(LikeIds) + MaxComments + Cardinality(Users)

Post == [is_active : BOOLEAN, is_reposted : BOOLEAN, engagement_count : 0 .. MaxCount]

Targets == {"post", "comment"}

Like == [user : Users, target : Targets, is_active : BOOLEAN]

NoLike == [is_active |-> FALSE]

Rows == {"none", "active", "inactive"}

Idle == [at |-> "idle"]

\* A request that has checked, and one that has inserted and counted too.
Checked ==
    [at : {"like"}, user : Users, target : Targets] \cup
    [at : {"relike"}, id : LikeIds] \cup
    [at : {"repost"}, user : Users, copy : Post] \cup
    [at : {"update"}, copy : Post]

Counted ==
    [at : {"liked"}, user : Users, target : Targets, count : 0 .. MaxCount] \cup
    [at : {"commented"}, count : 0 .. MaxCount] \cup
    [at : {"reposted"}, user : Users, copy : Post, count : 0 .. MaxCount] \cup
    [at : {"interacted"}, count : 0 .. MaxCount]

Init ==
    /\ post = [is_active |-> TRUE, is_reposted |-> FALSE, engagement_count |-> 0]
    /\ like = [i \in LikeIds |-> NoLike]
    /\ comment = [n \in 1 .. MaxComments |-> "none"]
    /\ repost = [u \in Users |-> "none"]
    /\ copies = [u \in Users |-> 0]
    /\ request = [r \in Requests |-> Idle]

Goto(r, step) == request' = [request EXCEPT ![r] = step]

Of(u, t) == {i \in LikeIds : like[i] # NoLike /\ like[i].user = u /\ like[i].target = t}

Active(likes) == {i \in likes : like[i].is_active}

Made(rows, status) == {k \in DOMAIN rows : rows[k] \in status}

\* post.likes, post.comments and post.repost_records that are active.
Engagement ==
    Cardinality(UNION {Active(Of(u, "post")) : u \in Users})
    + Cardinality(Made(comment, {"active"})) + Cardinality(Made(repost, {"active"}))

\* What a transaction counts that has inserted one more of them itself.
CountWithOwn == Engagement + 1

\* Faulty: the signal adds one to the stored number.
Incremented(count) == post.engagement_count + 1

Recount(count) == count

\* Faulty: the signal saves the whole post, as it was when it was visible.
StoredWhole(count) == [post EXCEPT !.engagement_count = Recount(count), !.is_active = TRUE]

\* save(update_fields=["engagement_count"]).
Stored(count) == [post EXCEPT !.engagement_count = Recount(count)]

-----------------------------------------------------------------------------
(* POST and DELETE of a like (LikeService)                                 *)

Visible(t) == IF t = "post" THEN post.is_active ELSE comment[1] = "active"

AlreadyLiked(u, t) == Active(Of(u, t)) # {}

\* Faulty: only a like that was withdrawn is looked for.
WithdrawnCheck(r, u, t) ==
    LET withdrawn == Of(u, t) \ Active(Of(u, t)) IN
    /\ request[r] = Idle
    /\ Visible(t)
    /\ \/ withdrawn = {} /\ Goto(r, [at |-> "like", user |-> u, target |-> t])
       \/ \E i \in withdrawn : Goto(r, [at |-> "relike", id |-> i])
    /\ UNCHANGED <<post, like, comment, repost, copies>>

\* With two inactive rows Likes.objects.get raises, and nothing happens.
LikeCheck(r, u, t) ==
    /\ request[r] = Idle
    /\ Visible(t)
    /\ ~ AlreadyLiked(u, t)
    /\ \/ Of(u, t) = {} /\ Goto(r, [at |-> "like", user |-> u, target |-> t])
       \/ \E i \in LikeIds : Of(u, t) = {i} /\ Goto(r, [at |-> "relike", id |-> i])
    /\ UNCHANGED <<post, like, comment, repost, copies>>

LikeInsert(r) ==
    LET me == request[r] IN
    /\ me.at = "like"
    /\ \E i \in LikeIds : like[i] = NoLike
    /\ Goto(r, [at |-> "liked", user |-> me.user, target |-> me.target,
                count |-> IF me.target = "post" THEN CountWithOwn ELSE 0])
    /\ UNCHANGED <<post, like, comment, repost, copies>>

LikeCommit(r) ==
    LET me == request[r] IN
    /\ me.at = "liked"
    /\ \E i \in LikeIds :
          /\ like[i] = NoLike
          /\ like' = [like EXCEPT ![i] =
                [user |-> me.user, target |-> me.target, is_active |-> TRUE]]
    /\ post' = IF me.target = "post"
               THEN Stored(me.count)
               ELSE post
    /\ Goto(r, Idle)
    /\ UNCHANGED <<comment, repost, copies>>

\* The row is used again; the signals count only rows that are new.
Relike(r) ==
    /\ request[r].at = "relike"
    /\ like' = [like EXCEPT ![request[r].id].is_active = TRUE]
    /\ Goto(r, Idle)
    /\ UNCHANGED <<post, comment, repost, copies>>

\* With two active rows Likes.is_active_objects.get raises.
Unlike(u, t) ==
    /\ Visible(t)
    /\ \E i \in LikeIds :
          /\ Active(Of(u, t)) = {i}
          /\ like' = [like EXCEPT ![i].is_active = FALSE]
    /\ UNCHANGED <<post, comment, repost, copies, request>>

-----------------------------------------------------------------------------
(* Comments and replies                                                    *)

CommentInsert(r) ==
    /\ request[r] = Idle
    /\ post.is_active
    /\ Made(comment, {"none"}) # {}
    /\ Goto(r, [at |-> "commented", count |-> CountWithOwn])
    /\ UNCHANGED <<post, like, comment, repost, copies>>

CommentCommit(r) ==
    LET unused == Made(comment, {"none"}) IN
    /\ request[r].at = "commented"
    /\ \E n \in unused :
          /\ \A k \in unused : n <= k
          /\ comment' = [comment EXCEPT ![n] = "active"]
    /\ post' = Stored(request[r].count)
    /\ Goto(r, Idle)
    /\ UNCHANGED <<like, repost, copies>>

DeleteComment(n) ==
    /\ comment[n] = "active"
    /\ post.is_active
    /\ comment' = [comment EXCEPT ![n] = "inactive"]
    /\ UNCHANGED <<post, like, repost, copies, request>>

-----------------------------------------------------------------------------
(* POST and DELETE of a repost                                             *)

RepostCheck(r, u) ==
    /\ request[r] = Idle
    /\ post.is_active
    /\ repost[u] # "active"
    /\ Goto(r, [at |-> "repost", user |-> u, copy |-> post])
    /\ UNCHANGED <<post, like, comment, repost, copies>>

\* unique_user_post_repost counts inactive rows too: nothing is kept.
RepostInsert(r) ==
    LET me == request[r] IN
    /\ me.at = "repost"
    /\ IF repost[me.user] # "none"
       THEN Goto(r, Idle)
       ELSE Goto(r, [at |-> "reposted", user |-> me.user, copy |-> me.copy,
                     count |-> CountWithOwn])
    /\ UNCHANGED <<post, like, comment, repost, copies>>

\* Faulty: the copy is created before the atomic block.
CopiedFirst(u) == copies[u] + 1

\* The copy goes with the row.
Copied(u) == IF repost[u] = "none" THEN copies[u] + 1 ELSE copies[u]

\* post.save() writes the whole row that the request has read.
RepostCommit(r) ==
    LET me == request[r] IN
    /\ me.at = "reposted"
    /\ copies' = [copies EXCEPT ![me.user] = Copied(me.user)]
    /\ IF repost[me.user] # "none"
       THEN UNCHANGED <<post, repost>>
       ELSE /\ repost' = [repost EXCEPT ![me.user] = "active"]
            /\ post' = [me.copy EXCEPT !.is_reposted = TRUE,
                                       !.engagement_count = Recount(me.count)]
    /\ Goto(r, Idle)
    /\ UNCHANGED <<like, comment>>

Unrepost(u) ==
    /\ post.is_active
    /\ repost[u] = "active"
    /\ repost' = [repost EXCEPT ![u] = "inactive"]
    /\ UNCHANGED <<post, like, comment, copies, request>>

-----------------------------------------------------------------------------
(* POST interact: the row of its type (see Feed), and the sum once more    *)

InteractCount(r) ==
    /\ request[r] = Idle
    /\ Goto(r, [at |-> "interacted", count |-> Engagement])
    /\ UNCHANGED <<post, like, comment, repost, copies>>

InteractCommit(r) ==
    /\ request[r].at = "interacted"
    /\ post' = Stored(request[r].count)
    /\ Goto(r, Idle)
    /\ UNCHANGED <<like, comment, repost, copies>>

-----------------------------------------------------------------------------
(* PATCH and DELETE of the post by its owner                               *)

UpdateRead(r) ==
    /\ request[r] = Idle
    /\ post.is_active
    /\ Goto(r, [at |-> "update", copy |-> post])
    /\ UNCHANGED <<post, like, comment, repost, copies>>

\* Saved twice, whole.
UpdateSave(r) ==
    /\ request[r].at = "update"
    /\ post' = request[r].copy
    /\ Goto(r, Idle)
    /\ UNCHANGED <<like, comment, repost, copies>>

SoftDelete ==
    /\ post.is_active
    /\ post' = [post EXCEPT !.is_active = FALSE]
    /\ UNCHANGED <<like, comment, repost, copies, request>>

\* The thread dies or a statement raises: the transaction is rolled back.
RequestFails(r) ==
    /\ request[r] # Idle
    /\ Goto(r, Idle)
    /\ UNCHANGED <<post, like, comment, repost, copies>>

LikeStep(r) ==
    \/ \E u \in Users, t \in Targets : LikeCheck(r, u, t)
    \/ LikeInsert(r)
    \/ LikeCommit(r)
    \/ Relike(r)

ShareStep(r) ==
    \/ CommentInsert(r)
    \/ CommentCommit(r)
    \/ \E u \in Users : RepostCheck(r, u)
    \/ InteractCount(r)
    \/ RepostInsert(r)
    \/ RepostCommit(r)
    \/ InteractCommit(r)

OwnerStep(r) == UpdateRead(r) \/ UpdateSave(r)

Next ==
    \/ \E r \in Requests : LikeStep(r) \/ ShareStep(r) \/ OwnerStep(r) \/ RequestFails(r)
    \/ \E u \in Users, t \in Targets : Unlike(u, t)
    \/ \E n \in 1 .. MaxComments : DeleteComment(n)
    \/ \E u \in Users : Unrepost(u)
    \/ SoftDelete

Spec == Init /\ [][Next]_vars

-----------------------------------------------------------------------------

\* Every variable keeps the shape the database and the threads give it.
TypeOK ==
    /\ post \in Post
    /\ like \in [LikeIds -> {NoLike} \cup Like]
    /\ comment \in [1 .. MaxComments -> Rows]
    /\ repost \in [Users -> Rows]
    /\ copies \in [Users -> 0 .. 1]
    /\ request \in [Requests -> {Idle} \cup Checked \cup Counted]

\* The popularity that ranks the feed never exceeds the likes, comments and
\* reposts ever made (signals.py:36), however recounts overlap, rows are
\* withdrawn and used again, and stale copies of the post are saved.
EngagementBacked ==
    post.engagement_count
        <= Cardinality({i \in LikeIds : like[i] # NoLike /\ like[i].target = "post"})
           + Cardinality(Made(comment, {"active", "inactive"}))
           + Cardinality(Made(repost, {"active", "inactive"}))

\* A repost and the post it creates stand or fall together (create.py:243):
\* whichever requests of a user overlap, are refused by the constraint or
\* die, the user has one such post exactly when there is a repost row.
OneCopyPerRepost ==
    \A u \in Users : copies[u] = IF repost[u] = "none" THEN 0 ELSE 1

\* "You already liked this post": with one request at a time between its
\* check and its insert, nobody has two active likes of one thing, which
\* unlike could not take back any more (services_T.py:105 raises).
OneLike == \A u \in Users, t \in Targets : Cardinality(Active(Of(u, t))) <= 1

\* A deleted post stays deleted, unless a repost or an edit that read it
\* before saves its whole copy (create.py:251, :169).
DeletedStaysDeleted ==
    [][ /\ ~ post.is_active
        /\ \A r \in Requests :
              request[r].at \in {"repost", "reposted", "update"}
              => ~ request[r].copy.is_active
        => ~ post'.is_active]_vars
=============================================================================
