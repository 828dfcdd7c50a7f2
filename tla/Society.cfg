CONSTANTS
    r1 = r1
    r2 = r2
    u1 = u1
    u2 = u2
    l1 = l1
    l2 = l2
    Explored = {"feed", "ranking", "engagement", "reputation"}
    Posts = {u1, u2}
    ExcludeSeen = TRUE
    TTL = 2
    RequestTime = 1
    Requests = {r1, r2}
    Counts = {0, 1, 3}
    Trusts = {0, 100}
    Days = {0}
    Vouchers = {0, 3}
    Users = {u1}
    LikeIds = {l1, l2}
    MaxComments = 1
    Customers = {u1, u2}
    Ratings = {1, 5}
    PastJobs = 9
    MaxJobs = 10
    Ids = {l1, l2}
SPECIFICATION SocietySpec
SYMMETRY Symmetry
\* the bounded parts (ids, jobs, one feed request) come to an end
CHECK_DEADLOCK FALSE
INVARIANTS
    OneLike
    DeletedLeavesTheFeed
    NumbersAreEarned
    OneCopyPerRepost
    TrustOutweighsPopularity
PROPERTIES
    DeletedStaysDeleted
    TrustTellsTheTruth
