CONSTANTS
    r1 = r1
    r2 = r2
    u1 = u1
    u2 = u2
    Explored = {"answers", "rooms", "messages", "ticket", "sockets", "praise"}
    Requests = {r1, r2}
    Prices = {1, 2}
    MaxHistory = 2
    Users = {u1, u2, u3}
    People = {u1, u2}
    MaxMessages = 2
    PageSize = 2
    Pages = {1, 2}
    Admins = {u1, u2}
    NoAdmin = none
    Customer = u3
    MaxReplies = 1
    Sockets = {r1, r2}
    Alerts = {p1, p2}
    Endorsers = {u1, u2}
    Providers = {p1, p2}
    EndorsementIds = {u1, u2, u3}
SPECIFICATION ChatsSpec
SYMMETRY Symmetry
\* a negotiation ends at MaxHistory, and so do the other bounded parts
CHECK_DEADLOCK FALSE
INVARIANTS
    ClosedOnTerms
    HistoryBacksStatus
    EditsAreFlagged
    ReadWasServed
    StaffRepliesAssigned
    SeenIsSaved
    OneRoom
    OneEndorsement
PROPERTIES
    NothingUndone
    AssignmentKept
    AcceptedIsFinal
