CONSTANTS
    r1 = r1
    r2 = r2
    u1 = u1
    u2 = u2
    c1 = c1
    c2 = c2
    Explored = {"account", "limit", "roles", "catalog", "bank"}
    Codes = {c1, c2}
    Tokens = {u1, u2}
    MaxResets = 2
    Requests = {r1, r2}
    MaxRequest = 3
    Initial = 1
    Skills = {u1, u2}
    Services = {c1}
    MaxPrimary = 1
    Users = {u1, u2}
SPECIFICATION AccountsSpec
SYMMETRY Symmetry
\* the bounded parts (codes, tokens, resets) come to an end
CHECK_DEADLOCK FALSE
INVARIANTS
    ShapesKept
    LimitHolds
    OneRecipient
    CodeUsedOnce
    OneRole
    ResetEndsRecorded
PROPERTIES
    DeletedStaysDeleted
    ResetIsKept
