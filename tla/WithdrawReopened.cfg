CONSTANTS
    w1 = w1
    w2 = w2
    k1 = k1
    k2 = k2
    r1 = r1
    r2 = r2
    Withdrawals = {w1}
    Keys = {k1}
    Amounts = {1}
    OpeningBalance = 1
    Requests = {r1}
    MaxRetries = 0
    Faults = FALSE
CHECK_DEADLOCK FALSE
SPECIFICATION Spec
PROPERTIES
    CompletedIsFinal
