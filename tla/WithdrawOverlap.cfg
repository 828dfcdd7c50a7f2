CONSTANTS
    w1 = w1
    w2 = w2
    k1 = k1
    k2 = k2
    r1 = r1
    r2 = r2
    Withdrawals = {w1, w2}
    Keys = {k1, k2}
    Amounts = {2}
    OpeningBalance = 3
    Requests = {r1, r2}
    MaxRetries = 0
    Faults = FALSE
SPECIFICATION Spec
SYMMETRY Symmetry
\* the rows come to an end
CHECK_DEADLOCK FALSE
INVARIANTS
    NoOverdraft
    OnePerKey
