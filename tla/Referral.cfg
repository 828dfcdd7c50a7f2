CONSTANTS
    i1 = i1
    i2 = i2
    t1 = t1
    t2 = t2
    k1 = k1
    k2 = k2
    r1 = r1
    r2 = r2
    w1 = w1
    w2 = w2
    Referrals = {i1, i2}
    Transactions = {t1, t2}
    Keys = {k1, k2}
    Requests = {r1, r2}
    Runs = {w1, w2}
SPECIFICATION Spec
SYMMETRY Symmetry
\* the referrals and rows come to an end
CHECK_DEADLOCK FALSE
INVARIANTS
    RewardsArePaid
    WalletPaysEachOnce
