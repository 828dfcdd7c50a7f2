CONSTANTS
    w1 = w1
    w2 = w2
    k1 = k1
    k2 = k2
    r1 = r1
    r2 = r2
    Withdrawals = {w1}
    Keys = {k1}
    Amounts = {1}
    OpeningBalance = 2
    Requests = {r1, r2}
    MaxRetries = 3
    Faults = TRUE
\* the rows come to an end
CHECK_DEADLOCK FALSE
SPECIFICATION FairSpec
INVARIANTS
    CompletedMeansPaid
    FailedMeansCredited
    CreditsJustified
PROPERTIES
    SentOrReturned
