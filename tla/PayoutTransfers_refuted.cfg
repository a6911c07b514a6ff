SPECIFICATION FairSpec
CONSTANTS
    p1 = p1
    p2 = p2
    r1 = r1
    r2 = r2
    Payouts = {p1, p2}
    Recipients = {r1, r2}
    PayoutOf <- TwoPayouts
    Requests = {a1, a2}
    Workers = {w1, w2}
    Jobs = {j1, j2}
    OpeningBalance = 2
    JobAttempts = 2
    MaxStalledCount = 1
    MaxRetries = 1
    Faults = {"accepted"}
    NoPayout = NoPayout
    NoRecipient = NoRecipient
    NoJob = NoJob
    Nobody = Nobody
CHECK_DEADLOCK FALSE
\* Properties the code violates, one at a time: TLC stops at the first.
\* PaidIsDebited fails in two ways: with Faults = {} a retried job has no group
\* and debits nothing, with "accepted" the money is credited back after the
\* transfer was.
INVARIANT PaidIsDebited
\* INVARIANT DebitedOnce
\* INVARIANT NoSimilarPending
\* PROPERTY ClosedIsFinal
\* PROPERTY PaidRowIsFinal
\* PROPERTY EveryPayoutEnds
