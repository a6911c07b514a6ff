SPECIFICATION FairSpec
CONSTANTS
    p1 = p1
    p2 = p2
    r1 = r1
    r2 = r2
    Payouts = {p1}
    Recipients = {r1}
    PayoutOf <- OnePayoutOneRecipient
    Requests = {a1}
    Workers = {w1, w2}
    Jobs = {j1, j2}
    OpeningBalance = 1
    JobAttempts = 2
    MaxStalledCount = 1
    MaxRetries = 1
    Faults = {"crash", "stall"}
    NoPayout = NoPayout
    NoRecipient = NoRecipient
    NoJob = NoJob
    Nobody = Nobody
PROPERTIES
    EveryTransferEnds
CHECK_DEADLOCK FALSE
