SPECIFICATION Spec
CONSTANTS
    p1 = p1
    p2 = p2
    r1 = r1
    r2 = r2
    Payouts = {p1}
    Recipients = {r1}
    PayoutOf <- OnePayoutOneRecipient
    Requests = {a1, a2}
    Workers = {w1, w2}
    Jobs = {j1, j2}
    OpeningBalance = 1
    JobAttempts = 1
    MaxStalledCount = 1
    MaxRetries = 1
    Faults = {"accepted", "timeout", "audit", "credit", "database", "crash", "stall"}
    NoPayout = NoPayout
    NoRecipient = NoRecipient
    NoJob = NoJob
    Nobody = Nobody
SYMMETRY Interchangeable
INVARIANTS
    ReversalNeedsDebit
    SingleJobBalances
PROPERTIES
    OnlyOvertakenDisturb
CHECK_DEADLOCK FALSE
