SPECIFICATION MCSpec
CONSTANTS
    Withdrawals = {w1, w2}
    Calls = {c1, c2}
    Requests = {r1, r2}
    Faults = {"accepted", "timeout", "audit", "statement", "crash"}
    OpeningBalance = 1
    Lifetime = 2
    Margin = 2
    MinTtl = 2
    MaxClock = 6
    MaxTokens = 3
SYMMETRY SlotSymmetry
CHECK_DEADLOCK FALSE
INVARIANTS
    RefusedOnlyWhenDelayed
