SPECIFICATION MCSpec
CONSTANTS
    Withdrawals = {w1, w2}
    Calls = {c1, c2}
    Requests = {r1, r2}
    Faults = {"accepted", "timeout", "audit", "statement", "crash"}
    OpeningBalance = 1
    Lifetime = 4
    Margin = 1
    MinTtl = 1
    MaxClock = 6
    MaxTokens = 3
CHECK_DEADLOCK FALSE
\* Properties the code violates, one at a time: TLC stops at the first.
INVARIANT NothingMinted
\* INVARIANT RejectedIsNotPaid
\* INVARIANT PaidIsNotFailed
\* INVARIANT RefreshHelps
