SPECIFICATION Spec
CONSTANTS
    g1 = g1
    g2 = g2
    platform = platform
    r1 = r1
    r2 = r2
    r3 = r3
    NoRequest = NoRequest
    NoOp = NoOp
    NoEntry = NoEntry
    Wallets <- MCWallets
    Platform = platform
    Requests <- MCRequests
    Amounts = {100}
    Kinds = {"credit", "debit", "transfer", "contribution"}
    OpeningBalance <- MCFunded
    Created <- MCAllCreated
    Inactive = {}
    MaxBalance = 250
SYMMETRY Symmetry
CHECK_DEADLOCK FALSE
\* Properties the code violates, one at a time: TLC stops at the first.
INVARIANT EntryArithmetic
\* INVARIANT ThrownLeftNothing
