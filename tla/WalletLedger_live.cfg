SPECIFICATION FairSpec
CONSTANTS
    g1 = g1
    g2 = g2
    platform = platform
    r1 = r1
    r2 = r2
    r3 = r3
    NoRequest = NoRequest
    NoOp = NoOp
    NoEntry = NoEntry
    Wallets <- MCWallets
    Platform = platform
    Requests <- MCPairRequests
    Amounts = {40, 100}
    Kinds = {"credit", "debit", "transfer", "contribution"}
    OpeningBalance <- MCGroupsFunded
    Created <- MCGroupsCreated
    Inactive = {}
    MaxBalance = 250
PROPERTIES
    EveryRequestEnds
CHECK_DEADLOCK FALSE
