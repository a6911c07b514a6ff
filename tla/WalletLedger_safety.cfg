SPECIFICATION Spec
CONSTANTS
    g1 = g1
    g2 = g2
    platform = platform
    r1 = r1
    r2 = r2
    r3 = r3
    NoRequest = NoRequest
    NoOp = NoOp
    NoEntry = NoEntry
    Wallets <- MCWallets
    Platform = platform
    Requests <- MCRequests
    Amounts = {100, 250}
    Kinds = {"credit", "debit", "transfer", "contribution"}
    OpeningBalance <- MCOpening
    Created <- MCCreated
    Inactive = {}
    MaxBalance = 250
SYMMETRY Symmetry
INVARIANTS
    TypeOK
    NoOverdraft
    LedgerExplainsBalance
    AllOrNothing
    MoneyConserved
    LockDiscipline
    DeadlockNeedsTransfer
PROPERTIES
    ImplementsAtomicWallets
CHECK_DEADLOCK FALSE
