SPECIFICATION Spec
CONSTANTS
    c1 = c1
    c2 = c2
    g1 = g1
    p1 = p1
    p2 = p2
    i1 = i1
    i2 = i2
    w1 = w1
    w2 = w2
    e1 = e1
    e2 = e2
    NoContribution = NoContribution
    NoPayment = NoPayment
    NoReference = NoReference
    NoEvent = NoEvent
    Nobody = Nobody
    Contributions <- MCContributions
    Groups <- MCGroups
    GroupOf <- MCGroupOf
    Payments <- MCPayments
    Initiators <- MCInitiators
    Workers <- MCWorkers
    Events <- MCEvents
    Methods = {"bank_transfer"}
    EventsFor = {"paid"}
    ForeignReferences = FALSE
    Namings = {"order"}
    JobAttempts = 2
    MaxStalledCount = 1
    LockRelationResolves = TRUE
SYMMETRY Symmetry
INVARIANTS
    ProcessedMeansCredited
CHECK_DEADLOCK FALSE
