SPECIFICATION MCSpec
CONSTANTS
    Calls = {c1, c2}
    Events = {failed, succeeded, anonymous}
    Ids = {{failed, succeeded}}
    Alike = {{succeeded, anonymous}}
    Window = 1
    MaxClock = 2
    MaxRows = 2
    \* Nothing checked here depends on what is queued.
    Redis = FALSE
    Posts = {p1, p2, p3}
    MaxRuns = 5
    Tabs = {t1, t2}
    Slots = {s1, s2}
    MaxTokens = 3
    MaxRequests = 2
    Workers = {k1, k2}
    Deliveries = {d1, d2}
    MaxRetries = 3
SYMMETRY SlotSymmetry
CHECK_DEADLOCK FALSE
INVARIANTS
    ReceivedIsKnown
    StoredAgainOnlyAhead
    RunsBounded
    NobodyLeftWaiting
    AloneNeverRefused
    SessionKept
    HandedOncePerWorker
