SPECIFICATION MCSpec
CONSTANTS
    Calls = {c1, c2}
    Events = {failed, succeeded, anonymous}
    Ids = {{failed, succeeded}}
    Alike = {{succeeded, anonymous}}
    Window = 1
    MaxClock = 2
    MaxRows = 2
    Redis = TRUE
    Posts = {p1, p2, p3}
    MaxRuns = 5
    Tabs = {t1, t2}
    Slots = {s1, s2}
    MaxTokens = 3
    MaxRequests = 2
    Workers = {k1, k2}
    Deliveries = {d1, d2}
    MaxRetries = 3
CHECK_DEADLOCK FALSE
\* Properties the code violates, one at a time: TLC stops at the first.
INVARIANT SentWasAccepted
\* INVARIANT ReceivedIsStored
\* INVARIANT ReceivedIsQueued
\* INVARIANT MessageStoredOnce
\* INVARIANT RunsOnce
\* INVARIANT SameReply
\* PROPERTY ReadStaysRead
\* PROPERTY StaysOnPage
\* PROPERTY LoadsOnce
\* PROPERTY LogoutIsFinal
