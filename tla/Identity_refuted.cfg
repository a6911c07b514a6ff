SPECIFICATION MCSpec
CONSTANTS
    Calls = {c1, c2}
    Requests = {r1, r2}
    Devices = {d1}
    NoDevice = NoDevice
    MaxSessions = 2
    MaxPasswords = 2
    MaxAttempts = 2
    MaxCodes = 3
CHECK_DEADLOCK FALSE
\* Properties the code violates, one at a time: TLC stops at the first.
INVARIANT GuessLimit
\* PROPERTY CooldownKept
\* PROPERTY CleanupKeepsVerified
\* PROPERTY RegistrationKeepsActive
