SPECIFICATION MCSpec
CONSTANTS
    Calls = {c1, c2}
    Requests = {r1, r2}
    Devices = {d1}
    NoDevice = NoDevice
    MaxSessions = 2
    MaxPasswords = 2
    MaxAttempts = 2
    MaxCodes = 3
SYMMETRY CallSymmetry
CHECK_DEADLOCK FALSE
INVARIANTS
    ReplacedOnce
    StaleSessionsBounded
    KnownDeviceWasChallenged
    OneTimeUse
    GuessesBounded
