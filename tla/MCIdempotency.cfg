\* Three calls over two keys, a map of one entry, answers that expire.
CONSTANTS
    Calls = {c1, c2, c3}
    Keys = {k, l}
    TTL = 1
    MaxEntries = 1
    MaxTime = 3
SYMMETRY Interchangeable
SPECIFICATION Spec
INVARIANTS
    TypeOK
    CapHolds
    RetryCreatesNothing
    ReplayIsGenuine
CHECK_DEADLOCK FALSE
