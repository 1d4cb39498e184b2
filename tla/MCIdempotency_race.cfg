\* Two calls with the same key at the same time.
CONSTANTS
    Calls = {c1, c2}
    Keys = {k}
    TTL = 1
    MaxEntries = 1
    MaxTime = 0
SYMMETRY Interchangeable
SPECIFICATION Spec
INVARIANTS
    OneInboxPerKey
CHECK_DEADLOCK FALSE
