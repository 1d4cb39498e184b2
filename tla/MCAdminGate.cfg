\* Five requests of one IP, two let in per window of two ticks, some late.
CONSTANTS
    Requests = {r1, r2, r3, r4, r5}
    IPs = {x}
    RequireAccess = TRUE
    Limit = 2
    Minute = 2
    MaxDelay = 1
    MaxTime = 4
SYMMETRY Interchangeable
SPECIFICATION Spec
INVARIANTS
    TypeOK
    CountIsGrants
    PerMinuteBound
    DenialIsEarned
CHECK_DEADLOCK FALSE
