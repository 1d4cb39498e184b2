\* Three rows, each store and each list; ints of four bits, so that the first row
\* of page 7 can be out of their range, below zero or above.
CONSTANTS
    Rows = {r1, r2, r3}
    MaxTime = 2
    Lists = {"inboxes", "requests"}
    Backends = {"memory", "sql"}
    Pages = {0, 2, 7}
    PageSizes = {0, 2, 7}
    PageSizeCap = 3
    DefaultPageSize = 1
    MaxInt = 7
SYMMETRY Interchangeable
SPECIFICATION Spec
INVARIANTS
    TypeOK
    WalkMissesNothing
    WalkRepeatsNothing
    PatchAnswerIsCurrent
    NotFoundIsTrue
PROPERTIES
    PageHoldsItsRanks
CHECK_DEADLOCK FALSE
