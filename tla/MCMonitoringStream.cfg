\* One stream, two observations that need not be published in the order of
\* their times, snapshots of one, a buffer of one and two seconds.
CONSTANTS
    Streams = {s1}
    Publishers = {p1, p2}
    Topics = {live}
    BufferSize = 1
    Limit = 1
    Queries <- Asked
    MaxTime = 3
    DefaultWindow = 1
    MaxWindow = 2
    Backends = {"memory", "sql"}
SPECIFICATION FairLiveSpec
INVARIANTS
    NoGapAfterSnapshot
PROPERTIES
    LiveEventArrives
CHECK_DEADLOCK FALSE
