\* One inbox; two minutes of a second each, of which 19 or 49 alike may come at
\* once, so that shares of 5 and of 2 per cent are met exactly.
CONSTANTS
    i1 = i1
    Inboxes = {i1}
    Observations <- Kinds
    Bursts = {1, 19, 49}
    MaxBursts = 2
    MaxTime = 3
    Minute = 2
    DefaultWindow = 2
    MaxWindow = 2
    Limits = {0, 1, 9}
    DefaultLimit = 1
    LimitCap = 2
    Backends = {"memory", "sql"}
SPECIFICATION Spec
PROPERTIES
    SummaryIsRight
    SeriesAddsUp
    HealthIsTrue
    BreakdownIsTop
CHECK_DEADLOCK FALSE
