\* Two requests in one inbox and two runs that may overlap, on each store; a
\* day is two half seconds, and so is a minute.
CONSTANTS
    Captures = {c1, c2}
    Inboxes = {a}
    Runs = {r1, r2}
    Backends = {"memory", "sql"}
    DefaultRetentionDays = 2
    Overrides = {1, 3}
    Day = 2
    Minute = 2
    MaxTime = 7
SYMMETRY Interchangeable
SPECIFICATION Spec
INVARIANTS
    TypeOK
    OnlyExpiredRemoved
    CountsAddUp
    OnlyOldEventsPurged
    NoOldMonitoringLeft
CHECK_DEADLOCK FALSE
