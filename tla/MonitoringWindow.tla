---------------------------- MODULE MonitoringWindow ----------------------------
(***************************************************************************)
(* The window of a /v1/monitoring query: what normalizeMonitoringQuery     *)
(* makes of the times asked for, and which observations each store takes   *)
(* to be in it.                                                            *)
(***************************************************************************)
EXTENDS TimeText

CONSTANTS DefaultWindow,   \* defaultMonitoringWindow
          MaxWindow        \* maxMonitoringWindow

ASSUME WindowAssumption == DefaultWindow \in Nat \ {0} /\ MaxWindow \in Nat

Absent == -1                     \* a parameter that is not given

\* From and To of a query that came at now.
Window(from, to, now) ==
    CASE from = Absent /\ to = Absent -> [from |-> now - DefaultWindow, to |-> now]
      [] from # Absent /\ to = Absent -> [from |-> from, to |-> from + DefaultWindow]
      [] from = Absent /\ to # Absent -> [from |-> to - DefaultWindow, to |-> to]
      [] OTHER                        -> [from |-> from, to |-> to]

\* ErrInvalidInput
Refused(w) == w.from > w.to \/ w.to - w.from > MaxWindow

\* An observation of time at is in the window w: the memory store compares
\* times, the SQL store their texts.
IsWithin(at, w, kind) ==
    IF kind = "memory"
    THEN w.from <= at /\ at <= w.to
    ELSE ~ TextBefore(at, w.from) /\ ~ TextBefore(w.to, at)
================================================================================
