-------------------------- MODULE MCMonitoringStream ---------------------------
(* Instances of MonitoringStream for TLC.                                  *)
EXTENDS MonitoringStream

\* No window, one that is over when the stream asks for it, one that is still
\* to come, and one that is refused.
Asked == {DefaultQuery, [from |-> Absent, to |-> 1], [from |-> 2, to |-> Absent],
          [from |-> 3, to |-> 1]}
================================================================================
