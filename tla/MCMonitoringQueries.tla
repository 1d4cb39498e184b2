-------------------------- MODULE MCMonitoringQueries --------------------------
(* Instances of MonitoringQueries for TLC.                                 *)
EXTENDS MonitoringQueries

CONSTANT i1

Observed(at, inbox, class, latency, agent) ==
    [at |-> at, inbox |-> inbox, class |-> class, latency |-> latency, agent |-> agent]

\* Fast and slow, good and bad ones, of the inbox and of none, in and between
\* the seconds of two minutes.
Kinds == {Observed(0, i1, "2xx", 200, 1), Observed(1, i1, "2xx", 200, 2),
          Observed(1, i1, "5xx", 200, 1), Observed(2, i1, "2xx", 400, 1),
          Observed(2, NoInbox, "4xx", 20, 0), Observed(3, i1, "2xx", 200, 0),
          Observed(3, i1, "4xx", 9000, 2)}
================================================================================
