---------------------------- MODULE MonitoringStream ----------------------------
(***************************************************************************)
(* GET /v1/monitoring/live over the broker and the observations in the     *)
(* store.  A hook handler notes when it started, records its observation   *)
(* and then publishes it; the stream handler subscribes first, then fixes  *)
(* the window of its query, reads a snapshot of the newest observations    *)
(* within it, writes it and loops.                                         *)
(*                                                                         *)
(* A publisher is the observation of one hook.  Times are half seconds, as *)
(* in TimeText.  The filters of the query are left out: every observation  *)
(* passes them.                                                            *)
(***************************************************************************)
EXTENDS SSEBroker, MonitoringWindow, FiniteSetsExt

CONSTANTS Limit,      \* the snapshot's limit
          Queries,    \* the [from, to] that may be asked for
          MaxTime,    \* bound of the clock
          Backends    \* the stores buildStore picks from

Times == 0 .. MaxTime
DefaultQuery == [from |-> Absent, to |-> Absent]

\* Every stream and every publisher uses one topic, monitoringLiveChannelKey.
ASSUME LimitAssumption ==
    /\ Limit \in Nat \ {0} /\ MaxTime \in Nat
    /\ Queries \subseteq [from : Int, to : Int]
    /\ Backends \subseteq {"memory", "sql"}
    /\ \A t, u \in Topics : t = u

VARIABLES backend,          \* for good
          clock,
          hook,             \* publisher -> "idle", "started", "recorded", "failed"
          observedAt,       \* publisher -> when its hook request started
          monitoringEvents, \* the observations in the store
          asked,            \* stream -> [from, to] of its query
          stage,            \* stream handler -> "window", "query", "loop", "over"
          window,           \* stream -> [from, to] of its query, normalised
          snapshot          \* stream -> what it read from the store

recorder == <<hook, observedAt, monitoringEvents>>
query == <<stage, window, snapshot>>
liveVars == <<brokerVars, backend, clock, recorder, asked, query>>

InWindow(p, s) == IsWithin(observedAt[p], window[s], backend)

\* p is not newer than e, in the order of the store.
NotNewer(p, e) ==
    IF backend = "memory" THEN observedAt[p] <= observedAt[e]
    ELSE ~ TextBefore(observedAt[e], observedAt[p])

\* ListMonitoringLiveEvents: the Limit newest in the window, ties in any order.
Newest(s) ==
    LET matching == {p \in monitoringEvents : InWindow(p, s)}
    IN  {chosen \in SUBSET matching :
           /\ Cardinality(chosen) = Min({Limit, Cardinality(matching)})
           /\ \A p \in matching \ chosen, e \in chosen : NotNewer(p, e)}

--------------------------------------------------------------------------------
\* The hooks.

Tick ==
    /\ clock < MaxTime
    /\ clock' = clock + 1
    /\ UNCHANGED <<brokerVars, backend, recorder, asked, query>>

\* handleCapture takes startedAt.
StartHook(p) ==
    /\ hook[p] = "idle"
    /\ hook' = [hook EXCEPT ![p] = "started"]
    /\ observedAt' = [observedAt EXCEPT ![p] = clock]
    /\ UNCHANGED <<brokerVars, backend, clock, monitoringEvents, asked, query>>

\* The deferred call of handleCapture records, and publishes if that succeeded.
RecordObservation(p) ==
    /\ hook[p] = "started"
    /\ hook' = [hook EXCEPT ![p] = "recorded"]
    /\ monitoringEvents' = monitoringEvents \cup {p}
    /\ UNCHANGED <<brokerVars, backend, clock, observedAt, asked, query>>

\* The transaction returns an error, before or after it took effect.
RecordObservationFails(p) ==
    /\ backend = "sql"
    /\ hook[p] = "started"
    /\ hook' = [hook EXCEPT ![p] = "failed"]
    /\ monitoringEvents' \in {monitoringEvents, monitoringEvents \cup {p}}
    /\ UNCHANGED <<brokerVars, backend, clock, observedAt, asked, query>>

PublishLive(p) ==
    /\ hook[p] = "recorded"
    /\ Publish(p)
    /\ UNCHANGED <<backend, clock, recorder, asked, query>>

SendLive(p) ==
    /\ SendStep(p)
    /\ UNCHANGED <<backend, clock, recorder, asked, query>>

\* A retention run purges what is older than its cutoff.
PurgeEvents ==
    /\ \E cutoff \in 0 .. clock :
          monitoringEvents' = {p \in monitoringEvents :
             IF backend = "memory" THEN observedAt[p] >= cutoff
             ELSE ~ TextBefore(observedAt[p], cutoff)}
    /\ UNCHANGED <<brokerVars, backend, clock, hook, observedAt, asked, query>>

--------------------------------------------------------------------------------
\* The streams.

SubscribeLive(s) ==
    /\ Subscribe(s)
    /\ UNCHANGED <<backend, clock, recorder, asked, query>>

\* Mutant: the window is fixed before the subscription.
NormalizeQueryFirst(s) ==
    /\ stream[s] = "out"
    /\ stage[s] = "window"
    /\ window' = [window EXCEPT ![s] = Window(asked[s].from, asked[s].to, clock)]
    /\ stage' = [stage EXCEPT ![s] = IF Refused(window'[s]) THEN "over" ELSE "query"]
    /\ UNCHANGED <<brokerVars, backend, clock, recorder, asked, snapshot>>

\* normalizeMonitoringQuery.  A query that is refused is answered 400 and the
\* deferred cancel runs.
NormalizeQuery(s) ==
    /\ stream[s] = "reading"
    /\ stage[s] = "window"
    /\ window' = [window EXCEPT ![s] = Window(asked[s].from, asked[s].to, clock)]
    /\ IF Refused(window'[s])
       THEN Disconnect(s) /\ stage' = [stage EXCEPT ![s] = "over"]
       ELSE UNCHANGED brokerVars /\ stage' = [stage EXCEPT ![s] = "query"]
    /\ UNCHANGED <<backend, clock, recorder, asked, snapshot>>

TakeSnapshot(s) ==
    /\ stream[s] = "reading"
    /\ stage[s] = "query"
    /\ \E chosen \in Newest(s) : snapshot' = [snapshot EXCEPT ![s] = chosen]
    /\ stage' = [stage EXCEPT ![s] = "loop"]
    /\ UNCHANGED <<brokerVars, backend, clock, recorder, asked, window>>

\* The SELECT fails: an error is written and the deferred cancel runs.
SnapshotFails(s) ==
    /\ backend = "sql"
    /\ stage[s] = "query"
    /\ Disconnect(s)
    /\ stage' = [stage EXCEPT ![s] = "over"]
    /\ UNCHANGED <<backend, clock, recorder, asked, window, snapshot>>

ReceiveLive(s) ==
    /\ stage[s] = "loop"
    /\ Receive(s)
    /\ UNCHANGED <<backend, clock, recorder, asked, query>>

LeaveLive(s) ==
    /\ stage[s] = "loop"
    /\ Disconnect(s)
    /\ stage' = [stage EXCEPT ![s] = "over"]
    /\ UNCHANGED <<backend, clock, recorder, asked, window, snapshot>>

CancelLive(s) ==
    /\ Cancel(s)
    /\ UNCHANGED <<backend, clock, recorder, asked, query>>

--------------------------------------------------------------------------------

LiveInit ==
    /\ BrokerInit
    /\ backend \in Backends
    /\ clock = 0
    /\ hook = [p \in Publishers |-> "idle"]
    /\ observedAt = [p \in Publishers |-> 0]
    /\ monitoringEvents = {}
    /\ asked \in [Streams -> Queries]
    /\ stage = [s \in Streams |-> "window"]
    /\ window = [s \in Streams |-> DefaultQuery]
    /\ snapshot = [s \in Streams |-> {}]

LiveNext ==
    \/ Tick \/ PurgeEvents
    \/ \E p \in Publishers : \/ StartHook(p) \/ RecordObservation(p) \/ RecordObservationFails(p)
                             \/ PublishLive(p) \/ SendLive(p)
    \/ \E s \in Streams : \/ SubscribeLive(s) \/ NormalizeQuery(s)
                          \/ TakeSnapshot(s) \/ SnapshotFails(s)
                          \/ ReceiveLive(s) \/ LeaveLive(s) \/ CancelLive(s)

LiveSpec == LiveInit /\ [][LiveNext]_liveVars

\* Handlers run on; the client of a stream that stays takes what is written.
FairLiveSpec ==
    /\ LiveSpec
    /\ \A p \in Publishers : WF_liveVars(SendLive(p))
    /\ \A s \in Streams : /\ WF_liveVars(NormalizeQuery(s)) /\ WF_liveVars(TakeSnapshot(s))
                          /\ WF_liveVars(ReceiveLive(s))

--------------------------------------------------------------------------------

\* What the window leaves out: in memory what is outside it, in SQL nothing
\* but what is outside or within the second of one of its ends.
OutsideWindow(p, s) ==
    IF backend = "memory"
    THEN observedAt[p] < window[s].from \/ window[s].to < observedAt[p]
    ELSE \/ observedAt[p] \div 2 <= window[s].from \div 2
         \/ window[s].to \div 2 <= observedAt[p] \div 2

\* p is as old as e, to the second in SQL.
NotNewerToTheSecond(p, e) ==
    IF backend = "memory" THEN observedAt[p] <= observedAt[e]
    ELSE observedAt[p] \div 2 <= observedAt[e] \div 2

\* No gap between the snapshot and the live events: an observation in the
\* store when a stream is in its loop is in the snapshot, or was published to
\* the stream, or is still to be published (or never, because recording it
\* returned an error), or the snapshot is full of observations at least as
\* new, or it is outside the window the stream asked for; and a stream that
\* asked for no window leaves nothing out that began after its own now.
NoGapAfterSnapshot ==
    \A s \in Streams : stage[s] = "loop" =>
       \A p \in monitoringEvents :
          \/ p \in snapshot[s]
          \/ p \in due[s]
          \/ publisher[p] = "idle"
          \/ /\ Cardinality(snapshot[s]) = Limit
             /\ \A e \in snapshot[s] : NotNewerToTheSecond(p, e)
          \/ /\ OutsideWindow(p, s)
             /\ asked[s] = DefaultQuery => observedAt[p] <= window[s].to

\* What is published to a stream that stays reaches it, unless its buffer was
\* full or the publisher panicked on another stream before it.
LiveEventArrives ==
    \A s \in Streams, p \in Publishers :
       p \in due[s] ~> \/ p \in Range(received[s]) \cup dropped[s]
                       \/ stream[s] # "reading"
                       \/ publisher[p] = "panicked"
================================================================================
