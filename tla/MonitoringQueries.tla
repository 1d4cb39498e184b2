--------------------------- MODULE MonitoringQueries ---------------------------
(***************************************************************************)
(* The queries of /v1/monitoring over the recorded observations: summary,  *)
(* time series, breakdown and inbox health, of both stores, beside         *)
(* deliveries, retention runs and inboxes that come and go.  The memory    *)
(* store answers each under its lock.  In SQL the breakdown and the health *)
(* are two statements, and a window is a comparison of texts.              *)
(*                                                                         *)
(* Times are half seconds.  Of an observation there is what the queries    *)
(* tell apart; user_agent stands for every dimension of a breakdown, its   *)
(* values in their order and 0 for the empty one.  Filters other than the  *)
(* inbox are left out: they cut down the observations alike in both stores.*)
(***************************************************************************)
EXTENDS MonitoringWindow, Sequences, FiniteSets, Bags, SequencesExt, FiniteSetsExt, Functions

CONSTANTS Inboxes,
          Observations,          \* what may be recorded, a set of Observation
          Bursts,                \* how many alike may come at once
          MaxBursts,             \* bound of the recordings
          MaxTime,               \* bound of times
          Minute,                \* in half seconds
          Limits,                \* limits a breakdown may be asked for, 0 for none
          DefaultLimit, LimitCap,
          Backends               \* the stores buildStore picks from

Times == 0 .. MaxTime
NoInbox == "unknown"             \* a hook whose token named no inbox

Observation == [at : Times, inbox : Inboxes \cup {NoInbox}, class : {"2xx", "4xx", "5xx"},
                latency : Nat, agent : Nat]

ASSUME MonitoringAssumption ==
    /\ Observations \subseteq Observation
    /\ Bursts \subseteq Nat \ {0} /\ MaxBursts \in Nat /\ MaxTime \in Nat
    /\ Minute \in Nat \ {0} /\ Minute % 2 = 0
    /\ Limits \subseteq Nat /\ DefaultLimit \in Nat \ {0} /\ LimitCap \in Nat \ {0}
    /\ Backends \subseteq {"memory", "sql"}
    /\ NoInbox \notin Inboxes

VARIABLES backend,       \* for good
          events,        \* bag of the recorded observations
          recordings,    \* how many recordings there were
          live, deleted, \* inboxes
          pc,            \* where the query is
          q,             \* [from, to, inbox], normalised
          limit,         \* of a breakdown
          total,         \* of a breakdown's first statement
          listed,        \* inboxes of the health's first statement
          answer

\* Histories of the query under way.
VARIABLES since,         \* observations of its window recorded since its first statement
          before         \* [live, deleted] when it began

store == <<events, recordings, live, deleted>>
call == <<q, limit, total, listed, answer, since, before>>
vars == <<backend, store, pc, call>>

Bucket(t) == t - (t % Minute)
LatencyHistogramBoundsMs == {10, 25, 50, 100, 250, 500, 1000, 2000, 5000}

--------------------------------------------------------------------------------
\* Which observations a query is about, and what is counted of them.

CountOf(S) == SumFunctionOnSet(events, S)
Errors(S) == {o \in S : o.class \in {"4xx", "5xx"}}

InWindow(o) == IsWithin(o.at, q, backend)

\* Mutant: the end of the window is left out, as in a half-open one.
MatchesBefore(o) == InWindow(o) /\ o.at # q.to /\ (q.inbox = "" \/ o.inbox = q.inbox)

\* matchesMonitoringQuery, buildMonitoringEventsWhere
Matches(o) == InWindow(o) /\ (q.inbox = "" \/ o.inbox = q.inbox)

Matching == {o \in DOMAIN events : Matches(o)}

Aggregate(S) ==
    [requests |-> CountOf(S),
     errors   |-> CountOf(Errors(S)),
     buckets  |-> [b \in LatencyHistogramBoundsMs |-> CountOf({o \in S : o.latency <= b})]]

\* The first bound that reaches the target, the last one if none does.
FirstReaching(buckets, target) ==
    LET reaching == {b \in LatencyHistogramBoundsMs : buckets[b] >= target}
    IN  IF reaching = {} THEN Max(LatencyHistogramBoundsMs) ELSE Min(reaching)

\* math.Ceil(float64(total) * q) of the service, and int64(float64(total) * q +
\* 0.999999) of the stores, both in exact arithmetic: for 0.95 and 0.99, the only
\* two the code asks for, the floats round to the same numbers up to totals of
\* 2^32.  For other percentages they need not: 0.07 of 100 is rounded up to 8.
CeilTarget(n, percent) == (n * percent + 99) \div 100
NudgedTarget(n, percent) == (n * percent * 10000 + 999999) \div 1000000

\* percentileFromBuckets of the service, and that of the stores
Percentile(agg, percent, target) ==
    IF agg.requests = 0 THEN 0 ELSE FirstReaching(agg.buckets, target)
PercentileOfService(agg, percent) ==
    Percentile(agg, percent, CeilTarget(agg.requests, percent))
PercentileOfStore(agg, percent) ==
    Percentile(agg, percent, NudgedTarget(agg.requests, percent))

Point(S) ==
    LET agg == Aggregate(S)
    IN  [requests |-> agg.requests, errors |-> agg.errors,
         p95 |-> PercentileOfStore(agg, 95), p99 |-> PercentileOfStore(agg, 99)]

\* Mutant: the series stops before the minute the window ends in.
MinutesBefore == {m \in Bucket(q.from) .. Bucket(q.to) - 1 : m % Minute = 0}

\* The points of a time series: every minute from that of From to that of To.
Minutes == {m \in Bucket(q.from) .. Bucket(q.to) : m % Minute = 0}

InMinute(m) == {o \in Matching : Bucket(o.at) = m}

--------------------------------------------------------------------------------
\* The others.

\* The same delivery n times, each observed in one transaction.
RecordHookObservation(o, n) ==
    /\ recordings < MaxBursts
    /\ recordings' = recordings + 1
    /\ o.inbox \in live \cup deleted \cup {NoInbox}
    /\ events' = events (+) [x \in {o} |-> n]
    /\ since' = IF pc = "group" /\ Matches(o) THEN since + n ELSE since
    /\ UNCHANGED <<backend, live, deleted, pc, q, limit, total, listed, answer, before>>

\* A retention run purges what is older than its cutoff.
PurgeEvents ==
    /\ \E cutoff \in Times :
          events' = Restrict(events, {o \in DOMAIN events :
                       IF backend = "memory" THEN o.at >= cutoff ELSE ~ TextBefore(o.at, cutoff)})
    /\ UNCHANGED <<backend, recordings, live, deleted, pc, call>>

CreateInbox(i) ==
    /\ i \notin live \cup deleted
    /\ live' = live \cup {i}
    /\ UNCHANGED <<backend, events, recordings, deleted, pc, call>>

SoftDeleteInbox(i) ==
    /\ i \in live
    /\ live' = live \ {i}
    /\ deleted' = deleted \cup {i}
    /\ UNCHANGED <<backend, events, recordings, pc, call>>

--------------------------------------------------------------------------------
\* The queries.

NormalizedLimit(n) == IF n = 0 THEN DefaultLimit ELSE IF n > LimitCap THEN LimitCap ELSE n

FirstStep(op) ==
    CASE op = "breakdown" -> IF backend = "sql" THEN "count" ELSE "breakdown"
      [] op = "health"    -> IF backend = "sql" THEN "inboxes" ELSE "health"
      [] OTHER            -> op

Begin(op) ==
    /\ pc = "idle"
    /\ \E from, to \in Times \cup {Absent}, now \in Times, inbox \in Inboxes \cup {""} :
          LET w == Window(from, to, now)
          IN  IF Refused(w)
              THEN /\ pc' = "400"
                   /\ UNCHANGED q
              ELSE /\ pc' = FirstStep(op)
                   /\ q' = [from |-> w.from, to |-> w.to, inbox |-> inbox]
    /\ IF op = "breakdown" THEN \E n \in Limits : limit' = NormalizedLimit(n)
                           ELSE limit' = DefaultLimit
    /\ before' = [live |-> live, deleted |-> deleted]
    /\ UNCHANGED <<backend, store, total, listed, answer, since>>

Answer(value) ==
    /\ answer' = value
    /\ pc' = "answered"

GetMonitoringSummary ==
    /\ pc = "summary"
    /\ LET point == Point(Matching)
       IN  Answer([requests |-> point.requests, errors |-> point.errors,
                   p95 |-> point.p95, p99 |-> point.p99,
                   lastMinute |-> CountOf(InMinute(Bucket(q.to)))])
    /\ UNCHANGED <<backend, store, q, limit, total, listed, since, before>>

GetMonitoringTimeseries ==
    /\ pc = "timeseries"
    /\ Answer([m \in Minutes |-> Point(InMinute(m))])
    /\ UNCHANGED <<backend, store, q, limit, total, listed, since, before>>

\* The values of the dimension that make a group.  An empty value is a group of
\* its own in SQL and none in memory.
Groups == {o.agent : o \in Matching} \ (IF backend = "memory" THEN {0} ELSE {})
GroupCount(value) == CountOf({o \in Matching : o.agent = value})

\* Mutant: the order of the counts is the wrong way round.
MoreFrequentReversed(a, b) ==
    \/ GroupCount(a) < GroupCount(b)
    \/ GroupCount(a) = GroupCount(b) /\ a < b

MoreFrequent(a, b) ==
    \/ GroupCount(a) > GroupCount(b)
    \/ GroupCount(a) = GroupCount(b) /\ a < b

TopGroups ==
    LET all == CHOOSE s \in SetToSeqs(Groups) :
                  \A i, j \in 1 .. Len(s) : i < j => MoreFrequent(s[i], s[j])
    IN  [i \in 1 .. Min({limit, Len(all)}) |-> [value |-> all[i], count |-> GroupCount(all[i])]]

BreakdownInMemory ==
    /\ pc = "breakdown"
    /\ total' = CountOf(Matching)
    /\ since' = 0
    /\ Answer(TopGroups)
    /\ UNCHANGED <<backend, store, q, limit, listed, before>>

\* SELECT COUNT(*): what the shares are taken of.
CountEvents ==
    /\ pc = "count"
    /\ total' = CountOf(Matching)
    /\ since' = 0
    /\ pc' = "group"
    /\ UNCHANGED <<backend, store, q, limit, listed, answer, before>>

GroupEvents ==
    /\ pc = "group"
    /\ Answer(TopGroups)
    /\ UNCHANGED <<backend, store, q, limit, total, listed, since, before>>

Asked == {i \in live : q.inbox = "" \/ i = q.inbox}

\* Mutant: an error rate of exactly the threshold passes.
HealthStateStrict(agg) ==
    CASE agg.requests = 0 -> "no_traffic"
      [] agg.requests > 0 /\ (agg.errors * 100 > 2 * agg.requests
                              \/ PercentileOfService(agg, 95) >= 500) -> "unstable"
      [] OTHER -> "healthy"

\* GetMonitoringInboxHealth: 2 per cent of errors or a p95 of 500 ms.
HealthState(agg) ==
    CASE agg.requests = 0 -> "no_traffic"
      [] agg.requests > 0 /\ (agg.errors * 100 >= 2 * agg.requests
                              \/ PercentileOfService(agg, 95) >= 500) -> "unstable"
      [] OTHER -> "healthy"

Health(ids) == [i \in ids |-> HealthState(Aggregate({o \in Matching : o.inbox = i}))]

HealthInMemory ==
    /\ pc = "health"
    /\ Answer(Health(Asked))
    /\ UNCHANGED <<backend, store, q, limit, total, listed, since, before>>

\* The inboxes first; with none the second statement is left out.
SelectInboxes ==
    /\ pc = "inboxes"
    /\ listed' = Asked
    /\ IF Asked = {} THEN Answer(<<>>) ELSE pc' = "stats" /\ UNCHANGED answer
    /\ UNCHANGED <<backend, store, q, limit, total, since, before>>

SelectStats ==
    /\ pc = "stats"
    /\ Answer(Health(listed))
    /\ UNCHANGED <<backend, store, q, limit, total, listed, since, before>>

\* A statement returns an error: 500.
Fail ==
    /\ backend = "sql"
    /\ pc \in {"summary", "timeseries", "count", "group", "inboxes", "stats"}
    /\ pc' = "500"
    /\ UNCHANGED <<backend, store, call>>

NoQuery == [from |-> 0, to |-> 0, inbox |-> ""]
Nothing == [live |-> {}, deleted |-> {}]

\* The client has its answer and may ask again.
Leave ==
    /\ pc \in {"answered", "400", "500"}
    /\ pc' = "idle"
    /\ q' = NoQuery /\ limit' = DefaultLimit /\ total' = 0 /\ listed' = {} /\ answer' = <<>>
    /\ since' = 0 /\ before' = Nothing
    /\ UNCHANGED <<backend, store>>

--------------------------------------------------------------------------------

Init ==
    /\ backend \in Backends
    /\ events = EmptyBag
    /\ recordings = 0
    /\ live = {} /\ deleted = {}
    /\ pc = "idle"
    /\ q = NoQuery /\ limit = DefaultLimit /\ total = 0 /\ listed = {} /\ answer = <<>>
    /\ since = 0 /\ before = Nothing

Others ==
    \/ \E o \in Observations, n \in Bursts : RecordHookObservation(o, n)
    \/ PurgeEvents
    \/ \E i \in Inboxes : CreateInbox(i) \/ SoftDeleteInbox(i)

Query ==
    \/ \E op \in {"summary", "timeseries", "breakdown", "health"} : Begin(op)
    \/ GetMonitoringSummary \/ GetMonitoringTimeseries
    \/ BreakdownInMemory \/ CountEvents \/ GroupEvents
    \/ HealthInMemory \/ SelectInboxes \/ SelectStats
    \/ Fail \/ Leave

Next == Others \/ Query

Spec == Init /\ [][Next]_vars

--------------------------------------------------------------------------------
\* Properties.  A step that ends a query is Answering(p) with the place it ends at.

Answering(places) == pc \in places /\ pc' = "answered"

Wanted(o) == q.inbox = "" \/ o.inbox = q.inbox
CountWithin(from, to) == CountOf({o \in DOMAIN events : Wanted(o) /\ from <= o.at /\ o.at <= to})

\* The least bound that at least percent of the requests meet, by definition.
IsPercentile(p, S, percent) ==
    LET n == CountOf(S)
        Meet(b) == CountOf({o \in S : o.latency <= b}) * 100 >= percent * n
    IN  IF n = 0 THEN p = 0
        ELSE /\ p \in LatencyHistogramBoundsMs
             /\ Meet(p) \/ p = Max(LatencyHistogramBoundsMs)
             /\ \A b \in LatencyHistogramBoundsMs : b < p => ~ Meet(b)

\* A summary counts what its window holds: exactly in memory; in SQL an event
\* less than a second outside an end may count, and one less than a second
\* inside may not, but none further off.  Its percentiles are those of what it
\* counted (buildMonitoringEventsWhere, percentileFromBuckets).
SummaryIsRight ==
    [][Answering({"summary"}) =>
          /\ IF backend = "memory"
             THEN answer'.requests = CountWithin(q.from, q.to)
             ELSE /\ answer'.requests >= CountWithin(q.from + 2, q.to - 2)
                  /\ answer'.requests <= CountWithin(q.from - 1, q.to + 1)
          /\ IsPercentile(answer'.p95, Matching, 95)
          /\ IsPercentile(answer'.p99, Matching, 99)]_vars

SumOf(counts) == SumFunctionOnSet(counts, DOMAIN counts)

\* The points of a time series lose and repeat no event: their requests and
\* errors add up to those of the summary of the same query, and the last point
\* is its last minute.
SeriesAddsUp ==
    [][Answering({"timeseries"}) =>
          /\ Bucket(q.to) \in DOMAIN answer'
          /\ SumOf([m \in DOMAIN answer' |-> answer'[m].requests]) = CountOf(Matching)
          /\ SumOf([m \in DOMAIN answer' |-> answer'[m].errors]) = CountOf(Errors(Matching))
          /\ answer'[Bucket(q.to)].requests = CountOf(InMinute(Bucket(q.to)))]_vars

\* In the health are the inboxes asked for that were live all the while, and none
\* that was deleted before.
ListsTheLive ==
    /\ {i \in before.live \ deleted : q.inbox \in {"", i}} \subseteq DOMAIN answer'
    /\ DOMAIN answer' \cap before.deleted = {}

\* The health lists every inbox asked for that was live all the while and none
\* that was deleted before, and calls an inbox unstable exactly when 2 per cent
\* or more of its requests were errors or more than 5 per cent of them took over
\* 250 ms, the bound below 500 (GetMonitoringInboxHealth).
HealthIsTrue ==
    [][Answering({"health", "inboxes", "stats"}) =>
          /\ ListsTheLive
          /\ \A i \in DOMAIN answer' :
                LET his  == {o \in Matching : o.inbox = i}
                    slow == {o \in his : o.latency > 250}
                IN  /\ answer'[i] = "no_traffic" <=> his = {}
                    /\ answer'[i] = "unstable" <=>
                          /\ his # {}
                          /\ \/ CountOf(Errors(his)) * 50 >= CountOf(his)
                             \/ CountOf(slow) * 20 > CountOf(his)]_vars

\* A breakdown lists the most frequent values, as many as asked for, each once
\* and in order; they are no more than the total its shares are taken of and
\* what was recorded between its two statements.
BreakdownIsTop ==
    [][Answering({"breakdown", "group"}) =>
          LET in  == Range([i \in DOMAIN answer' |-> answer'[i].value])
              out == Groups \ in
          IN  /\ Len(answer') = Min({limit, Cardinality(Groups)})
              /\ Cardinality(in) = Len(answer') /\ in \subseteq Groups
              /\ \A a \in in, b \in out : GroupCount(a) >= GroupCount(b)
              /\ \A i, j \in DOMAIN answer' : i < j => answer'[i].count >= answer'[j].count
              /\ SumOf([i \in DOMAIN answer' |-> answer'[i].count]) <= total' + since']_vars
================================================================================
