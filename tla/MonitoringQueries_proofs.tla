------------------------ MODULE MonitoringQueries_proofs ------------------------
(***************************************************************************)
(* Proofs about MonitoringQueries: the arithmetic of percentiles and of    *)
(* the health for every count, the window's ends for every time, and, for  *)
(* any bag of observations, what the four queries answer.  TypeInv is the  *)
(* type invariant; ListedIsLive and CountedSince say what the first of two *)
(* statements has found of what the second will see.                       *)
(***************************************************************************)
EXTENDS MonitoringQueries, CommonLemmas

--------------------------------------------------------------------------------
\* Percentiles.

\* Rounding x per cent up by adding 0.999999 and cutting off, or to a whole.
LEMMA RoundingAgrees ==
    ASSUME NEW x \in Nat
    PROVE  (x * 10000 + 999999) \div 1000000 = (x + 99) \div 100
<1> DEFINE k == (x + 99) \div 100
           m == (x * 10000 + 999999) \div 1000000
<1>1. k \in Int /\ 100 * k <= x + 99 /\ x + 99 < 100 * k + 100
  OBVIOUS
<1>2. m \in Int /\ 1000000 * m <= x * 10000 + 999999 /\ x * 10000 + 999999 < 1000000 * m + 1000000
  OBVIOUS
<1> HIDE DEF k, m
<1>3. m = k
  BY <1>1, <1>2
<1>4. QED
  BY <1>3 DEF k, m

\* For the obligations in which the provers need the type alone.
LEMMA ProductInNat == ASSUME NEW a \in Nat, NEW b \in Nat PROVE a * b \in Nat
  OBVIOUS

\* The percentiles the code asks for, those for which its floating-point ranks
\* are these.
Percents == {95, 99}

\* The service rounds the rank of a percentile up to a whole, the stores by
\* adding 0.999999 and cutting off: the ranks are the same.
LEMMA TargetsAgree ==
    ASSUME NEW n \in Nat, NEW percent \in Percents
    PROVE  NudgedTarget(n, percent) = CeilTarget(n, percent)
<1>1. n * percent \in Nat
  BY ProductInNat DEF Percents
<1>2. (n * percent * 10000 + 999999) \div 1000000 = (n * percent + 99) \div 100
  BY <1>1, RoundingAgrees
<1>3. QED
  BY <1>2 DEF NudgedTarget, CeilTarget

\* A count reaches the rank exactly when it is the percentage or more.
LEMMA TargetIsThePercentage ==
    ASSUME NEW c \in Nat, NEW n \in Nat, NEW percent \in Percents
    PROVE  c >= CeilTarget(n, percent) <=> c * 100 >= percent * n
<1> DEFINE x == n * percent
           k == (x + 99) \div 100
<1>1. x \in Nat /\ x = percent * n
  BY ProductInNat DEF Percents
<1>2. k \in Int /\ 100 * k <= x + 99 /\ x + 99 < 100 * k + 100
  BY <1>1
<1>3. CeilTarget(n, percent) = k
  BY DEF CeilTarget
<1> HIDE DEF x, k
<1>4. c >= k <=> c * 100 >= x
  BY <1>1, <1>2
<1>5. QED
  BY <1>1, <1>3, <1>4

\* The last bound of the histogram.
LEMMA BoundsMaximum == Max(LatencyHistogramBoundsMs) = 5000
  BY DEF Max, LatencyHistogramBoundsMs

\* A set of bounds that has a bound has a least one.
LEMMA BoundsMinimum ==
    ASSUME NEW S \in SUBSET LatencyHistogramBoundsMs, S # {}
    PROVE  Min(S) \in S /\ \A b \in S : Min(S) <= b
<1>1. \E x \in S : \A y \in S : x <= y
  <2>1. CASE 10 \in S
    BY <2>1 DEF LatencyHistogramBoundsMs
  <2>2. CASE (\A b \in {10} : b \notin S) /\ 25 \in S
    BY <2>2 DEF LatencyHistogramBoundsMs
  <2>3. CASE (\A b \in {10, 25} : b \notin S) /\ 50 \in S
    BY <2>3 DEF LatencyHistogramBoundsMs
  <2>4. CASE (\A b \in {10, 25, 50} : b \notin S) /\ 100 \in S
    BY <2>4 DEF LatencyHistogramBoundsMs
  <2>5. CASE (\A b \in {10, 25, 50, 100} : b \notin S) /\ 250 \in S
    BY <2>5 DEF LatencyHistogramBoundsMs
  <2>6. CASE (\A b \in {10, 25, 50, 100, 250} : b \notin S) /\ 500 \in S
    BY <2>6 DEF LatencyHistogramBoundsMs
  <2>7. CASE (\A b \in {10, 25, 50, 100, 250, 500} : b \notin S) /\ 1000 \in S
    BY <2>7 DEF LatencyHistogramBoundsMs
  <2>8. CASE (\A b \in {10, 25, 50, 100, 250, 500, 1000} : b \notin S) /\ 2000 \in S
    BY <2>8 DEF LatencyHistogramBoundsMs
  <2>9. CASE (\A b \in {10, 25, 50, 100, 250, 500, 1000, 2000} : b \notin S) /\ 5000 \in S
    BY <2>9 DEF LatencyHistogramBoundsMs
  <2>10. PICK b \in S : b \in LatencyHistogramBoundsMs
    OBVIOUS
  <2>11. QED
    BY <2>1, <2>2, <2>3, <2>4, <2>5, <2>6, <2>7, <2>8, <2>9, <2>10 DEF LatencyHistogramBoundsMs
<1>2. QED
  BY <1>1 DEF Min

Aggregates == [requests : Nat, errors : Nat, buckets : [LatencyHistogramBoundsMs -> Nat]]

\* A percentile is the least bound that at least the percentage of the requests
\* meet, and the last one if they meet none: for every histogram and the two
\* percentiles the code asks for, whichever of the two roundings found it.
THEOREM PercentileIsLeast ==
    ASSUME NEW agg \in Aggregates, NEW percent \in Percents, agg.requests # 0
    PROVE  LET p == PercentileOfService(agg, percent)
               Meet(b) == agg.buckets[b] * 100 >= percent * agg.requests
           IN  /\ PercentileOfStore(agg, percent) = p
               /\ p \in LatencyHistogramBoundsMs
               /\ Meet(p) \/ p = 5000
               /\ \A b \in LatencyHistogramBoundsMs : b < p => ~ Meet(b)
<1> DEFINE n == agg.requests
           target == CeilTarget(n, percent)
           reaching == {b \in LatencyHistogramBoundsMs : agg.buckets[b] >= target}
           p == PercentileOfService(agg, percent)
           Meet(b) == agg.buckets[b] * 100 >= percent * n
<1>1. n \in Nat /\ agg.buckets \in [LatencyHistogramBoundsMs -> Nat]
  BY DEF Aggregates
<1>2. PercentileOfStore(agg, percent) = p
  BY <1>1, TargetsAgree DEF PercentileOfStore, PercentileOfService
<1>3. p = IF reaching = {} THEN 5000 ELSE Min(reaching)
  BY BoundsMaximum DEF PercentileOfService, Percentile, FirstReaching
<1>4. \A b \in LatencyHistogramBoundsMs : b \in reaching <=> Meet(b)
  BY <1>1, TargetIsThePercentage
<1>5. CASE reaching = {}
  <2>1. p = 5000 /\ p \in LatencyHistogramBoundsMs
    BY <1>3, <1>5 DEF LatencyHistogramBoundsMs
  <2>2. QED
    BY <1>2, <1>4, <1>5, <2>1
<1>6. CASE reaching # {}
  <2>1. p \in reaching /\ \A b \in reaching : p <= b
    BY <1>3, <1>6, BoundsMinimum
  <2>2. \A b \in LatencyHistogramBoundsMs : b < p => b \notin reaching
    BY <2>1 DEF LatencyHistogramBoundsMs
  <2>3. QED
    BY <1>2, <1>4, <2>1, <2>2
<1>7. QED
  BY <1>5, <1>6

--------------------------------------------------------------------------------
\* The health of an inbox.

\* What an aggregate is, whatever it counts: a bound that is higher counts no
\* fewer, and none counts more than there are.
IsHistogram(agg) ==
    /\ agg \in Aggregates
    /\ \A a, b \in LatencyHistogramBoundsMs : a <= b => agg.buckets[a] <= agg.buckets[b]
    /\ \A b \in LatencyHistogramBoundsMs : agg.buckets[b] <= agg.requests

\* An inbox is unstable exactly when 2 per cent or more of its requests were
\* errors, or more than 5 per cent of them took over 250 ms; GetMonitoringInboxHealth
\* asks for a p95 of 500 or more, which is the next bound.
THEOREM UnstableIsRight ==
    ASSUME NEW agg, IsHistogram(agg)
    PROVE  HealthState(agg) = "unstable" <=>
              /\ agg.requests # 0
              /\ \/ agg.errors * 50 >= agg.requests
                 \/ (agg.requests - agg.buckets[250]) * 20 > agg.requests
<1> DEFINE n == agg.requests
           p == PercentileOfService(agg, 95)
<1>1. /\ n \in Nat /\ agg.errors \in Nat
      /\ agg.buckets[250] \in Nat /\ agg.buckets[250] <= n
  BY DEF IsHistogram, Aggregates, LatencyHistogramBoundsMs
<1>2. CASE n = 0
  BY <1>2 DEF HealthState
<1>3. CASE n # 0
  <2>1. /\ p \in LatencyHistogramBoundsMs
        /\ agg.buckets[p] * 100 >= 95 * n \/ p = 5000
        /\ \A b \in LatencyHistogramBoundsMs : b < p => ~ (agg.buckets[b] * 100 >= 95 * n)
    BY <1>3, PercentileIsLeast DEF IsHistogram, Percents
  <2>2. ASSUME p >= 500 PROVE (n - agg.buckets[250]) * 20 > n
    <3>1. ~ (agg.buckets[250] * 100 >= 95 * n)
      BY <2>1, <2>2 DEF LatencyHistogramBoundsMs
    <3>2. QED
      BY <1>1, <3>1
  <2>3. ASSUME ~ (p >= 500) PROVE ~ ((n - agg.buckets[250]) * 20 > n)
    <3>1. p <= 250 /\ p # 5000
      BY <2>1, <2>3 DEF LatencyHistogramBoundsMs
    <3>2. agg.buckets[p] \in Nat /\ agg.buckets[p] <= agg.buckets[250]
      BY <2>1, <3>1 DEF IsHistogram, Aggregates, LatencyHistogramBoundsMs
    <3>3. agg.buckets[p] * 100 >= 95 * n
      BY <2>1, <3>1
    <3>4. QED
      BY <1>1, <3>2, <3>3
  <2>4. agg.errors * 100 >= 2 * n <=> agg.errors * 50 >= n
    BY <1>1
  <2>5. n > 0
    BY <1>1, <1>3
  <2>6. HealthState(agg) = "unstable" <=> agg.errors * 100 >= 2 * n \/ p >= 500
    BY <1>3, <2>5 DEF HealthState
  <2>7. QED
    BY <1>3, <2>2, <2>3, <2>4, <2>6
<1>4. QED
  BY <1>2, <1>3

--------------------------------------------------------------------------------
\* The window.

\* What a query takes for its window, for every time of an observation: in
\* memory the closed interval; in SQL, where texts are compared, it differs from
\* that by less than a second at each end.
THEOREM WindowToTheSecond ==
    ASSUME NEW at \in Int, NEW from \in Int, NEW to \in Int,
           NEW o, o.at = at, q.from = from, q.to = to
    PROVE  /\ backend = "memory" => (InWindow(o) <=> from <= at /\ at <= to)
           /\ InWindow(o) => from - 1 <= at /\ at <= to + 1
           /\ from + 2 <= at /\ at <= to - 2 => InWindow(o)
<1>1. InWindow(o) <=> IF backend = "memory" THEN from <= at /\ at <= to
                      ELSE ~ TextBefore(at, from) /\ ~ TextBefore(to, at)
  BY Zenon DEF InWindow, IsWithin
<1>2. /\ ~ TextBefore(at, from) => from - 1 <= at
      /\ ~ TextBefore(to, at) => at - 1 <= to
      /\ TextBefore(at, from) => at <= from + 1
      /\ TextBefore(to, at) => to <= at + 1
  BY TextBeforeIsClose
<1>3. QED
  BY ONLY <1>1, <1>2, at \in Int, from \in Int, to \in Int

--------------------------------------------------------------------------------
\* The inboxes the health lists.

\* Between the two statements inboxes come and go; the first has found every
\* inbox asked for that is live still, and none that was deleted before.
ListedIsLive ==
    /\ live \cap deleted = {}
    /\ pc # "idle" => before.deleted \subseteq deleted /\ before.live \subseteq live \cup deleted
    /\ pc = "stats" =>
          /\ {i \in before.live \ deleted : q.inbox \in {"", i}} \subseteq listed
          /\ listed \cap before.deleted = {}

\* What deliveries, the retention and inboxes that come and go do.
LEMMA OthersKeepListed == ASSUME ListedIsLive, Others PROVE ListedIsLive'
<1> USE DEF ListedIsLive, store, call
<1>1. ASSUME NEW o \in Observations, NEW n \in Bursts, RecordHookObservation(o, n)
      PROVE ListedIsLive'
  BY <1>1 DEF RecordHookObservation
<1>2. CASE PurgeEvents
  BY <1>2 DEF PurgeEvents
<1>3. ASSUME NEW i \in Inboxes, CreateInbox(i) PROVE ListedIsLive'
  BY <1>3 DEF CreateInbox
<1>4. ASSUME NEW i \in Inboxes, SoftDeleteInbox(i) PROVE ListedIsLive'
  BY <1>4 DEF SoftDeleteInbox
<1>5. QED
  BY <1>1, <1>2, <1>3, <1>4 DEF Others

\* The steps of the query itself.
LEMMA QueryKeepsListed == ASSUME ListedIsLive, Query PROVE ListedIsLive'
<1> USE DEF ListedIsLive, store, call
<1>1. ASSUME NEW op \in {"summary", "timeseries", "breakdown", "health"}, Begin(op)
      PROVE ListedIsLive'
  <2>1. /\ before' = [live |-> live, deleted |-> deleted] /\ UNCHANGED store
        /\ pc' = "400" \/ pc' = FirstStep(op)
    BY <1>1 DEF Begin
  <2>2. pc' # "stats"
    BY <2>1 DEF FirstStep
  <2>3. QED
    BY <2>1, <2>2
<1>2. CASE GetMonitoringSummary \/ GetMonitoringTimeseries \/ BreakdownInMemory \/ CountEvents
           \/ GroupEvents \/ HealthInMemory \/ SelectStats \/ Fail
  BY <1>2 DEF GetMonitoringSummary, GetMonitoringTimeseries, BreakdownInMemory, CountEvents,
     GroupEvents, HealthInMemory, SelectStats, Fail, Answer
<1>3. CASE SelectInboxes
  BY <1>3 DEF SelectInboxes, Asked, Answer
<1>4. CASE Leave
  BY <1>4 DEF Leave
<1>5. QED
  BY <1>1, <1>2, <1>3, <1>4 DEF Query

\* The health lists every inbox asked for that was live all the while and none
\* that was deleted before the call, in memory under one lock and in SQL over
\* two statements with creations and deletions in between.
THEOREM HealthListsTheLive ==
    Spec => [][Answering({"health", "inboxes", "stats"}) => ListsTheLive]_vars
<1>1. Init => ListedIsLive
  BY DEF Init, ListedIsLive
<1>2. ListedIsLive /\ [Next]_vars => ListedIsLive'
  BY OthersKeepListed, QueryKeepsListed DEF Next, vars, store, call, ListedIsLive
<1>3. ASSUME ListedIsLive, Next, Answering({"health", "inboxes", "stats"}) PROVE ListsTheLive
  <2>1. HealthInMemory \/ SelectInboxes \/ SelectStats
    BY <1>3 DEF Answering, Next, Others, Query, RecordHookObservation, PurgeEvents, CreateInbox,
       SoftDeleteInbox, Begin, GetMonitoringSummary, GetMonitoringTimeseries, BreakdownInMemory,
       CountEvents, GroupEvents, Fail, Leave, call
  <2>2. CASE HealthInMemory
    BY <1>3, <2>2 DEF HealthInMemory, Answer, Health, Asked, ListsTheLive, ListedIsLive
  <2>3. CASE SelectInboxes
    <3>1. Asked = {} /\ answer' = <<>>
      BY <1>3, <2>3 DEF SelectInboxes, Answer, Answering
    <3>2. DOMAIN answer' = {}
      BY <3>1
    <3>3. QED
      BY <1>3, <2>3, <3>1, <3>2 DEF SelectInboxes, Asked, ListsTheLive, ListedIsLive
  <2>4. CASE SelectStats
    BY <1>3, <2>4 DEF SelectStats, Answer, Health, ListsTheLive, ListedIsLive
  <2>5. QED
    BY <2>1, <2>2, <2>3, <2>4
<1>4. QED
  BY <1>1, <1>2, <1>3, PTL DEF Spec

--------------------------------------------------------------------------------
\* What is recorded and what is asked.

\* The recorded observations are a finite bag, and a window is not empty.
TypeInv ==
    /\ backend \in Backends
    /\ DOMAIN events \subseteq Observations /\ IsFiniteSet(DOMAIN events)
    /\ events \in [DOMAIN events -> Nat \ {0}]
    /\ q \in [from : Int, to : Int, inbox : Inboxes \cup {""}] /\ q.from <= q.to
    /\ limit \in Nat
    /\ pc = "group" => total \in Nat /\ since \in Nat

\* Between its two statements the groups of a breakdown have grown by what was
\* recorded since, or less: a retention run may have purged some.
CountedSince == pc = "group" => CountOf(Matching) <= total + since

\* The same delivery n times over.
LEMMA Recorded ==
    ASSUME TypeInv, NEW o \in Observations, NEW n \in Nat \ {0},
           events' = events (+) [x \in {o} |-> n]
    PROVE  /\ DOMAIN events' = DOMAIN events \cup {o}
           /\ IsFiniteSet(DOMAIN events') /\ events' \in [DOMAIN events' -> Nat \ {0}]
           /\ \A x \in DOMAIN events \ {o} : events'[x] = events[x]
           /\ events'[o] = (IF o \in DOMAIN events THEN events[o] ELSE 0) + n
<1>1. events' = [x \in DOMAIN events \cup {o} |->
                   (IF x \in DOMAIN events THEN events[x] ELSE 0) + (IF x \in {o} THEN n ELSE 0)]
  BY DEF (+)
<1>2. IsFiniteSet(DOMAIN events \cup {o})
  BY FS_AddElement DEF TypeInv
<1>3. \A x \in DOMAIN events : events[x] \in Nat \ {0}
  BY DEF TypeInv
<1>4. QED
  BY <1>1, <1>2, <1>3

\* What a count is of: observations that are recorded.
LEMMA CountType ==
    ASSUME TypeInv, NEW S \in SUBSET DOMAIN events
    PROVE  /\ IsFiniteSet(S) /\ \A x \in S : events[x] \in Nat \ {0}
           /\ CountOf(S) \in Nat
           /\ CountOf(S) = 0 <=> S = {}
           /\ \A T \in SUBSET S : /\ CountOf(T) \in Nat /\ CountOf(T) <= CountOf(S)
                                  /\ CountOf(S \ T) = CountOf(S) - CountOf(T)
<1>1. IsFiniteSet(S) /\ \A x \in S : events[x] \in Nat \ {0}
  BY FS_Subset DEF TypeInv
<1>2. CountOf(S) \in Nat
  BY <1>1, SumType DEF CountOf
<1>3. \A T \in SUBSET S : /\ CountOf(T) \in Nat /\ CountOf(T) <= CountOf(S)
                          /\ CountOf(S \ T) = CountOf(S) - CountOf(T)
  <2>1. SUFFICES ASSUME NEW T \in SUBSET S
                 PROVE  /\ CountOf(T) \in Nat /\ CountOf(T) <= CountOf(S)
                        /\ CountOf(S \ T) = CountOf(S) - CountOf(T)
    OBVIOUS
  <2>2. /\ CountOf(T) \in Nat /\ CountOf(T) <= CountOf(S)
        /\ CountOf(S) = CountOf(T) + CountOf(S \ T)
    <3>1. \A x \in S : events[x] \in Nat
      BY <1>1
    <3>2. /\ SumFunctionOnSet(events, T) \in Nat /\ SumFunctionOnSet(events, S) \in Nat
          /\ SumFunctionOnSet(events, S) = SumFunctionOnSet(events, T) + SumFunctionOnSet(events, S \ T)
          /\ SumFunctionOnSet(events, T) <= SumFunctionOnSet(events, S)
      BY <1>1, <3>1, SumOfPart
    <3>3. QED
      BY ONLY <3>2 DEF CountOf
  <2>3. CountOf(S \ T) \in Nat
    BY <1>1, SumType, FS_Subset DEF CountOf
  <2>4. QED
    BY <1>2, <2>2, <2>3
<1>4. CountOf({}) = 0
  BY SumEmpty DEF CountOf
<1>5. S # {} => CountOf(S) # 0
  <2>1. SUFFICES ASSUME S # {} PROVE CountOf(S) # 0
    OBVIOUS
  <2>2. PICK x \in S : TRUE
    BY <2>1
  <2>3. /\ SumFunctionOnSet(events, S \ {x}) \in Nat
        /\ CountOf(S) = events[x] + SumFunctionOnSet(events, S \ {x})
    <3>1. IsFiniteSet(S) /\ x \in S /\ \A y \in S : events[y] \in Nat
      BY <1>1
    <3>2. /\ SumFunctionOnSet(events, S \ {x}) \in Nat
          /\ SumFunctionOnSet(events, S) = events[x] + SumFunctionOnSet(events, S \ {x})
      BY ONLY <3>1, SumRemove
    <3>3. QED
      BY ONLY <3>2 DEF CountOf
  <2>4. QED
    BY <1>1, <2>3
<1>6. QED
  BY <1>1, <1>2, <1>3, <1>4, <1>5

\* A retention run leaves a part of the bag as it is.
LEMMA Purged ==
    ASSUME TypeInv, PurgeEvents
    PROVE  /\ DOMAIN events' \subseteq DOMAIN events /\ IsFiniteSet(DOMAIN events')
           /\ events' \in [DOMAIN events' -> Nat \ {0}]
           /\ \A x \in DOMAIN events' : events'[x] = events[x]
<1>1. PICK S \in SUBSET DOMAIN events : events' = [x \in S |-> events[x]]
  BY DEF PurgeEvents, Restrict
<1>2. IsFiniteSet(S)
  BY FS_Subset DEF TypeInv
<1>3. \A x \in S : events[x] \in Nat \ {0}
  BY DEF TypeInv
<1>4. QED
  BY <1>1, <1>2, <1>3

\* A window that is accepted has its ends in order.
LEMMA WindowIsOrdered ==
    ASSUME NEW op \in {"summary", "timeseries", "breakdown", "health"}, Begin(op), TypeInv
    PROVE  /\ q' \in [from : Int, to : Int, inbox : Inboxes \cup {""}] /\ q'.from <= q'.to
           /\ limit' \in Nat /\ pc' # "group"
<1>1. limit' \in Nat
  <2>1. \A n \in Limits : NormalizedLimit(n) \in Nat
    BY MonitoringAssumption DEF NormalizedLimit
  <2>2. DefaultLimit \in Nat
    BY MonitoringAssumption
  <2>3. QED
    BY <2>1, <2>2 DEF Begin
<1>2. pc' # "group"
  BY DEF Begin, FirstStep
<1>3. PICK from, to, now, inbox :
         /\ from \in Times \cup {Absent} /\ to \in Times \cup {Absent} /\ now \in Times
         /\ inbox \in Inboxes \cup {""}
         /\ LET w == Window(from, to, now)
            IN  \/ UNCHANGED q
                \/ ~ (w.from > w.to) /\ q' = [from |-> w.from, to |-> w.to, inbox |-> inbox]
  BY DEF Begin, Refused
<1>4. from \in Int /\ to \in Int /\ now \in Int /\ DefaultWindow \in Int
  <2>1. Times \subseteq Int /\ Absent \in Int /\ DefaultWindow \in Int
    <3>1. DefaultWindow \in Nat /\ MaxTime \in Nat
      BY MonitoringAssumption, WindowAssumption
    <3>2. QED
      BY <3>1 DEF Times, Absent
  <2>2. QED
    BY ONLY <1>3, <2>1
<1>5. Window(from, to, now).from \in Int /\ Window(from, to, now).to \in Int
  <2>1. CASE from = Absent /\ to = Absent
    <3>1. Window(from, to, now) = [from |-> now - DefaultWindow, to |-> now]
      BY <2>1 DEF Window
    <3>2. QED
      BY ONLY <1>4, <3>1
  <2>2. CASE from # Absent /\ to = Absent
    <3>1. Window(from, to, now) = [from |-> from, to |-> from + DefaultWindow]
      BY <2>2 DEF Window
    <3>2. QED
      BY ONLY <1>4, <3>1
  <2>3. CASE from = Absent /\ to # Absent
    <3>1. Window(from, to, now) = [from |-> to - DefaultWindow, to |-> to]
      BY <2>3 DEF Window
    <3>2. QED
      BY ONLY <1>4, <3>1
  <2>4. CASE from # Absent /\ to # Absent
    BY <1>4, <2>4 DEF Window
  <2>5. QED
    BY <2>1, <2>2, <2>3, <2>4
<1>6. CASE UNCHANGED q
  BY <1>1, <1>2, <1>6 DEF TypeInv
<1>7. CASE ~ UNCHANGED q
  <2>1. PICK w : w = Window(from, to, now)
    OBVIOUS
  <2>2. w.from \in Int /\ w.to \in Int /\ ~ (w.from > w.to)
        /\ q' = [from |-> w.from, to |-> w.to, inbox |-> inbox]
    <3>1. ~ (w.from > w.to) /\ q' = [from |-> w.from, to |-> w.to, inbox |-> inbox]
      BY <1>3, <1>7, <2>1
    <3>2. QED
      BY <1>5, <2>1, <3>1
  <2>3. q'.from = w.from /\ q'.to = w.to /\ w.from <= w.to
    BY <2>2
  <2>4. q' \in [from : Int, to : Int, inbox : Inboxes \cup {""}]
    BY ONLY <1>3, <2>2
  <2>5. QED
    BY <1>1, <1>2, <2>3, <2>4
<1>8. QED
  BY <1>6, <1>7

\* No query, between two.
LEMMA NoQueryTypes ==
    /\ NoQuery \in [from : Int, to : Int, inbox : Inboxes \cup {""}] /\ NoQuery.from <= NoQuery.to
    /\ DefaultLimit \in Nat
<1>1. DefaultLimit \in Nat
  BY MonitoringAssumption
<1>2. QED
  BY <1>1 DEF NoQuery

\* Every step keeps the types.
LEMMA TypesKept == ASSUME TypeInv, [Next]_vars PROVE TypeInv'
<1> USE DEF store, call
<1>1. ASSUME NEW o \in Observations, NEW n \in Bursts, RecordHookObservation(o, n)
      PROVE TypeInv'
  <2>1. n \in Nat \ {0}
    BY MonitoringAssumption
  <2>2. /\ UNCHANGED <<backend, pc, q, limit, total>>
        /\ events' = events (+) [x \in {o} |-> n]
        /\ since' = since \/ since' = since + n
    BY <1>1 DEF RecordHookObservation
  <2>3. /\ DOMAIN events' = DOMAIN events \cup {o}
        /\ IsFiniteSet(DOMAIN events') /\ events' \in [DOMAIN events' -> Nat \ {0}]
    BY <2>1, <2>2, Recorded
  <2>4. pc' = "group" => total' \in Nat /\ since' \in Nat
    <3>1. SUFFICES ASSUME pc = "group" PROVE total \in Nat /\ since' \in Nat
      BY <2>2
    <3>2. total \in Nat /\ since \in Nat
      BY <3>1 DEF TypeInv
    <3>3. since' = since \/ since' = since + n
      BY <2>2
    <3>4. QED
      BY ONLY <2>1, <3>2, <3>3
  <2>5. QED
    BY <2>2, <2>3, <2>4 DEF TypeInv
<1>2. CASE PurgeEvents
  <2>1. UNCHANGED <<backend, pc, q, limit, total, since>>
    BY <1>2 DEF PurgeEvents
  <2>2. QED
    BY <1>2, <2>1, Purged DEF TypeInv
<1>3. ASSUME NEW i \in Inboxes, CreateInbox(i) \/ SoftDeleteInbox(i) PROVE TypeInv'
  BY <1>3 DEF CreateInbox, SoftDeleteInbox, TypeInv
<1>4. ASSUME NEW op \in {"summary", "timeseries", "breakdown", "health"}, Begin(op) PROVE TypeInv'
  <2>1. UNCHANGED <<backend, events>>
    BY <1>4 DEF Begin
  <2>2. QED
    BY <1>4, <2>1, WindowIsOrdered DEF TypeInv
<1>5. CASE GetMonitoringSummary \/ GetMonitoringTimeseries \/ BreakdownInMemory
           \/ GroupEvents \/ HealthInMemory \/ SelectInboxes \/ SelectStats \/ Fail
  <2>1. UNCHANGED <<backend, events, q, limit>> /\ pc' # "group"
    BY <1>5 DEF GetMonitoringSummary, GetMonitoringTimeseries, BreakdownInMemory, GroupEvents,
       HealthInMemory, SelectInboxes, SelectStats, Fail, Answer
  <2>2. QED
    BY <2>1 DEF TypeInv
<1>6. CASE CountEvents
  <2>1. Matching \in SUBSET DOMAIN events
    BY DEF Matching
  <2>2. CountOf(Matching) \in Nat
    BY <2>1, CountType
  <2>3. QED
    BY <1>6, <2>2 DEF CountEvents, TypeInv
<1>7. CASE Leave
  <2>1. UNCHANGED <<backend, events>> /\ pc' = "idle" /\ q' = NoQuery /\ limit' = DefaultLimit
    BY <1>7 DEF Leave
  <2>2. QED
    BY <2>1, NoQueryTypes DEF TypeInv
<1>8. CASE UNCHANGED vars
  BY <1>8 DEF vars, TypeInv
<1>9. QED
  BY <1>1, <1>2, <1>3, <1>4, <1>5, <1>6, <1>7, <1>8 DEF Next, Others, Query

\* The types, before anything is recorded.
LEMMA TypesFirst == ASSUME Init PROVE TypeInv
<1>1. DOMAIN events = {}
  BY DEF Init, EmptyBag, SetToBag
<1>2. events \in [DOMAIN events -> Nat \ {0}]
  BY DEF Init, EmptyBag, SetToBag
<1>3. QED
  BY <1>1, <1>2, FS_EmptySet, NoQueryTypes DEF Init, TypeInv

\* Every step keeps the counts of a breakdown under way.
LEMMA CountedSinceKept == ASSUME TypeInv, CountedSince, [Next]_vars PROVE CountedSince'
<1> USE DEF store, call
<1>1. ASSUME NEW o \in Observations, NEW n \in Bursts, RecordHookObservation(o, n)
      PROVE CountedSince'
  <2>1. SUFFICES ASSUME pc' = "group" PROVE (CountOf(Matching))' <= total' + since'
    BY DEF CountedSince
  <2>2. n \in Nat \ {0}
    BY MonitoringAssumption
  <2>3. /\ UNCHANGED <<backend, pc, q, total>> /\ pc = "group"
        /\ events' = events (+) [x \in {o} |-> n]
        /\ since' = IF Matches(o) THEN since + n ELSE since
    BY <1>1, <2>1 DEF RecordHookObservation
  <2>4. \A x : Matches(x)' <=> Matches(x)
    BY <2>3 DEF Matches, InWindow, IsWithin
  <2>5. PICK S : S = Matching
    OBVIOUS
  <2>6. PICK f : f = events
    OBVIOUS
  <2>7. PICK g : g = events'
    OBVIOUS
  <2>8. /\ IsFiniteSet(S) /\ (\A x \in S : f[x] \in Nat)
        /\ SumFunctionOnSet(f, S) \in Nat /\ SumFunctionOnSet(f, S) <= total + since
        /\ total \in Nat /\ since \in Nat
    <3>1. S \in SUBSET DOMAIN events
      BY <2>5 DEF Matching
    <3>2. IsFiniteSet(S) /\ (\A x \in S : events[x] \in Nat) /\ CountOf(S) \in Nat
      BY <3>1, CountType
    <3>3. QED
      BY <2>3, <2>5, <2>6, <3>2 DEF CountedSince, CountOf, TypeInv
  <2>9. /\ DOMAIN g = DOMAIN f \cup {o}
        /\ \A x \in DOMAIN f \ {o} : g[x] = f[x]
        /\ g[o] = (IF o \in DOMAIN f THEN f[o] ELSE 0) + n
    BY <2>2, <2>3, <2>6, <2>7, Recorded
  <2>10. Matching' = IF Matches(o) THEN S \cup {o} ELSE S
    BY <2>4, <2>5, <2>6, <2>7, <2>9 DEF Matching
  <2>11. (CountOf(Matching))' = SumFunctionOnSet(g, Matching')
    BY <2>7 DEF CountOf
  <2>12. o \in S <=> o \in DOMAIN f /\ Matches(o)
    BY <2>5, <2>6 DEF Matching
  <2>13. \A x \in S : x \in DOMAIN f
    BY <2>5, <2>6 DEF Matching
  <2>14. CASE ~ Matches(o)
    <3>1. \A x \in S : g[x] = f[x]
      BY <2>9, <2>12, <2>13, <2>14
    <3>2. SumFunctionOnSet(g, S) = SumFunctionOnSet(f, S)
      BY <2>8, <3>1, SumSame
    <3>3. QED
      BY <2>3, <2>8, <2>10, <2>11, <2>14, <3>2
  <2>15. CASE Matches(o) /\ o \in DOMAIN f
    <3>1. o \in S /\ S \cup {o} = S /\ g[o] = f[o] + n /\ f[o] \in Nat
      BY <2>8, <2>9, <2>12, <2>15
    <3>2. \A x \in S : f[x] \in Nat /\ (x # o => g[x] = f[x])
      BY <2>8, <2>9, <2>13
    <3>3. g[o] \in Nat
      BY <2>2, <3>1
    <3>4. SumFunctionOnSet(g, S) = SumFunctionOnSet(f, S) - f[o] + g[o]
      BY <2>8, <3>1, <3>2, <3>3, SumChange
    <3>5. SumFunctionOnSet(g, S) = SumFunctionOnSet(f, S) + n
      BY <2>2, <2>8, <3>1, <3>4
    <3>6. (CountOf(Matching))' = SumFunctionOnSet(f, S) + n /\ since' = since + n /\ total' = total
      BY <2>3, <2>10, <2>11, <2>15, <3>1, <3>5
    <3>7. QED
      BY <2>2, <2>8, <3>6
  <2>16. CASE Matches(o) /\ o \notin DOMAIN f
    <3>1. o \notin S /\ g[o] = n
      BY <2>2, <2>9, <2>12, <2>16
    <3>2. \A x \in S : g[x] = f[x] /\ g[x] \in Nat
      BY <2>8, <2>9, <2>13, <3>1
    <3>3. SumFunctionOnSet(g, S) = SumFunctionOnSet(f, S)
      BY <2>8, <3>2, SumSame
    <3>4. SumFunctionOnSet(g, S \cup {o}) = g[o] + SumFunctionOnSet(g, S)
      <4>1. \A x \in S \cup {o} : g[x] \in Nat
        BY <2>2, <3>1, <3>2
      <4>2. QED
        BY <2>8, <3>1, <4>1, SumAdd
    <3>5. QED
      BY <2>2, <2>3, <2>8, <2>10, <2>11, <2>16, <3>1, <3>3, <3>4
  <2>17. QED
    BY <2>14, <2>15, <2>16
<1>2. CASE PurgeEvents
  <2>1. UNCHANGED <<backend, pc, q, total, since>>
    BY <1>2 DEF PurgeEvents
  <2>2. SUFFICES ASSUME pc = "group" PROVE (CountOf(Matching))' <= total + since
    BY <2>1 DEF CountedSince
  <2>3. /\ DOMAIN events' \subseteq DOMAIN events
        /\ \A x \in DOMAIN events' : events'[x] = events[x]
    BY <1>2, Purged
  <2>4. PICK S, T, f, g : S = Matching /\ T = Matching' /\ f = events /\ g = events'
    OBVIOUS
  <2>5. T \in SUBSET S /\ S \in SUBSET DOMAIN events /\ T \subseteq DOMAIN events'
    BY <2>1, <2>3, <2>4 DEF Matching, Matches, InWindow, IsWithin
  <2>6. /\ IsFiniteSet(S) /\ IsFiniteSet(T) /\ (\A x \in T : f[x] \in Nat /\ g[x] = f[x])
        /\ CountOf(T) \in Nat /\ CountOf(S) \in Nat /\ CountOf(T) <= CountOf(S)
    BY <2>3, <2>4, <2>5, CountType, FS_Subset
  <2>7. SumFunctionOnSet(g, T) = SumFunctionOnSet(f, T)
    BY ONLY <2>6, SumSame
  <2>8. (CountOf(Matching))' = CountOf(T)
    BY <2>4, <2>7 DEF CountOf
  <2>9. CountOf(S) <= total + since /\ total \in Nat /\ since \in Nat
    BY <2>2, <2>4 DEF CountedSince, TypeInv
  <2>10. QED
    BY <2>6, <2>8, <2>9
<1>3. ASSUME NEW i \in Inboxes, CreateInbox(i) \/ SoftDeleteInbox(i) PROVE CountedSince'
  BY <1>3 DEF CreateInbox, SoftDeleteInbox, CountedSince, CountOf, Matching, Matches, InWindow, IsWithin
<1>4. CASE Query
  <2>1. pc' = "group" => CountEvents
    BY <1>4, WindowIsOrdered DEF Query, GetMonitoringSummary, GetMonitoringTimeseries, BreakdownInMemory,
       GroupEvents, HealthInMemory, SelectInboxes, SelectStats, Fail, Leave, Answer
  <2>2. CASE CountEvents
    <3>1. /\ total' = CountOf(Matching) /\ since' = 0
          /\ UNCHANGED <<backend, events, q>>
      BY <2>2 DEF CountEvents
    <3>2. (CountOf(Matching))' = CountOf(Matching)
      BY <3>1 DEF CountOf, Matching, Matches, InWindow, IsWithin
    <3>3. CountOf(Matching) \in Nat
      <4>1. Matching \in SUBSET DOMAIN events
        BY DEF Matching
      <4>2. QED
        BY <4>1, CountType
    <3>4. QED
      BY <3>1, <3>2, <3>3 DEF CountedSince
  <2>3. QED
    BY <2>1, <2>2 DEF CountedSince
<1>5. CASE UNCHANGED vars
  BY <1>5 DEF vars, CountedSince, CountOf, Matching, Matches, InWindow, IsWithin
<1>6. QED
  BY <1>1, <1>2, <1>3, <1>4, <1>5 DEF Next, Others

--------------------------------------------------------------------------------
\* What the answers count.

\* A window has observations that are recorded, with times and latencies.
LEMMA MatchingIsRecorded ==
    ASSUME TypeInv
    PROVE  /\ Matching \in SUBSET DOMAIN events
           /\ \A o \in DOMAIN events : o.at \in Int /\ o.latency \in Nat
<1>1. \A o \in Observation : o.at \in Int /\ o.latency \in Nat
  <2>1. MaxTime \in Nat
    BY MonitoringAssumption
  <2>2. QED
    BY <2>1 DEF Observation, Times
<1>2. DOMAIN events \subseteq Observation
  BY MonitoringAssumption DEF TypeInv
<1>3. QED
  BY <1>1, <1>2 DEF Matching

\* An aggregate is a histogram of what it counts.
LEMMA AggregateIsHistogram ==
    ASSUME TypeInv, NEW S \in SUBSET DOMAIN events
    PROVE  /\ IsHistogram(Aggregate(S))
           /\ Aggregate(S).requests = CountOf(S) /\ Aggregate(S).errors = CountOf(Errors(S))
           /\ \A b \in LatencyHistogramBoundsMs :
                Aggregate(S).buckets[b] = CountOf({o \in S : o.latency <= b})
<1> DEFINE Within(b) == {o \in S : o.latency <= b}
<1>1. /\ Aggregate(S).requests = CountOf(S) /\ Aggregate(S).errors = CountOf(Errors(S))
      /\ Aggregate(S).buckets = [b \in LatencyHistogramBoundsMs |-> CountOf(Within(b))]
      /\ Aggregate(S) = [requests |-> CountOf(S), errors |-> CountOf(Errors(S)),
                         buckets |-> [b \in LatencyHistogramBoundsMs |-> CountOf(Within(b))]]
  BY DEF Aggregate
<1>2. /\ CountOf(S) \in Nat
      /\ \A T \in SUBSET S : CountOf(T) \in Nat /\ CountOf(T) <= CountOf(S)
  BY CountType
<1>3. CountOf(Errors(S)) \in Nat
  BY <1>2 DEF Errors
<1>4. \A b \in LatencyHistogramBoundsMs : CountOf(Within(b)) \in Nat /\ CountOf(Within(b)) <= CountOf(S)
  BY <1>2
<1>5. ASSUME NEW a \in LatencyHistogramBoundsMs, NEW b \in LatencyHistogramBoundsMs, a <= b
      PROVE  CountOf(Within(a)) <= CountOf(Within(b))
  <2>1. a \in Int /\ b \in Int /\ \A o \in S : o.latency \in Nat
    BY MatchingIsRecorded DEF LatencyHistogramBoundsMs
  <2>2. Within(a) \in SUBSET Within(b) /\ Within(b) \in SUBSET DOMAIN events
    BY <1>5, <2>1
  <2> HIDE DEF Within
  <2>3. QED
    BY <2>2, CountType
<1> HIDE DEF Within
<1>6. Aggregate(S) \in Aggregates
  BY <1>1, <1>2, <1>3, <1>4 DEF Aggregates
<1>7. IsHistogram(Aggregate(S))
  BY <1>1, <1>4, <1>5, <1>6 DEF IsHistogram
<1>8. QED
  BY <1>1, <1>7 DEF Within

\* The percentiles of an answer are those of what it counted.
LEMMA PercentileIsRight ==
    ASSUME TypeInv, NEW S \in SUBSET DOMAIN events, NEW percent \in Percents
    PROVE  IsPercentile(PercentileOfStore(Aggregate(S), percent), S, percent)
<1> DEFINE agg == Aggregate(S)
<1>1. /\ agg \in Aggregates /\ agg.requests = CountOf(S)
      /\ \A b \in LatencyHistogramBoundsMs : agg.buckets[b] = CountOf({o \in S : o.latency <= b})
  BY AggregateIsHistogram DEF IsHistogram
<1> HIDE DEF agg
<1>2. CASE CountOf(S) = 0
  BY <1>1, <1>2 DEF IsPercentile, PercentileOfStore, Percentile, agg
<1>3. CASE CountOf(S) # 0
  <2>1. LET p == PercentileOfStore(agg, percent)
            Meet(b) == agg.buckets[b] * 100 >= percent * agg.requests
        IN  /\ p \in LatencyHistogramBoundsMs
            /\ Meet(p) \/ p = 5000
            /\ \A b \in LatencyHistogramBoundsMs : b < p => ~ Meet(b)
    BY <1>1, <1>3, PercentileIsLeast
  <2>2. QED
    BY <1>1, <1>3, <2>1, BoundsMaximum DEF IsPercentile, agg
<1>4. QED
  BY <1>2, <1>3

\* The answer of a summary.
LEMMA SummaryStep ==
    ASSUME TypeInv, GetMonitoringSummary
    PROVE  /\ IF backend = "memory"
              THEN answer'.requests = CountWithin(q.from, q.to)
              ELSE /\ answer'.requests >= CountWithin(q.from + 2, q.to - 2)
                   /\ answer'.requests <= CountWithin(q.from - 1, q.to + 1)
           /\ IsPercentile(answer'.p95, Matching, 95)
           /\ IsPercentile(answer'.p99, Matching, 99)
<1> DEFINE Within(from, to) == {o \in DOMAIN events : Wanted(o) /\ from <= o.at /\ o.at <= to}
<1>1. /\ answer'.requests = CountOf(Matching)
      /\ answer'.p95 = PercentileOfStore(Aggregate(Matching), 95)
      /\ answer'.p99 = PercentileOfStore(Aggregate(Matching), 99)
  BY DEF GetMonitoringSummary, Answer, Point, Aggregate
<1>2. q.from \in Int /\ q.to \in Int
  BY DEF TypeInv
<1>3. Matching \in SUBSET DOMAIN events /\ \A o \in DOMAIN events : o.at \in Int
  BY MatchingIsRecorded
<1>4. ASSUME NEW o \in DOMAIN events
      PROVE  /\ o \in Matching <=> InWindow(o) /\ Wanted(o)
             /\ backend = "memory" => (InWindow(o) <=> q.from <= o.at /\ o.at <= q.to)
             /\ InWindow(o) => q.from - 1 <= o.at /\ o.at <= q.to + 1
             /\ q.from + 2 <= o.at /\ o.at <= q.to - 2 => InWindow(o)
  <2>1. o \in Matching <=> InWindow(o) /\ Wanted(o)
    BY DEF Matching, Matches, Wanted
  <2>2. /\ backend = "memory" => (InWindow(o) <=> q.from <= o.at /\ o.at <= q.to)
        /\ InWindow(o) => q.from - 1 <= o.at /\ o.at <= q.to + 1
        /\ q.from + 2 <= o.at /\ o.at <= q.to - 2 => InWindow(o)
    BY <1>2, <1>3, WindowToTheSecond
  <2>3. QED
    BY <2>1, <2>2
<1>5. backend = "memory" => Matching = Within(q.from, q.to)
  BY <1>3, <1>4
<1>6. /\ Within(q.from + 2, q.to - 2) \in SUBSET Matching
      /\ Matching \in SUBSET Within(q.from - 1, q.to + 1)
      /\ Within(q.from - 1, q.to + 1) \in SUBSET DOMAIN events
  BY <1>3, <1>4
<1>7. \A from, to : CountWithin(from, to) = CountOf(Within(from, to))
  BY DEF CountWithin
<1> HIDE DEF Within
<1>8. /\ CountOf(Within(q.from + 2, q.to - 2)) \in Nat /\ CountOf(Matching) \in Nat
      /\ CountOf(Within(q.from - 1, q.to + 1)) \in Nat
      /\ CountOf(Within(q.from + 2, q.to - 2)) <= CountOf(Matching)
      /\ CountOf(Matching) <= CountOf(Within(q.from - 1, q.to + 1))
  BY <1>3, <1>6, CountType
<1>9. IF backend = "memory"
      THEN answer'.requests = CountWithin(q.from, q.to)
      ELSE /\ answer'.requests >= CountWithin(q.from + 2, q.to - 2)
           /\ answer'.requests <= CountWithin(q.from - 1, q.to + 1)
  BY <1>1, <1>5, <1>7, <1>8
<1>10. QED
  BY <1>1, <1>3, <1>9, PercentileIsRight DEF Percents

\* The step that answers, by where the query was.
LEMMA AnsweringStep ==
    ASSUME Next, pc' = "answered"
    PROVE  /\ pc = "summary" => GetMonitoringSummary
           /\ pc = "timeseries" => GetMonitoringTimeseries
           /\ pc = "breakdown" => BreakdownInMemory
           /\ pc = "group" => GroupEvents
           /\ pc = "health" => HealthInMemory
           /\ pc = "inboxes" => SelectInboxes
           /\ pc = "stats" => SelectStats
BY DEF Next, Others, Query, RecordHookObservation, PurgeEvents, CreateInbox, SoftDeleteInbox, Begin,
   GetMonitoringSummary, GetMonitoringTimeseries, BreakdownInMemory, CountEvents, GroupEvents,
   HealthInMemory, SelectInboxes, SelectStats, Fail, Leave, call

\* The types hold, whatever is recorded, purged and asked.
THEOREM TypeCorrect == Spec => []TypeInv
<1>1. TypeInv /\ [Next]_vars => TypeInv'
  BY TypesKept
<1>2. QED
  BY <1>1, TypesFirst, PTL DEF Spec

\* A summary counts what its window holds, for any bag of observations and any
\* window: exactly in memory, to the second in SQL; and its percentiles are
\* those of what it counted.
THEOREM SummaryIsRightHolds == Spec => SummaryIsRight
<1>1. ASSUME TypeInv, Next, Answering({"summary"})
      PROVE  /\ IF backend = "memory"
                THEN answer'.requests = CountWithin(q.from, q.to)
                ELSE /\ answer'.requests >= CountWithin(q.from + 2, q.to - 2)
                     /\ answer'.requests <= CountWithin(q.from - 1, q.to + 1)
             /\ IsPercentile(answer'.p95, Matching, 95)
             /\ IsPercentile(answer'.p99, Matching, 99)
  <2>1. GetMonitoringSummary
    BY <1>1, AnsweringStep DEF Answering
  <2>2. QED
    BY <1>1, <2>1, SummaryStep
<1>2. TypeInv /\ [Next]_vars
         => [Answering({"summary"}) =>
               /\ IF backend = "memory"
                  THEN answer'.requests = CountWithin(q.from, q.to)
                  ELSE /\ answer'.requests >= CountWithin(q.from + 2, q.to - 2)
                       /\ answer'.requests <= CountWithin(q.from - 1, q.to + 1)
               /\ IsPercentile(answer'.p95, Matching, 95)
               /\ IsPercentile(answer'.p99, Matching, 99)]_vars
  BY <1>1
<1>3. QED
  BY <1>2, TypeCorrect, PTL DEF Spec, SummaryIsRight

\* What the health makes of the observations of an inbox.
LEMMA HealthOfObservations ==
    ASSUME TypeInv, NEW his \in SUBSET DOMAIN events
    PROVE  LET state == HealthState(Aggregate(his))
               slow == {o \in his : o.latency > 250}
           IN  /\ state = "no_traffic" <=> his = {}
               /\ state = "unstable" <=> /\ his # {}
                                         /\ \/ CountOf(Errors(his)) * 50 >= CountOf(his)
                                            \/ CountOf(slow) * 20 > CountOf(his)
<1> DEFINE agg == Aggregate(his)
           slow == {o \in his : o.latency > 250}
           quick == {o \in his : o.latency <= 250}
<1>1. /\ IsHistogram(agg) /\ agg.requests = CountOf(his) /\ agg.errors = CountOf(Errors(his))
      /\ agg.buckets[250] = CountOf(quick)
  <2>1. 250 \in LatencyHistogramBoundsMs
    BY DEF LatencyHistogramBoundsMs
  <2>2. /\ IsHistogram(agg) /\ agg.requests = CountOf(his) /\ agg.errors = CountOf(Errors(his))
        /\ \A b \in LatencyHistogramBoundsMs : agg.buckets[b] = CountOf({o \in his : o.latency <= b})
    BY AggregateIsHistogram
  <2>3. QED
    BY <2>1, <2>2
<1>2. slow = his \ quick /\ quick \in SUBSET his
  BY MatchingIsRecorded
<1>3. /\ CountOf(his) \in Nat
      /\ CountOf(his) = 0 <=> his = {}
      /\ \A T \in SUBSET his : CountOf(his \ T) = CountOf(his) - CountOf(T)
  BY CountType
<1> HIDE DEF agg, slow, quick
<1>4. CountOf(slow) = agg.requests - agg.buckets[250]
  BY <1>1, <1>2, <1>3
<1>5. HealthState(agg) = "unstable" <=> /\ his # {}
                                        /\ \/ CountOf(Errors(his)) * 50 >= CountOf(his)
                                           \/ CountOf(slow) * 20 > CountOf(his)
  BY <1>1, <1>3, <1>4, UnstableIsRight
<1>6. HealthState(agg) = "no_traffic" <=> his = {}
  <2>1. CASE his = {}
    BY <1>1, <1>3, <2>1 DEF HealthState
  <2>2. CASE his # {}
    <3>1. agg.requests # 0 /\ agg.requests > 0
      BY <1>1, <1>3, <2>2
    <3>2. HealthState(agg) # "no_traffic"
      BY <3>1 DEF HealthState
    <3>3. QED
      BY <2>2, <3>2
  <2>3. QED
    BY <2>1, <2>2
<1>7. QED
  BY <1>5, <1>6 DEF agg, slow

\* The health names every inbox by what it counted, for any bag of observations,
\* and lists every inbox asked for that was live all the while.
THEOREM HealthIsTrueHolds == Spec => HealthIsTrue
<1> DEFINE Named(i) ==
             LET his  == {o \in Matching : o.inbox = i}
                 slow == {o \in his : o.latency > 250}
             IN  /\ answer'[i] = "no_traffic" <=> his = {}
                 /\ answer'[i] = "unstable" <=>
                       /\ his # {}
                       /\ \/ CountOf(Errors(his)) * 50 >= CountOf(his)
                          \/ CountOf(slow) * 20 > CountOf(his)
           Asking == Answering({"health", "inboxes", "stats"})
<1>1. ASSUME TypeInv, Next, Asking PROVE \A i \in DOMAIN answer' : Named(i)
  <2>1. ASSUME NEW ids, answer' = Health(ids), NEW i \in DOMAIN answer'
        PROVE  Named(i)
    <3> DEFINE his == {o \in Matching : o.inbox = i}
    <3>1. his \in SUBSET DOMAIN events
      BY <1>1, MatchingIsRecorded
    <3>2. answer'[i] = HealthState(Aggregate(his))
      BY <2>1 DEF Health
    <3> HIDE DEF his
    <3>3. LET slow == {o \in his : o.latency > 250}
          IN  /\ answer'[i] = "no_traffic" <=> his = {}
              /\ answer'[i] = "unstable" <=> /\ his # {}
                                             /\ \/ CountOf(Errors(his)) * 50 >= CountOf(his)
                                                \/ CountOf(slow) * 20 > CountOf(his)
      BY <1>1, <3>1, <3>2, HealthOfObservations
    <3>4. QED
      BY <3>3 DEF his
  <2>2. HealthInMemory \/ SelectInboxes \/ SelectStats
    BY <1>1, AnsweringStep DEF Answering
  <2>3. CASE HealthInMemory \/ SelectStats
    <3>1. \E ids : answer' = Health(ids)
      BY <2>3 DEF HealthInMemory, SelectStats, Answer
    <3>2. QED
      BY <2>1, <3>1
  <2>4. CASE SelectInboxes
    <3>1. answer' = <<>>
      BY <1>1, <2>4 DEF SelectInboxes, Answer, Answering
    <3>2. DOMAIN answer' = {}
      BY <3>1
    <3>3. QED
      BY <3>2
  <2>5. QED
    BY <2>2, <2>3, <2>4
<1> HIDE DEF Named, Asking
<1>2. TypeInv /\ [Next]_vars => [Asking => \A i \in DOMAIN answer' : Named(i)]_vars
  BY <1>1
<1>3. [Asking => ListsTheLive]_vars /\ [Asking => \A i \in DOMAIN answer' : Named(i)]_vars
         => [Asking => ListsTheLive /\ \A i \in DOMAIN answer' : Named(i)]_vars
  OBVIOUS
<1>4. Spec => [][Asking => ListsTheLive]_vars
  BY HealthListsTheLive DEF Asking
<1>5. Spec => [][Asking => ListsTheLive /\ \A i \in DOMAIN answer' : Named(i)]_vars
  BY <1>2, <1>3, <1>4, TypeCorrect, PTL DEF Spec
<1>6. QED
  BY <1>5, PTL DEF HealthIsTrue, Asking, Named

--------------------------------------------------------------------------------
\* The minutes of a time series.

\* A time series has a point for the minute of every observation it is about,
\* and for that its window ends in.
LEMMA MinutesCover ==
    ASSUME TypeInv
    PROVE  /\ IsFiniteSet(Minutes)
           /\ Bucket(q.to) \in Minutes
           /\ \A o \in Matching : Bucket(o.at) \in Minutes
<1>1. /\ q.from \in Int /\ q.to \in Int /\ q.from <= q.to
      /\ Minute \in Nat \ {0} /\ Minute % 2 = 0
  BY MonitoringAssumption DEF TypeInv
<1>2. \A t \in Int : Bucket(t) \in Int /\ Bucket(t) % Minute = 0
  BY <1>1, CutIsWhole DEF Bucket
<1>3. IsFiniteSet(Minutes)
  <2>1. IsFiniteSet(Bucket(q.from) .. Bucket(q.to))
    BY <1>1, <1>2, FS_Interval
  <2>2. Minutes \in SUBSET (Bucket(q.from) .. Bucket(q.to))
    BY DEF Minutes
  <2>3. QED
    BY <2>1, <2>2, FS_Subset
<1>4. ASSUME NEW t \in Int, Bucket(q.from) <= Bucket(t), Bucket(t) <= Bucket(q.to)
      PROVE  Bucket(t) \in Minutes
  <2>1. Bucket(t) \in Bucket(q.from) .. Bucket(q.to)
    BY <1>1, <1>2, <1>4
  <2>2. QED
    BY <1>2, <2>1 DEF Minutes
<1>5. Bucket(q.to) \in Minutes
  <2>1. Bucket(q.from) <= Bucket(q.to)
    BY <1>1, CutKeepsOrder DEF Bucket
  <2>2. Bucket(q.to) <= Bucket(q.to)
    BY <1>1, <1>2
  <2>3. QED
    BY <1>1, <1>4, <2>1, <2>2
<1>6. ASSUME NEW o \in Matching PROVE Bucket(o.at) \in Minutes
  <2>1. o.at \in Int /\ InWindow(o)
    BY MatchingIsRecorded DEF Matching, Matches
  <2>2. CASE backend = "memory"
    <3>1. q.from <= o.at /\ o.at <= q.to
      BY <2>1, <2>2 DEF InWindow, IsWithin
    <3>2. Bucket(q.from) <= Bucket(o.at) /\ Bucket(o.at) <= Bucket(q.to)
      BY <1>1, <2>1, <3>1, CutKeepsOrder DEF Bucket
    <3>3. QED
      BY <1>4, <2>1, <3>2
  <2>3. CASE backend # "memory"
    <3>1. ~ TextBefore(o.at, q.from) /\ ~ TextBefore(q.to, o.at)
      BY <2>1, <2>3, Zenon DEF InWindow, IsWithin
    <3>2. Bucket(q.from) <= Bucket(o.at) /\ Bucket(o.at) <= Bucket(q.to)
      BY <1>1, <2>1, <3>1, TextsKeepMinutes DEF Bucket
    <3>3. QED
      BY <1>4, <2>1, <3>2
  <2>4. QED
    BY <2>2, <2>3
<1>7. QED
  BY <1>3, <1>5, <1>6

\* Counts by the minute add up to the count.
LEMMA MinutesAddUp ==
    ASSUME TypeInv, NEW S \in SUBSET Matching, NEW h,
           \A m \in Minutes : h[m] = CountOf({o \in S : Bucket(o.at) = m})
    PROVE  SumFunctionOnSet(h, Minutes) = CountOf(S)
<1>1. PICK f, M, T, part :
         /\ f = events /\ M = Minutes /\ T = S
         /\ part = [m \in Minutes |-> {o \in S : Bucket(o.at) = m}]
  OBVIOUS
<1>2. S \in SUBSET DOMAIN events
  BY MatchingIsRecorded
<1>3. IsFiniteSet(T) /\ \A x \in T : f[x] \in Nat
  BY <1>1, <1>2, CountType
<1>4. IsFiniteSet(M) /\ \A o \in T : Bucket(o.at) \in M
  BY <1>1, MinutesCover
<1>5. part \in [M -> SUBSET T] /\ \A m \in M : part[m] = {o \in T : Bucket(o.at) = m}
  BY <1>1
<1>6. \A m \in M : h[m] = SumFunctionOnSet(f, part[m])
  BY <1>1, <1>5 DEF CountOf
<1>7. \A m, n \in M : m # n => part[m] \cap part[n] = {}
  BY <1>5
<1>8. SumFunctionOnSet(h, M) = SumFunctionOnSet(f, UNION {part[m] : m \in M})
  BY ONLY <1>3, <1>4, <1>5, <1>6, <1>7, SumOfParts
<1>9. UNION {part[m] : m \in M} = T
  BY <1>4, <1>5
<1>10. QED
  BY <1>1, <1>8, <1>9 DEF CountOf

\* The answer of a time series.
LEMMA SeriesStep ==
    ASSUME TypeInv, GetMonitoringTimeseries
    PROVE  /\ Bucket(q.to) \in DOMAIN answer'
           /\ SumOf([m \in DOMAIN answer' |-> answer'[m].requests]) = CountOf(Matching)
           /\ SumOf([m \in DOMAIN answer' |-> answer'[m].errors]) = CountOf(Errors(Matching))
           /\ answer'[Bucket(q.to)].requests = CountOf(InMinute(Bucket(q.to)))
<1> DEFINE requests == [m \in DOMAIN answer' |-> answer'[m].requests]
           errors == [m \in DOMAIN answer' |-> answer'[m].errors]
<1>1. answer' = [m \in Minutes |-> Point(InMinute(m))]
  BY DEF GetMonitoringTimeseries, Answer
<1>2. \A S : Point(S).requests = CountOf(S) /\ Point(S).errors = CountOf(Errors(S))
  BY DEF Point, Aggregate
<1>3. /\ DOMAIN answer' = Minutes
      /\ \A m \in Minutes : /\ answer'[m].requests = CountOf(InMinute(m))
                            /\ answer'[m].errors = CountOf(Errors(InMinute(m)))
  BY <1>1, <1>2
<1>4. Bucket(q.to) \in Minutes
  BY MinutesCover
<1>5. \A m \in Minutes : requests[m] = CountOf({o \in Matching : Bucket(o.at) = m})
  BY <1>3 DEF InMinute
<1>6. \A m \in Minutes : errors[m] = CountOf({o \in Errors(Matching) : Bucket(o.at) = m})
  <2>1. \A m : Errors(InMinute(m)) = {o \in Errors(Matching) : Bucket(o.at) = m}
    BY DEF Errors, InMinute
  <2>2. QED
    BY <1>3, <2>1
<1>7. DOMAIN requests = Minutes /\ DOMAIN errors = Minutes
  BY <1>3
<1> HIDE DEF requests, errors
<1>8. SumFunctionOnSet(requests, Minutes) = CountOf(Matching)
  BY <1>5, MinutesAddUp
<1>9. SumFunctionOnSet(errors, Minutes) = CountOf(Errors(Matching))
  <2>1. Errors(Matching) \in SUBSET Matching
    BY DEF Errors
  <2>2. QED
    BY <1>6, <2>1, MinutesAddUp
<1>10. SumOf(requests) = CountOf(Matching) /\ SumOf(errors) = CountOf(Errors(Matching))
  BY <1>7, <1>8, <1>9 DEF SumOf
<1>11. QED
  BY <1>3, <1>4, <1>10 DEF requests, errors

\* The points of a time series lose and repeat no observation, for any bag of
\* observations, any window and any length of a minute in whole seconds.
THEOREM SeriesAddsUpHolds == Spec => SeriesAddsUp
<1>1. ASSUME TypeInv, Next, Answering({"timeseries"})
      PROVE  /\ Bucket(q.to) \in DOMAIN answer'
             /\ SumOf([m \in DOMAIN answer' |-> answer'[m].requests]) = CountOf(Matching)
             /\ SumOf([m \in DOMAIN answer' |-> answer'[m].errors]) = CountOf(Errors(Matching))
             /\ answer'[Bucket(q.to)].requests = CountOf(InMinute(Bucket(q.to)))
  <2>1. GetMonitoringTimeseries
    BY <1>1, AnsweringStep DEF Answering
  <2>2. QED
    BY <1>1, <2>1, SeriesStep
<1>2. TypeInv /\ [Next]_vars
         => [Answering({"timeseries"}) =>
               /\ Bucket(q.to) \in DOMAIN answer'
               /\ SumOf([m \in DOMAIN answer' |-> answer'[m].requests]) = CountOf(Matching)
               /\ SumOf([m \in DOMAIN answer' |-> answer'[m].errors]) = CountOf(Errors(Matching))
               /\ answer'[Bucket(q.to)].requests = CountOf(InMinute(Bucket(q.to)))]_vars
  BY <1>1
<1>3. QED
  BY <1>2, TypeCorrect, PTL DEF Spec, SeriesAddsUp

--------------------------------------------------------------------------------
\* The order of a breakdown.

\* The groups are finitely many, and their counts are numbers.
LEMMA GroupsAreFinite ==
    ASSUME TypeInv
    PROVE  /\ IsFiniteSet(Groups) /\ Cardinality(Groups) \in Nat
           /\ Groups \subseteq Nat
           /\ \A v : GroupCount(v) \in Nat
<1>1. Matching \in SUBSET DOMAIN events /\ IsFiniteSet(Matching)
  BY MatchingIsRecorded, CountType
<1>2. \A o \in Matching : o.agent \in Nat
  <2>1. \A o \in Observation : o.agent \in Nat
    BY DEF Observation
  <2>2. Matching \subseteq Observation
    BY <1>1, MonitoringAssumption DEF TypeInv
  <2>3. QED
    BY <2>1, <2>2
<1>3. PICK f : f = [o \in Matching |-> o.agent]
  OBVIOUS
<1>4. PICK T : T = {o.agent : o \in Matching}
  OBVIOUS
<1>5. IsFiniteSet(T)
  <2>1. f \in Surjection(Matching, T)
    BY <1>3, <1>4 DEF Surjection
  <2>2. QED
    BY <1>1, <2>1, FS_Surjection
<1>6. Groups \in SUBSET T /\ T \subseteq Nat
  BY <1>2, <1>4 DEF Groups
<1>7. \A v : GroupCount(v) \in Nat
  <2>1. \A v : {o \in Matching : o.agent = v} \in SUBSET DOMAIN events
    BY <1>1
  <2>2. QED
    BY <2>1, CountType DEF GroupCount
<1>8. QED
  BY <1>5, <1>6, <1>7, FS_Subset, FS_CardinalityType

\* More frequent, or as frequent and first by value, is a strict total order.
LEMMA MoreFrequentOrders ==
    ASSUME TypeInv, NEW a \in Groups, NEW b \in Groups, NEW c \in Groups
    PROVE  /\ ~ MoreFrequent(a, a)
           /\ a # b => MoreFrequent(a, b) \/ MoreFrequent(b, a)
           /\ MoreFrequent(a, b) /\ MoreFrequent(b, c) => MoreFrequent(a, c)
           /\ MoreFrequent(a, b) => GroupCount(a) >= GroupCount(b)
<1>1. /\ a \in Nat /\ b \in Nat /\ c \in Nat
      /\ GroupCount(a) \in Nat /\ GroupCount(b) \in Nat /\ GroupCount(c) \in Nat
  BY GroupsAreFinite
<1>2. QED
  BY <1>1 DEF MoreFrequent

\* The breakdown is the beginning of the groups in that order.
LEMMA TopGroupsAreFirst ==
    ASSUME TypeInv
    PROVE  \E s \in [1 .. Cardinality(Groups) -> Groups] :
              /\ \A i, j \in 1 .. Cardinality(Groups) : i < j => MoreFrequent(s[i], s[j])
              /\ TopGroups = [i \in 1 .. Min({limit, Cardinality(Groups)}) |->
                                [value |-> s[i], count |-> GroupCount(s[i])]]
<1>1. PICK S, n, R : S = Groups /\ n = Cardinality(Groups)
                     /\ R = {p \in Groups \X Groups : MoreFrequent(p[1], p[2])}
  OBVIOUS
<1>2. IsFiniteSet(S) /\ n = Cardinality(S) /\ n \in Nat
  BY <1>1, GroupsAreFinite
<1>3. \A a, b \in S : <<a, b>> \in R <=> MoreFrequent(a, b)
  BY <1>1
<1>4. /\ \A a \in S : <<a, a>> \notin R
      /\ \A a, b \in S : a # b => <<a, b>> \in R \/ <<b, a>> \in R
      /\ \A a, b, c \in S : <<a, b>> \in R /\ <<b, c>> \in R => <<a, c>> \in R
  BY <1>1, <1>3, MoreFrequentOrders
<1>5. PICK r \in [1 .. n -> S] : \A i, j \in 1 .. n : i < j => <<r[i], r[j]>> \in R
  BY ONLY <1>2, <1>4, SortedExists
<1>6. \A i, j \in 1 .. n : i < j => MoreFrequent(r[i], r[j])
  BY <1>3, <1>5
<1>7. r \in SetToSeqs(Groups) /\ Len(r) = n
  <2>1. \A i, j \in 1 .. n : i # j => r[i] # r[j]
    <3>1. SUFFICES ASSUME NEW i \in 1 .. n, NEW j \in 1 .. n, i < j, r[i] = r[j] PROVE FALSE
      OBVIOUS
    <3>2. r[i] \in S /\ <<r[i], r[i]>> \in R
      BY <1>5, <3>1
    <3>3. QED
      BY <1>4, <3>2
  <2>2. r \in SetToSeqs(Groups)
    BY <1>1, <1>5, <2>1 DEF SetToSeqs
  <2>3. QED
    BY <1>2, <1>5, <2>2
<1> DEFINE all == CHOOSE s \in SetToSeqs(Groups) :
                     \A i, j \in 1 .. Len(s) : i < j => MoreFrequent(s[i], s[j])
<1>8. /\ all \in SetToSeqs(Groups)
      /\ \A i, j \in 1 .. Len(all) : i < j => MoreFrequent(all[i], all[j])
  BY <1>6, <1>7
<1>9. TopGroups = [i \in 1 .. Min({limit, Len(all)}) |-> [value |-> all[i], count |-> GroupCount(all[i])]]
  BY DEF TopGroups
<1> HIDE DEF all
<1>10. all \in [1 .. n -> Groups] /\ Len(all) = n
  <2>1. all \in [1 .. n -> Groups]
    BY <1>1, <1>8 DEF SetToSeqs
  <2>2. QED
    BY <1>2, <2>1
<1>11. QED
  BY <1>1, <1>8, <1>9, <1>10

\* A breakdown lists the most frequent groups, each once, and counts no
\* observation of its window twice.
LEMMA TopGroupsAreRight ==
    ASSUME TypeInv, answer' = TopGroups
    PROVE  LET in  == Range([i \in DOMAIN answer' |-> answer'[i].value])
               out == Groups \ in
           IN  /\ Len(answer') = Min({limit, Cardinality(Groups)})
               /\ Cardinality(in) = Len(answer') /\ in \subseteq Groups
               /\ \A a \in in, b \in out : GroupCount(a) >= GroupCount(b)
               /\ \A i, j \in DOMAIN answer' : i < j => answer'[i].count >= answer'[j].count
               /\ SumOf([i \in DOMAIN answer' |-> answer'[i].count]) \in Nat
               /\ SumOf([i \in DOMAIN answer' |-> answer'[i].count]) <= CountOf(Matching)
<1> DEFINE in  == Range([i \in DOMAIN answer' |-> answer'[i].value])
           counts == [i \in DOMAIN answer' |-> answer'[i].count]
<1>1. PICK n, k : n = Cardinality(Groups) /\ k = Min({limit, Cardinality(Groups)})
  OBVIOUS
<1>2. n \in Nat /\ k \in Nat /\ k <= n
  BY <1>1, GroupsAreFinite, MinOfTwo DEF TypeInv
<1>3. PICK s \in [1 .. n -> Groups] :
         /\ \A i, j \in 1 .. n : i < j => MoreFrequent(s[i], s[j])
         /\ answer' = [i \in 1 .. k |-> [value |-> s[i], count |-> GroupCount(s[i])]]
  BY <1>1, TopGroupsAreFirst
<1>4. \A i, j \in 1 .. n : s[i] = s[j] => i = j
  <2>1. SUFFICES ASSUME NEW i \in 1 .. n, NEW j \in 1 .. n, i < j, s[i] = s[j] PROVE FALSE
    OBVIOUS
  <2>2. s[i] \in Groups /\ MoreFrequent(s[i], s[i])
    BY <1>3, <2>1
  <2>3. QED
    BY <2>2, MoreFrequentOrders
<1>5. /\ DOMAIN answer' = 1 .. k /\ Len(answer') = k
      /\ \A i \in 1 .. k : i \in 1 .. n /\ answer'[i].value = s[i] /\ answer'[i].count = GroupCount(s[i])
  BY <1>2, <1>3
<1>6. in = HeldFrom(s, 1, k)
  BY <1>5 DEF Range, HeldFrom
<1>7. Cardinality(in) = k
  <2>1. \A i, j \in 1 .. k : s[i] = s[j] => i = j
    BY <1>4, <1>5
  <2>2. (IF 1 > k THEN 0 ELSE k - 1 + 1) = k
    BY <1>2
  <2>3. 1 \in Int /\ k \in Int
    BY <1>2
  <2>4. Cardinality(HeldFrom(s, 1, k)) = k
    BY ONLY <2>1, <2>2, <2>3, PlacesCount
  <2> HIDE DEF in
  <2>5. QED
    BY <1>6, <2>4
<1>8. in \subseteq Groups
  BY <1>3, <1>5, <1>6 DEF HeldFrom
<1>9. \A i, j \in 1 .. n : i < j => GroupCount(s[i]) >= GroupCount(s[j])
  BY <1>3, MoreFrequentOrders
<1>10. \A b \in Groups : \E j \in 1 .. n : s[j] = b
  <2>1. s \in Injection(1 .. n, Groups)
    BY <1>3, <1>4 DEF Injection, IsInjective
  <2>2. IsFiniteSet(Groups) /\ Cardinality(1 .. n) = Cardinality(Groups)
    BY <1>1, <1>2, GroupsAreFinite, FS_Interval
  <2>3. s \in Surjection(1 .. n, Groups)
    BY <2>1, <2>2, FS_Injection
  <2>4. QED
    BY <2>3 DEF Surjection
<1>11. ASSUME NEW a \in in, NEW b \in Groups \ in PROVE GroupCount(a) >= GroupCount(b)
  <2>1. PICK i \in 1 .. k : s[i] = a
    BY <1>6 DEF HeldFrom
  <2>2. PICK j \in 1 .. n : s[j] = b
    BY <1>10
  <2>3. j \notin 1 .. k
    BY <1>6, <2>2 DEF HeldFrom
  <2>4. i \in 1 .. n /\ i < j
    BY <1>2, <2>1, <2>2, <2>3
  <2>5. QED
    BY <1>9, <2>1, <2>2, <2>4
<1>12. \A i, j \in 1 .. k : i < j => answer'[i].count >= answer'[j].count
  BY <1>5, <1>9
<1>13. SumOf(counts) \in Nat /\ SumOf(counts) <= CountOf(Matching)
  <2>1. PICK f, S, M, part, h :
           /\ f = events /\ S = Matching /\ M = 1 .. k /\ h = counts
           /\ part = [i \in 1 .. k |-> {o \in Matching : o.agent = s[i]}]
    OBVIOUS
  <2>2. IsFiniteSet(S) /\ \A x \in S : f[x] \in Nat
    BY <2>1, MatchingIsRecorded, CountType
  <2>3. IsFiniteSet(M)
    BY <1>2, <2>1, FS_Interval
  <2>4. part \in [M -> SUBSET S]
    BY <2>1
  <2>5. \A m \in M : h[m] = SumFunctionOnSet(f, part[m])
    <3>1. \A m \in M : h[m] = GroupCount(s[m])
      BY <1>5, <2>1
    <3>2. QED
      BY <2>1, <3>1 DEF GroupCount, CountOf
  <2>6. \A m, i \in M : m # i => part[m] \cap part[i] = {}
    BY <1>4, <1>5, <2>1
  <2>7. SumFunctionOnSet(h, M) = SumFunctionOnSet(f, UNION {part[m] : m \in M})
    BY ONLY <2>2, <2>3, <2>4, <2>5, <2>6, SumOfParts
  <2>8. UNION {part[m] : m \in M} \in SUBSET S
    BY <2>4
  <2>9. /\ SumFunctionOnSet(f, UNION {part[m] : m \in M}) \in Nat
        /\ SumFunctionOnSet(f, UNION {part[m] : m \in M}) <= SumFunctionOnSet(f, S)
    BY ONLY <2>2, <2>8, SumOfPart
  <2>10. SumOf(counts) = SumFunctionOnSet(h, M)
    BY <1>5, <2>1 DEF SumOf
  <2>11. QED
    BY <2>1, <2>7, <2>9, <2>10 DEF CountOf
<1> HIDE DEF in, counts
<1>14. /\ Len(answer') = Min({limit, Cardinality(Groups)})
       /\ Cardinality(in) = Len(answer') /\ in \subseteq Groups
       /\ \A a \in in, b \in Groups \ in : GroupCount(a) >= GroupCount(b)
       /\ \A i, j \in DOMAIN answer' : i < j => answer'[i].count >= answer'[j].count
       /\ SumOf(counts) \in Nat /\ SumOf(counts) <= CountOf(Matching)
  BY <1>1, <1>5, <1>7, <1>8, <1>11, <1>12, <1>13
<1>15. QED
  BY <1>14 DEF in, counts

\* A breakdown lists the most frequent values in their order, for any bag of
\* observations and any limit, and they are no more than its total and what was
\* recorded between its two statements, whatever the retention purges there.
THEOREM BreakdownIsTopHolds == Spec => BreakdownIsTop
<1> DEFINE Right == LET in  == Range([i \in DOMAIN answer' |-> answer'[i].value])
                        out == Groups \ in
                    IN  /\ Len(answer') = Min({limit, Cardinality(Groups)})
                        /\ Cardinality(in) = Len(answer') /\ in \subseteq Groups
                        /\ \A a \in in, b \in out : GroupCount(a) >= GroupCount(b)
                        /\ \A i, j \in DOMAIN answer' : i < j => answer'[i].count >= answer'[j].count
                        /\ SumOf([i \in DOMAIN answer' |-> answer'[i].count]) <= total' + since'
           Asking == Answering({"breakdown", "group"})
<1>1. Init => CountedSince
  BY DEF Init, CountedSince
<1>2. TypeInv /\ CountedSince /\ [Next]_vars => CountedSince'
  BY CountedSinceKept
<1>3. ASSUME TypeInv, CountedSince, Next, Asking PROVE Right
  <2>1. BreakdownInMemory \/ GroupEvents
    BY <1>3, AnsweringStep DEF Answering
  <2>2. answer' = TopGroups
    BY <2>1 DEF BreakdownInMemory, GroupEvents, Answer
  <2>3. CountOf(Matching) \in Nat
    BY <1>3, MatchingIsRecorded, CountType
  <2>4. total' \in Nat /\ since' \in Nat /\ CountOf(Matching) <= total' + since'
    <3>1. CASE BreakdownInMemory
      BY <2>3, <3>1 DEF BreakdownInMemory
    <3>2. CASE GroupEvents
      <4>1. total' = total /\ since' = since /\ pc = "group"
        BY <3>2 DEF GroupEvents
      <4>2. QED
        BY <1>3, <4>1 DEF TypeInv, CountedSince
    <3>3. QED
      BY <2>1, <3>1, <3>2
  <2>5. PICK sum : sum = SumOf([i \in DOMAIN answer' |-> answer'[i].count])
    OBVIOUS
  <2>6. sum \in Nat /\ sum <= CountOf(Matching)
    BY <1>3, <2>2, <2>5, TopGroupsAreRight
  <2>7. sum <= total' + since'
    <3>1. \A a, b, c, d \in Nat : a <= b /\ b <= c + d => a <= c + d
      OBVIOUS
    <3>2. QED
      BY ONLY <2>3, <2>4, <2>6, <3>1
  <2>8. QED
    BY <1>3, <2>2, <2>5, <2>7, TopGroupsAreRight
<1> HIDE DEF Right, Asking
<1>4. TypeInv /\ CountedSince /\ [Next]_vars => [Asking => Right]_vars
  BY <1>3
<1>5. Spec => [][Asking => Right]_vars
  BY <1>1, <1>2, <1>4, TypeCorrect, PTL DEF Spec
<1>6. QED
  BY <1>5, PTL DEF BreakdownIsTop, Asking, Right
================================================================================
