# Webhook Catcher in TLA+

A verification project for the Webhook Catcher backend: a Go HTTP server that
captures webhooks sent to `/hook/{token}`, stores them per inbox (in memory or in
SQLite), streams them to clients and keeps monitoring counts. The modules here model
its concurrent parts and its queries, TLC checks them on small instances, and TLAPS
proves all of the checked safety properties for instances of any size. All paths below are
relative to the repository (`src/...`); `PROJECT.json` has the map from each TLA+
definition to the lines it stands for.

## 1. The system

### Components

| component | source | state | operations | modelled in |
|---|---|---|---|---|
| Capture endpoint | `httpapi/handler.go` `handleCapture`, `service/service.go` | none of its own; per call: status, inbox of the observation | one delivery: two lookups, body, insert, publish, deferred observation | `Capture`, contract `HookContract` |
| Inbox management | `handler.go`, `service.go`, both stores | inbox rows: status, retention, deletion | create, list, get, patch, soft delete | effects in `Capture`, `Idempotency`, `Retention`; PATCH and its answer in `InboxAPI` |
| Idempotent creation | `handler.go` `handleCreateInbox`, `readIdempotencyResponse`, `storeIdempotencyResponse` | map key -> (answer, expiry), lock `idempoMu` | lookup with purge, store with purge and cap | `Idempotency` |
| SSE broker | `httpapi/sse.go` | topic -> set of channels, lock | Subscribe, cancel, Publish | `SSEBroker` |
| Inbox stream | `handler.go` `handleInboxStream` | a channel | connect, subscribe, loop, cancel | `InboxStream` |
| Monitoring stream | `httpapi/monitoring.go` `handleMonitoringLiveStream` | a channel, a window, a snapshot | subscribe, window, snapshot, loop, cancel | `MonitoringStream`, `MonitoringWindow` |
| Retention | `DeleteExpiredCapturedRequests` of both stores, `/internal/retention/run` | requests, monitoring tables | select, delete one by one, purge monitoring | `Retention` |
| Admin gate | `handler.go` `serveHTTP`, `infra/access`, `infra/ratelimit` | IP -> (window start, count), lock | CORS, access, `Allow` | `AdminGate` |
| In-memory store | `repository/memory` | maps under one lock | every store call is one critical section | inside the modules above |
| SQL store | `repository/sqlstore` | tables | every statement is atomic, no transaction spans two | inside the modules above |
| Monitoring queries, health | `service/monitoring.go`, `*/monitoring.go` | none; per call: window, limit, what the first statement found | summary, time series, breakdown, health | `MonitoringQueries` |
| Listing and pagination | `handler.go` `readFilter`, `service.go`, stores | none; per call: page, size, order, total | lists of inboxes and of requests, one request | `InboxAPI` |
| Start and shutdown | `cmd/local/main.go` | none | store choice, migrations, `Shutdown` | restarts only (section 7) |
| Config, ids, logging, metrics | `infra/*` | none that is read back | | not modelled |

### How they interact

- Every request is a goroutine of `net/http`. `serveHTTP` takes the time, checks CORS,
  access and the rate limit for `/v1/`, and calls the router. Handlers share the store,
  the broker, the idempotency map and the limiter, each behind its own lock. **No lock
  and no transaction spans two calls**, so between any two calls of a handler every
  other handler may run. This is the source of most hazards.
- A delivery ends in the broker twice: `publishCapturedRequest` on the topic of its
  inbox, and, from a deferred call, its observation on the topic of all live monitors.
- Stream handlers subscribe a buffered channel, read it until their request's context is
  done, and cancel, which closes the channel. `Publish` copies the channels under the
  read lock and sends after it has released it.
- The retention endpoint is called by a scheduler outside. Nothing prevents two runs at
  the same time, nor captures and patches beside them.
- The lists and the monitoring queries read the stores while all of the above write. In
  memory a query is one critical section; in SQL a list, a PATCH, a breakdown and the
  health are two statements each, and a client that walks through pages makes many calls.
- The process may be stopped and started again. The database stays; the idempotency map,
  the limiter and the subscriptions do not.

### What is hard, and what makes each component correct

`PROJECT.json` lists the hazards, each at its line with the properties that cover it.
In short:

- *Capture.* The status of an inbox is looked up three times (for the
  observation, before the body, after the body) and can change after each; an insert can
  take effect and still return an error; `Publish` can panic after the insert; the
  observation is written in a deferred call; the process can die between any two steps.
  Correct means: what is stored was accepted on a true status, the answer tells what is
  stored, a refusal was true at some moment of the call, the observation agrees with the
  answer and the store, and nothing of a delivery is still to be written after its answer.
- *Broker and streams.* Channels close while a publisher holds a copy of them; buffers
  fill; streams come and go on one topic. Correct means: the map holds exactly the
  streams there are, each published event is in the hands of a subscriber once and in
  order or visibly dropped, a publisher never waits for a reader, a hang-up frees its
  channel, and a live monitor has no gap between its snapshot and its events.
- *Idempotency.* Lookup and store are separate critical sections with times taken before
  the lock. Correct means: a retry after the answer creates nothing while the answer is
  kept, a replay is the answer of a real creation, the cap holds.
- *Admin gate.* Requests reach the limiter out of the order of their times. Correct
  means: the counter is what was let in, a bound on what passes in any one minute, and
  every 429 earned.
- *Retention.* Selection and deletion are separate statements, any of which may fail, and
  times are compared as texts. Correct means: only the
  expired goes, what overlapping runs report adds up and never says more than what is gone,
  monitoring is purged up to the cutoff and not beyond.
- *Listing and PATCH.* The count and the page are two statements, and so are the update
  and the read of a PATCH; page numbers overflow; rows may be as old as one another; what
  is listed changes between two pages. Correct means: a page is the part of the list its
  number says, a walk misses and repeats nothing where nothing can shift under it, a PATCH
  shows what it did or something later, and a 404 was true.
- *Monitoring queries.* Windows compared as texts, ranks of percentiles rounded in two
  ways, thresholds met exactly, parts of minutes at the window's ends, two statements.
  Correct means: the counts and percentiles are those of the window, a series adds up to
  its summary, the health lists the live and judges them by what it documents, a
  breakdown is the top of the groups.

## 2. The modules

A `Mutant:` definition next to a definition is a plausible bug in that code. It is used
by no specification; substituted for the definition below it, it makes the property that
`PROJECT.json` names with it fail, which shows that the property speaks about the code.

**`HookContract`** is the abstract specification of `/hook/{token}`: a delivery gets one
verdict, on the status its inbox has at that moment; an accepted one is written at most
once, before its sender is told. It has no steps of the handler.

**`Capture`** is `handleCapture`. `pc` is the place of a delivery's handler; there is one
action per store call, in the order of the code (`ResolveInboxIDByToken`,
`ValidateCaptureTarget`, `ReadBody`, `CaptureRequest`, `CreateCapturedRequest`,
`publishCapturedRequest`, then the deferred `RecordHookObservation` and
`publishMonitoringLiveEvent`). `GetInboxByToken(t)` is the set of what the lookup can
return now, with an error if the store is SQL. The history `seen` has the statuses the
inbox had while the call ran, restarted when the body has arrived. A failing INSERT, or a
failing transaction of an observation, may or may not have taken effect. `monitoringEvents`
has the rows of each delivery in a sequence, so that one recorded twice would show. An id
for the request can fail to be made, with either store (`CaptureRequest`). `panicking` is a
panic of `Publish` that unwinds the handler, through the deferred call. Method checks and
the empty-token check of the handler are left out because the router lets through only what
passes them. With a memory store a restart loses everything there is, so `Restart` is for
SQL only. `Contract` is the refinement: the verdict is read off the status, and before it
is set off the program counter.

**`SSEBroker`** is `sse.go`: `Subscribe`, `Cancel` and the part of `Publish` under the
lock are one action each; each turn of the send loop is one (`Send`, or `SendOnClosed`
for the panic). Go's iteration over the copied channels has no order and neither has the
choice of `s` here. `Receive` and `Disconnect` are the reader's side. A stream is its own
channel. The histories `due`, `dropped`, `received` and `sentBefore` record what the
properties need and guard nothing.

**`InboxStream`** extends it with `handleInboxStream`: the client is told it is connected
(`Connect`) before the subscription (`StartLoop`); `Hangup` is the client, at any time;
only the loop notices (`NoticeDone`). The heartbeat changes no state but can fail to
write, which is `NoticeDone` as well.

**`MonitoringStream`** extends the broker with `handleMonitoringLiveStream`:
subscription, window, snapshot of the `Limit` newest observations within it, loop; hooks
take their time when they start (`StartHook`), record at their end and then publish, and a
retention run purges (`PurgeEvents`). Observations need not be published in the order of
their times. `Newest` orders by time in memory and by the texts of times in SQL, ties in any
order. `NormalizeQuery` fixes the window by the stream's own clock after the subscription;
`asked` is what the query names, which it may have read off the clock long before. A
transaction that returned an error may leave a row that is never published. The other
filters of the query are left out: the code never applies them to live events.

**`MonitoringWindow`** is the window of a monitoring query, which `MonitoringStream` and
`MonitoringQueries` share: `Window` fills in what is not given, `Refused` is a From after
the To or a window that is too long, answered 400, and `IsWithin` is what each store takes
to be within it.

**`Idempotency`** has the map of answers, calls with a key and a clock. `Unexpired` is the
purge. A call that stores its answer has the lock from `storeIdempotencyResponse` on and
goes through the loop of `enforceIdempotencyCapLocked`, in each turn of which `Evict` takes
an oldest entry out (any of those as old, as Go's maps have no order), until `Unlock`;
`LockFree` keeps the others away. An INSERT that fails may have taken effect. `forgotten`
records the answers that a retry cannot find for a reason the code accepts: evicted,
overwritten by a concurrent call, lost in a restart.

**`AdminGate`** is the way of a `/v1/` request to the router. `Verdict` is CORS and
access, `Allow` the limiter. Since `start` is taken before the lock, requests come to the
limiter late by up to `MaxDelay`. The JWT and the origin are abstracted to what the
checks make of them.

**`Retention`** has `DeleteExpiredCapturedRequests` of both stores (`backend` picks one for
good): in memory one critical section (`Purge`), in SQL `Select`, `DeleteOne` per request,
`DeleteEvents`, `DeleteRollups`, `DeleteDims`, each of which can `Fail`, before or after it
took effect. `Reported` is the answer of the endpoint: a run that failed answers an error
and throws its count away. Times are half seconds, the coarsest unit in which the text of a
time (RFC3339Nano, trailing zeros cut) orders otherwise than the time (`TextBefore`). A
capture stands for its observation. The insert and the observation of a delivery are one
action here (they are separate in `Capture`): what lies between them is far below the day a
retention is made of. A SQL run that selects nothing returns before the monitoring tables,
which is the state `nothing`.

**`TimeText`** has `TextBefore`, the order of the texts of two times, which `Retention`,
`InboxAPI` and `MonitoringWindow` share.

**`InboxAPI`** is one client against everybody else. The client walks through the pages of
a list (`BeginWalk`, one `LookupInbox` for the requests of an inbox, `CountRows` and
`SelectPage` in SQL or `ListInMemory`, then `NextPage` while `has_next`), asks for one
request (`GetCapturedRequestByID`), or patches the inbox (`PatchInMemory`, or `UpdateRow`
and `RereadInbox`). The others insert, remove, patch, create and delete between any two of
these. A row is an inbox or a request that matches the filter, whichever `list` says; what
a filter compares is left out. `rangeFromPage` and `LimitOffset` are the arithmetic of the
two stores with ints of a width (`Wrapped`), `Panics` the slice out of range that the
memory store makes of a negative start (the router recovers nothing, so `net/http` closes
the connection without an answer). `Sorted` gives the orders a list may come in: ties in
any order, as the sort is not stable. The histories `kept`, `seen`, `served`, `inserted`,
`removed`, `raced` and `shown` record what happened since the walk or the patch began.

**`MonitoringQueries`** has the four queries of both stores over a bag of observations,
which deliveries add to and the retention takes from while a query is between its two
statements (`CountEvents`, `GroupEvents`; `SelectInboxes`, `SelectStats`). `Window` (of
`MonitoringWindow`) has the defaults of the service, `NormalizedLimit` its default and cap,
`InWindow` the stores' two comparisons, `FirstReaching` the walk through the histogram with
the stores' way to round (`NudgedTarget`) and the service's (`CeilTarget`). The references
the properties compare with count observations directly, without buckets or minutes.
Observations come in bursts, since a share of 2 or 5 per cent is only met exactly by tens
of them.

**`MC*`** modules add the symmetry sets and the sets of inputs TLC uses. Symmetry is used
only in runs without liveness and only for sets whose members the module never tells apart.

**`Capture_proofs`**, **`SSEBroker_proofs`** (for `InboxStream` and `MonitoringStream` as
well), **`Idempotency_proofs`**, **`Retention_proofs`**, **`AdminGate_proofs`**,
**`InboxAPI_proofs`** and **`MonitoringQueries_proofs`** hold the theorems,
**`CommonLemmas`** the lemmas they share (section 6).

## 3. The runs

| run | question | bounds |
|---|---|---|
| `capture_sql` | do the store, the answer, the observation and the contract agree when deliveries race with management over a store that fails and a process that restarts? | 2 deliveries, 1 inbox |
| `capture_memory` | has every delivery of the memory store one row among the observations, and does every one end? | the same, under fairness |
| `inbox_stream` | is the broker exact while clients come and go, and is nobody held up or left behind? | 2 streams, 2 hooks, 2 inboxes, buffers of 1, under fairness |
| `inbox_stream_connected` | does a client that was told it is connected get what is captured? (no) | 1 stream, 1 hook |
| `inbox_stream_panic` | is a stored hook answered with a stream open? (no) | 1 stream, 1 hook |
| `monitoring_stream` | is there a gap between snapshot and live events? does an event arrive? | 1 stream, 2 observations at 4 half seconds, 4 queries, default window 1, limit 1, buffer 1, both stores, under fairness |
| `idempotency` | retries, replays and the cap | 3 calls, 2 keys, cap 1, TTL 1, 4 instants |
| `idempotency_race` | one inbox per key, for concurrent calls? (no) | 2 calls, 1 key |
| `admin_gate` | what one IP gets through in any minute, and whether a 429 is earned | 5 requests, limit 2, minute 2, delay 1, 5 instants |
| `retention` | what overlapping and failing runs remove and report, on both stores | 2 captures, 1 inbox, 2 runs, retentions of 1, 2 and 3 days |
| `inbox_api` | what does a page hold, what does a walk miss or repeat, what do PATCH and 404 say while others write? | 3 rows at 3 times, pages and sizes 0, 2 and 7, cap 3, ints of 4 bits, both lists, both stores |
| `monitoring_queries` | are counts, percentiles, series, health and breakdown what their definitions say? | 7 kinds of observation, bursts of 1, 19 and 49, 2 bursts, 4 half seconds, minutes of 2, 1 inbox, both stores |

Why these bounds are enough for the cases that matter:

- *Capture.* Deliveries share only the inbox and the sets they add to, so a delivery
  against management calls shows every stale lookup, and a second one shows whatever two
  deliveries could do to each other. An inbox may be toggled any number of times. Two
  inboxes multiply the states without a new interaction, as no step reads an inbox other
  than the one its token names; the proofs hold for any number of both.
- *Streams.* Two streams and two topics give every order of coming, going and being
  copied, on the same topic and on two; a buffer of one is full, dropped on, drained and
  closed. Order of two events needs two publishers. The proofs cover the rest.
- *Monitoring.* Of two observations one is in the snapshot and the other pushed out of it,
  or on its way, or outside the window, or purged, against a limit and a buffer of one. The
  four queries ask for no window, for one that is over, for one still to come and for one
  that is refused. Two seconds of two halves let the texts of SQL order two times the wrong
  way, at the end of a window and within it; the proof has any number of each.
- *Idempotency.* Three calls over two keys with a cap of one: first call, retry, and a call
  that evicts, while the others wait for the lock; four instants let an answer reach its
  expiry, pass it, and be stored again.
- *Admin gate.* Five requests at a limit of two can fill two windows and be refused. The
  bound of `PerMinuteBound` is reached at these values.
- *Retention.* A clock up to seven half seconds spans every retention, before and after the
  cutoff, with the text comparison going wrong in both directions: the slack that
  `OnlyOldEventsPurged` and `NoOldMonitoringLeft` allow is used up in the run.
- *Inbox API.* Three rows fill pages of one, of two and of three, leave a last page that is
  not full, and let one row go and one come during a walk. Page 7 of size 2, or of size 7
  (capped to 3), has its first row beyond a four-bit int, where it wraps to a negative or
  to a positive one.
  Three times give ties, and texts in another order than times.
- *Monitoring queries.* One observation and a burst of 19 make 5 per cent, one and 49 make
  2 per cent: the thresholds are met, missed and passed by one. Times fall on, between and
  outside the ends of a window, which are whole and half seconds. A second inbox would be
  filtered out of every query that names the first; hooks with no inbox play its part.

The bounds in the modules are `MaxTime` (clocks and times), `MaxDelay` (limiter) and
`MaxBursts` (recordings); the number of deliveries, streams, publishers, rows, calls and
runs bounds everything else, as each happens once. `CHECK_DEADLOCK FALSE` is set everywhere
for that reason: once every delivery, call or stream has had its turn and the clock is at
its bound, an instance stops, as the server does when no request comes. That handlers get
to their ends is the subject of `HookEnds`, `PublishEnds`, `HangupFreesTheChannel` and
`LiveEventArrives`.

## 4. Fairness

Only what the code's scheduling justifies is assumed, each as weak fairness of one
handler:

- `Capture`: `HandlerStep(h)`. A goroutine that can run is scheduled; store calls and
  reads return (`ReadTimeout` bounds the body, SQL calls have `busy_timeout`); no send to
  a subscriber blocks, because of the `default` branch.
- `InboxStream`: the turns of `Publish`, the straight-line steps of a handler, and its
  reaction to a context that is done. The last is Go's `select`: a case that stays ready
  is taken sooner or later even while others are. Nothing is assumed of readers: a
  stream may never take an event, and publishers must end all the same.
- `MonitoringStream`: the sends, the window and the snapshot of a handler that is
  subscribed, and that a stream which stays takes its events (`ReceiveLive`), since a write
  that fails ends the stream.

No fairness is assumed of clients, deliveries, management calls, restarts or clocks.

## 5. Findings

Three runs expect a violation; each shows a real behaviour of the code.

1. `inbox_stream_panic`. `Publish` sends to a copy of the channels after it released the
   lock (`src/internal/httpapi/sse.go:51-58`), `cancel` closes a channel under the lock
   (`sse.go:28`). A stream that leaves between the two makes the send panic, whatever the
   `default` branch says. The hook that was already stored is not answered.
2. `inbox_stream_connected`. `handleInboxStream` flushes `: connected` before it
   subscribes (`handler.go:379-383`). A hook captured in between is never sent to that
   client. The monitoring stream subscribes first and has no such gap, which
   `NoGapAfterSnapshot` shows.
3. `idempotency_race`. Two concurrent calls with one `Idempotency-Key` both miss and both
   create (`handler.go:137`, `:171`).

Behaviours that the models contain without a finding, since no text of the repository says
otherwise: a request can be stored in an inbox disabled since the second lookup; a SQL
retention run that finds no expired request does not purge monitoring; requests of a
soft-deleted inbox stay in the SQL store for good and are removed in memory; a fixed window
lets more than the limit through in some minutes. In SQL, `has_next` is taken from a COUNT
made before the page, so a walk may end with rows still to come, and the shares of a
breakdown may exceed 100 per cent of the total counted before it; a window is off by less
than a second at each end. A retention run that fails has removed requests that no run
reports, its last DELETE perhaps among them. An Idempotency-Key does not outlive the
process. A page number whose first row is beyond an int wraps around: a negative start
panics in memory and is the first page in SQL. Hooks without a value of a dimension are a
group of a SQL breakdown and not of one in memory; `Groups` has both.

## 6. What is proved

Every safety property and every action property of the passing runs is the conclusion of
a theorem. The proofs hold for sets of any size under the assumptions named in the modules.
Sets are finite or infinite, but for the captures and runs of `Retention`, the requests of
`AdminGate` and the rows of `InboxAPI`, which are assumed finite because they are counted.
`LimitAssumption` says that the live monitors have one topic, which is the constant
`monitoringLiveChannelKey` of the code. `RowsFitInAnInt` says that no list, with one more
page, is as long as an int is large: a store whose count overflows holds more rows than
memory does. Page numbers are not so bounded, since a client may send any.

**`CommonLemmas`.** Sums and sorted sequences take induction. The library's induction
theorems have an operator as a parameter and cannot be used, so the lemmas argue by a least
counterexample instead: `AllNaturals` and `AllSubsets` say that a *set* of numbers, or of
finite subsets, which has no least element outside of it is all of them. From these come
the sums (`SumUnfolds`, that the community modules' sum is the recursion over one element
at a time, then `SumAdd`, `SumUnion`, `SumChange`, `SumOfParts`), `PartsBound` (a set cut
into few small parts is small) and `SortedExists` (a finite set with a strict total order
can be written down in that order). `TextsKeepMinutes` says why comparing texts does no
harm to minutes: a minute is a whole number of seconds.

**`Capture_proofs`.** The properties of `Capture` are not inductive: `StatusTellsStored`
says nothing of a handler that is about to write. `IInv` adds, part by part, which
statuses go with which program counter (`StatusFollowsStage`), that a running handler has
seen the state its inbox is in and a handler about to write, or that wrote, has seen it
active (`SeenIsCurrent`), that a stored request has a status that admits it
(`StoreFollowsStatus`) and that an observation is of a handler past that point
(`ObservedAtTheEnd`). There is one lemma per action, `Lookup` being the fact about
`GetInboxByToken` they share. From `Invariant == Spec => []IInv` follow `TypeCorrect`,
`StoredWasActiveHolds`, `RefusalWasTrueHolds`, `StatusTellsStoredHolds`,
`ObservationAgreesHolds` and, as an action property under `IInv`, `AnswerComesLastHolds`.
`MemoryCountsEveryHookHolds` needs more: with the memory store a handler past its deferred
call has its row (`MemoryInv`), and `ObservedAtTheEnd` says that it is the only one.
`HandlerImplementsContract` is the refinement: each step of the handler is mapped to the
step of `HookContract` it is, or to a stutter.

**`SSEBroker_proofs`.** `GInv` (`GroupsAreTheReaders`, and that a channel is closed
exactly once its stream has left) is an invariant of the broker. `StreamsUseTheBroker`
and `LiveUsesTheBroker` show that `InboxStream` and `MonitoringStream` implement the
broker, so that its invariants hold there. `EInv` adds to `EachEventOnce` and `OrderKept`
what makes them inductive: an event that is not published is nowhere (`IdleIsNowhere`), an
event still to be sent to a stream has not got to it (`PendingIsNotHad`), and a publisher
is recorded as over only when it is (`SentIsOver`). `Shift`, `AppendToEnd` and `AppendNew`
are the facts about sequences. `GroupsAreTheReadersHolds`, `EachEventOnceHolds` and
`OrderKeptHolds` follow, and, with the bound of the channels, `BrokerTypeCorrect`.
`NoGapAfterSnapshotHolds` rests on `LiveInv`: a stream in its loop is subscribed, what is
recorded began in the past (`HooksArePast`), and whatever is not published to a stream with
the default window began before that window ends (`WindowIsLate`). `LeftOutOfNewest` says
that a snapshot that leaves something of its window out is full of what is as new, and
`StoreIsRightToTheSecond` what the texts of SQL make of both.

**`Idempotency_proofs`.** `IInv` says that an entry is what a call with its key stored
(`EntriesGenuine`) and what each place of a call implies (`PlacesRight`); `ReplayIsGenuine`
follows. The cap is proved over the loop (`CapHoldsAlways`): a call that stores
finds the map within its cap and puts it over it by one at most (`StoreIsOneOver`), and the
loop is not left before it is within it again (`LoopEndsWithinTheCap`), while the lock keeps
every other call from storing. For `RetryCreatesNothing`, `RetryInv` adds that an
answer that is not forgotten is in the map, under an expiry no earlier than its own, or
has expired (`Kept`), and that a call about to create found every earlier answer expired
(`NotFoundIsExpired`).

**`Retention_proofs`.** For `OnlyExpiredRemoved`, `IInv` says that what a run has selected
had outlived its retention when the run began, and keeps the store a run is under way in;
for the types, what a run deleted and has yet to delete count no more than there is.
`MonitoringInv` follows a run through the tables: what it has got to leaves nothing from
before its cutoff (`Purged`), whatever is captured meanwhile, as a capture is never before
a cutoff taken earlier. `TextBeforeIsClose` gives the second by which SQL may be off.
`CountsAddUpHolds` goes step by step: `RunsCount` says that what the runs counted, reported
or not, is no more than what is gone, and equal to it while no run has failed. A step that
takes requests away adds as many to what its own run counted (`CountingKeeps`), on top of
the sum over all runs (`SumChange`), or is a DELETE that returned an error, which counts
nothing (`FailKeepsCount`). What is reported is counted (`ReportsAreCounts`).

**`AdminGate_proofs`.** A window is replaced by a later one only, and requests it let in
began not more than the delay before it ends (`LetInInTime`). With this `CountIsGrants`
and `DenialIsEarned` are inductive. For `PerMinuteBound`, `MinuteInv` adds that each window
was opened by a request it let in (`Opened`), lets in no more than the limit
(`RightWindow`) and that the windows of one address are a minute apart (`Apart`). Then
`MinuteIsBounded`: the requests of one minute fall into as many windows as fit in two
minutes and the delay, and only one of these can have its first request in that minute.

**`InboxAPI_proofs`.** Besides the types (with a page a sequence of rows whatever
overflows), that the state a patch is about to read is one shown since it took effect
(`RereadAfterPatch`) and that a row kept ever since the call began is stored
(`KeptIsStored`). `PatchAnswerIsCurrentHolds` and `NotFoundIsTrueHolds` follow.
For the pages, `PlaceIsRank` is the fact about a sorted list: a row at some place has fewer
rows before it than its place, and at least as many not after it. With the arithmetic of
the two stores (`RangeIsRight`, `PaginateIsCut`, `LimitOffsetIsCut`) it gives
`PageHoldsItsRanksHolds`. A walk is an argument about ranks over time, `WalkInv`: a row that
was there all the while and was not given has at least as many rows before it as the pages
so far hold (`LeftAreAhead`), which an insertion can only raise; one that was given has
fewer (`SeenAreBehind`), which a removal can only lower; without a next page none is left
(`NothingLeft`). `InRange` keeps the pages of a walk within an int: the walk may begin at
any page number, but goes on only while the total says so. `WalkMissesNothingHolds` and
`WalkRepeatsNothingHolds` follow.

**`MonitoringQueries_proofs`.** Theorems on what the queries compute, for every histogram,
time and count rather than those of the run: `PercentileIsLeast`, `UnstableIsRight`,
`WindowToTheSecond`; and, over the two statements of SQL, `HealthListsTheLive`. The four
properties of the runs rest on `TypeInv` (a finite bag, a window with its ends in order)
and on these. `AggregateIsHistogram`: what a query adds up over the observations it matches
is a histogram, so the arithmetic above applies, which gives `SummaryIsRightHolds` and, per
inbox, `HealthIsTrueHolds`. `MinutesCover`: every matching observation is in exactly one
minute of the series, in SQL too, by `TextsKeepMinutes`; with `SumOfParts` this is
`SeriesAddsUpHolds`. `TopGroupsAreRight`: groups are finite and `MoreFrequent` orders them,
ties by name, so a sorted list of them exists (`SortedExists`) and its beginning is the
top. `CountedSince`, that between its two statements a breakdown's groups grow by no more
than was recorded, completes `BreakdownIsTopHolds`. What is said of percentiles is said of
the 95th and the 99th, the two the code asks for (`Percents`). The code computes their
ranks in floating point, `CeilTarget` and `NudgedTarget` in integers; for 0.95 and 0.99 the
two give the same rank of any number of requests up to 2^32, which is not so of every
percentage (`Ceil(0.07 * 100)` is 8).

**Only model-checked.** The four liveness properties, `HookEnds`, `PublishEnds`,
`HangupFreesTheChannel` and `LiveEventArrives`: fairness and ENABLED are out of the prover's
reach. The three runs that expect a violation show what the code does not do, by example.

## 7. What is not modelled, and why

- *Shutdown and time-outs.* A restart kills what runs (`Capture`, `Idempotency`).
  `srv.Shutdown` waits for connections that `net/http` keeps, in code outside the
  repository; `WriteTimeout` and the heartbeat are the freedom of `NoticeDone` to happen at
  any time. Migrations run before anything is served.
- *The filters of the lists and of the monitoring queries*, but for the inbox and the
  window: each cuts down the rows by a comparison of strings, without state. A row of
  `InboxAPI` is one that matches. The live stream
  applies its filter to the snapshot only: of it the window is modelled, the rest left out.
- *Validation of fields*, GET of one inbox and of the session: one lookup or none.
- *Ids and tokens* are random and taken as distinct; an inbox stands for its token.
- *Configuration* is read once and is the modules' constants. Logging and the metrics
  recorder are write-only.
- *The minute roll-ups of SQL* are written and purged (`Retention`) but no query reads
  them; `MonitoringQueries` reads the events, as the code does.

## 8. Plan

Done, in this order, the most important first: `HookContract` and `Capture` with their
runs and proofs; `SSEBroker`, `InboxStream`, `MonitoringStream`; `Idempotency`;
`AdminGate`; `Retention`; proofs of the broker; `InboxAPI`; `MonitoringQueries`; the proofs
of all safety properties, those that take sums, sorting and ranks last.

What is left:

1. Composition of `Capture` and `SSEBroker`, in which the panic of `publishCapturedRequest`
   is the broker's, shown to implement both. Until then the two are joined by reading:
   `Capture` lets a publication panic at any time, which is more than the broker does.
2. The predicates of the list filters, as operators on a row, memory against SQL (`LIKE`
   has wildcards, `strings.Contains` has none, and SQLite lowers ASCII letters only).
3. Two clients of `InboxAPI`, each of which is one of the others to the other, in place of
   `PatchByAnother`, if the states allow it.

## 9. Running it

    tlc -workers 2 -config MCCapture_sql.cfg MCCapture
    tlc -workers 2 -config MCInboxStream.cfg InboxStream
    tlapm Capture_proofs.tla
    tlapm SSEBroker_proofs.tla

and so on for the other `MC*.cfg` and `*_proofs.tla`. `inbox_api` takes some minutes, each
other run at most about a minute; `PROJECT.json` lists the module and the configuration of
each.
