------------------------------- MODULE Retention -------------------------------
(***************************************************************************)
(* POST /internal/retention/run: DeleteExpiredCapturedRequests of both     *)
(* stores, against captures and management calls.  The memory store purges *)
(* in one critical section.  The SQL store selects the expired requests,   *)
(* deletes them one statement each, then purges the monitoring tables, in  *)
(* no transaction: it can fail after any statement, and runs can overlap.  *)
(*                                                                         *)
(* Times are half seconds (TimeText).  A request stands for its            *)
(* observation, which has its time; the two monitoring tables by minute    *)
(* hold buckets.                                                           *)
(***************************************************************************)
EXTENDS TimeText, FiniteSets, FiniteSetsExt, Functions

CONSTANTS Captures,              \* captured requests, and their observations
          Inboxes,
          Runs,                  \* calls of the retention endpoint
          Backends,              \* the stores buildStore picks from
          DefaultRetentionDays,
          Overrides,             \* values a PATCH may give retention_days
          Day, Minute,           \* in half seconds
          MaxTime                \* bound of the clock

ASSUME RetentionAssumption ==
    /\ IsFiniteSet(Captures) /\ IsFiniteSet(Runs)
    /\ Backends \subseteq {"memory", "sql"}
    /\ DefaultRetentionDays \in Nat \ {0}
    /\ Overrides \subseteq Nat \ {0}
    /\ Minute \in Nat \ {0} /\ Day \in Nat \ {0} /\ MaxTime \in Nat

VARIABLES backend,            \* "memory" or "sql", for good
          clock,
          retentionDays,      \* inbox -> its override; 0 is nil
          deletedAt,          \* inboxes that are soft-deleted
          inboxID,            \* capture -> its inbox
          receivedAt,         \* capture -> its time
          requests,           \* captures in the store
          monitoringEvents,   \* captures whose observation is in the store
          minuteRollups,      \* minutes that have a rollup row
          minuteDims,         \* minutes that have dimension rows
          pc,                 \* run -> where it is
          now,                \* run -> its time
          ids,                \* run -> requests it selected and has to delete
          deleted,            \* run -> requests it counted
          shortest            \* history: run -> inbox -> shortest retention the
                              \* inbox had since the run began

purged == <<requests, monitoringEvents, minuteRollups, minuteDims>>
run == <<pc, now, ids, deleted>>
settings == <<backend, retentionDays, deletedAt, inboxID>>
vars == <<clock, settings, receivedAt, purged, run, shortest>>

Days(i) == IF retentionDays[i] = 0 THEN DefaultRetentionDays ELSE retentionDays[i]

\* Mutant: the minute is rounded up.
BucketUp(t) == t + Minute - (t % Minute)

Bucket(t) == t - (t % Minute)

\* Mutant: the inbox's own retention is not used.
ExpiredByDefault(c, t) == receivedAt[c] < t - DefaultRetentionDays * Day

Expired(c, t) == receivedAt[c] < t - Days(inboxID[c]) * Day
Cutoff(r) == now[r] - DefaultRetentionDays * Day

\* What the statements of SQL leave in the monitoring tables.
EventsLeft(r) == {c \in monitoringEvents : ~ TextBefore(receivedAt[c], Cutoff(r))}
RollupsLeft(r) == {m \in minuteRollups : m >= Bucket(Cutoff(r))}
DimsLeft(r) == {m \in minuteDims : m >= Bucket(Cutoff(r))}

UnderWay(r) == pc[r] \in {"purge", "select", "delete", "events", "rollups", "dims"}

--------------------------------------------------------------------------------
\* What goes on beside the runs.

Tick ==
    /\ clock < MaxTime
    /\ clock' = clock + 1
    /\ UNCHANGED <<settings, receivedAt, purged, run, shortest>>

\* A delivery that is stored and observed; both have the time it arrived.  Also
\* into an inbox deleted since the handler looked its status up.
Capture(c) ==
    /\ receivedAt[c] = 0
    /\ clock > 0
    /\ receivedAt' = [receivedAt EXCEPT ![c] = clock]
    /\ requests' = requests \cup {c}
    /\ monitoringEvents' = monitoringEvents \cup {c}
    /\ minuteRollups' = minuteRollups \cup {Bucket(clock)}
    /\ minuteDims' = minuteDims \cup {Bucket(clock)}
    /\ UNCHANGED <<clock, settings, run, shortest>>

PatchRetention(i) ==
    /\ i \notin deletedAt
    /\ \E days \in Overrides : retentionDays' = [retentionDays EXCEPT ![i] = days]
    /\ shortest' = [r \in Runs |-> [j \in Inboxes |->
                      IF UnderWay(r) THEN Min({shortest[r][j], Days(j)'}) ELSE shortest[r][j]]]
    /\ UNCHANGED <<backend, clock, deletedAt, inboxID, receivedAt, purged, run>>

SoftDelete(i) ==
    /\ i \notin deletedAt
    /\ deletedAt' = deletedAt \cup {i}
    /\ UNCHANGED <<backend, clock, retentionDays, inboxID, receivedAt, purged, run, shortest>>

--------------------------------------------------------------------------------
\* A run.

Goto(r, label) == pc' = [pc EXCEPT ![r] = label]

Begin(r) ==
    /\ pc[r] = "idle"
    /\ now' = [now EXCEPT ![r] = clock]
    /\ shortest' = [shortest EXCEPT ![r] = [i \in Inboxes |-> Days(i)]]
    /\ Goto(r, IF backend = "memory" THEN "purge" ELSE "select")
    /\ UNCHANGED <<clock, settings, receivedAt, purged, ids, deleted>>

\* The memory store: requests of deleted inboxes, too; minutes by their start.
Purge(r) ==
    /\ pc[r] = "purge"
    /\ LET expired == {c \in requests : Expired(c, now[r])}
       IN  /\ requests' = requests \ expired
           /\ deleted' = [deleted EXCEPT ![r] = Cardinality(expired)]
    /\ monitoringEvents' = {c \in monitoringEvents : receivedAt[c] >= Cutoff(r)}
    /\ minuteRollups' = {m \in minuteRollups : m >= Cutoff(r)}
    /\ minuteDims' = {m \in minuteDims : m >= Cutoff(r)}
    /\ Goto(r, "ok")
    /\ UNCHANGED <<clock, settings, receivedAt, now, ids, shortest>>

\* SQL: the requests of inboxes that are not deleted.  A run that finds none
\* is over, before the monitoring tables.
Select(r) ==
    /\ pc[r] = "select"
    /\ ids' = [ids EXCEPT ![r] =
          {c \in requests : inboxID[c] \notin deletedAt /\ Expired(c, now[r])}]
    /\ Goto(r, IF ids'[r] = {} THEN "nothing" ELSE "delete")
    /\ UNCHANGED <<clock, settings, receivedAt, purged, now, deleted,
                   shortest>>

\* Mutant: every statement counts one.
DeleteOneCountsAlways(r) ==
    /\ pc[r] = "delete"
    /\ \E c \in ids[r] :
          /\ requests' = requests \ {c}
          /\ deleted' = [deleted EXCEPT ![r] = @ + 1]
          /\ ids' = [ids EXCEPT ![r] = @ \ {c}]
    /\ Goto(r, IF ids'[r] = {} THEN "events" ELSE "delete")
    /\ UNCHANGED <<clock, settings, receivedAt, monitoringEvents,
                   minuteRollups, minuteDims, now, shortest>>

\* One DELETE; it counts what it removed.
DeleteOne(r) ==
    /\ pc[r] = "delete"
    /\ \E c \in ids[r] :
          /\ requests' = requests \ {c}
          /\ deleted' = [deleted EXCEPT ![r] = @ + Cardinality(requests \cap {c})]
          /\ ids' = [ids EXCEPT ![r] = @ \ {c}]
    /\ Goto(r, IF ids'[r] = {} THEN "events" ELSE "delete")
    /\ UNCHANGED <<clock, settings, receivedAt, monitoringEvents,
                   minuteRollups, minuteDims, now, shortest>>

\* Mutant: the cutoff is a day too late.
DeleteEventsNextDay(r) ==
    /\ pc[r] = "events"
    /\ monitoringEvents' =
          {c \in monitoringEvents : ~ TextBefore(receivedAt[c], Cutoff(r) + Day)}
    /\ Goto(r, "rollups")
    /\ UNCHANGED <<clock, settings, receivedAt, requests,
                   minuteRollups, minuteDims, now, ids, deleted, shortest>>

DeleteEvents(r) ==
    /\ pc[r] = "events"
    /\ monitoringEvents' = EventsLeft(r)
    /\ Goto(r, "rollups")
    /\ UNCHANGED <<clock, settings, receivedAt, requests,
                   minuteRollups, minuteDims, now, ids, deleted, shortest>>

\* Mutant: the cutoff is a minute too early.
DeleteRollupsEarlier(r) ==
    /\ pc[r] = "rollups"
    /\ minuteRollups' = {m \in minuteRollups : m >= Bucket(Cutoff(r)) - Minute}
    /\ Goto(r, "dims")
    /\ UNCHANGED <<clock, settings, receivedAt, requests,
                   monitoringEvents, minuteDims, now, ids, deleted, shortest>>

DeleteRollups(r) ==
    /\ pc[r] = "rollups"
    /\ minuteRollups' = RollupsLeft(r)
    /\ Goto(r, "dims")
    /\ UNCHANGED <<clock, settings, receivedAt, requests,
                   monitoringEvents, minuteDims, now, ids, deleted, shortest>>

DeleteDims(r) ==
    /\ pc[r] = "dims"
    /\ minuteDims' = DimsLeft(r)
    /\ Goto(r, "ok")
    /\ UNCHANGED <<clock, settings, receivedAt, requests,
                   monitoringEvents, minuteRollups, now, ids, deleted, shortest>>

\* A statement returns an error, before or after it took effect: the run ends
\* there, and what its last statement removed is not counted.
Fail(r) ==
    /\ \/ pc[r] = "select" /\ UNCHANGED purged
       \/ /\ pc[r] = "delete"
          /\ requests' \in {requests} \cup {requests \ {c} : c \in ids[r]}
          /\ UNCHANGED <<monitoringEvents, minuteRollups, minuteDims>>
       \/ /\ pc[r] = "events"
          /\ monitoringEvents' \in {monitoringEvents, EventsLeft(r)}
          /\ UNCHANGED <<requests, minuteRollups, minuteDims>>
       \/ /\ pc[r] = "rollups"
          /\ minuteRollups' \in {minuteRollups, RollupsLeft(r)}
          /\ UNCHANGED <<requests, monitoringEvents, minuteDims>>
       \/ /\ pc[r] = "dims"
          /\ minuteDims' \in {minuteDims, DimsLeft(r)}
          /\ UNCHANGED <<requests, monitoringEvents, minuteRollups>>
    /\ Goto(r, "failed")
    /\ UNCHANGED <<clock, settings, receivedAt, now, ids, deleted, shortest>>

\* handleRetention: the count of a run that ended well; a run that failed is
\* answered an error, and its count is thrown away.
Reported(r) == IF pc[r] \in {"ok", "nothing"} THEN deleted[r] ELSE 0

Init ==
    /\ backend \in Backends
    /\ clock = 0
    /\ retentionDays = [i \in Inboxes |-> 0]
    /\ deletedAt = {}
    /\ inboxID \in [Captures -> Inboxes]
    /\ receivedAt = [c \in Captures |-> 0]
    /\ requests = {}
    /\ monitoringEvents = {}
    /\ minuteRollups = {}
    /\ minuteDims = {}
    /\ pc = [r \in Runs |-> "idle"]
    /\ now = [r \in Runs |-> 0]
    /\ ids = [r \in Runs |-> {}]
    /\ deleted = [r \in Runs |-> 0]
    /\ shortest = [r \in Runs |-> [i \in Inboxes |-> DefaultRetentionDays]]

Next ==
    \/ Tick
    \/ \E c \in Captures : Capture(c)
    \/ \E i \in Inboxes : PatchRetention(i) \/ SoftDelete(i)
    \/ \E r \in Runs : \/ Begin(r) \/ Purge(r) \/ Select(r) \/ DeleteOne(r) \/ DeleteEvents(r)
                       \/ DeleteRollups(r) \/ DeleteDims(r) \/ Fail(r)

Spec == Init /\ [][Next]_vars

--------------------------------------------------------------------------------

Removed == {c \in Captures : receivedAt[c] # 0} \ requests
RemovedEvents == {c \in Captures : receivedAt[c] # 0} \ monitoringEvents

TypeOK ==
    /\ backend \in Backends
    /\ clock \in 0 .. MaxTime
    /\ retentionDays \in [Inboxes -> Overrides \cup {0}]
    /\ deletedAt \subseteq Inboxes
    /\ inboxID \in [Captures -> Inboxes]
    /\ receivedAt \in [Captures -> 0 .. MaxTime]
    /\ requests \subseteq Captures
    /\ monitoringEvents \subseteq Captures
    /\ minuteRollups \subseteq 0 .. MaxTime
    /\ minuteDims \subseteq 0 .. MaxTime
    /\ pc \in [Runs -> {"idle", "purge", "select", "nothing", "delete", "events", "rollups",
                        "dims", "ok", "failed"}]
    /\ now \in [Runs -> 0 .. MaxTime]
    /\ ids \in [Runs -> SUBSET Captures]
    /\ deleted \in [Runs -> 0 .. Cardinality(Captures)]

\* Nothing is removed before its time: a request that is gone had outlived,
\* when some run began, a retention its own inbox had while that run ran.
OnlyExpiredRemoved ==
    \A c \in Removed : \E r \in Runs :
       pc[r] # "idle" /\ receivedAt[c] < now[r] - shortest[r][inboxID[c]] * Day

\* Runs that overlap do not report a request twice: what they report is never
\* more than what is gone, and exactly that when no run has failed or is still
\* under way.
CountsAddUp ==
    LET total == SumFunctionOnSet([r \in Runs |-> Reported(r)], Runs)
    IN  /\ total <= Cardinality(Removed)
        /\ (\A r \in Runs : pc[r] \in {"idle", "ok", "nothing"}) => total = Cardinality(Removed)

\* An observation is purged only if it was older than the default retention;
\* in SQL the comparison of texts can take one that is less than a second
\* younger.
OnlyOldEventsPurged ==
    \A c \in RemovedEvents : \E r \in Runs :
       receivedAt[c] < Cutoff(r) + (IF backend = "sql" THEN 2 ELSE 0)

\* A run that got to its end through the monitoring part leaves nothing there
\* from before its cutoff, whatever was captured beside it: no event (in SQL,
\* but for the second of the cutoff) and no row of an earlier minute.
NoOldMonitoringLeft ==
    \A r \in Runs : pc[r] = "ok" =>
       /\ \A c \in monitoringEvents :
             receivedAt[c] >= Cutoff(r) - (IF backend = "sql" THEN 1 ELSE 0)
       /\ \A m \in minuteRollups \cup minuteDims : m >= Bucket(Cutoff(r))
================================================================================
