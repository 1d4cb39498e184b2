---------------------------- MODULE Retention_proofs ----------------------------
(***************************************************************************)
(* The invariants of Retention, for any number of captures, inboxes and    *)
(* runs and any periods of retention.                                      *)
(***************************************************************************)
EXTENDS Retention, CommonLemmas, FiniteSetTheorems

--------------------------------------------------------------------------------
\* The inductive invariant.

\* What a run has counted and has yet to delete is no more than there is.
Counted(r) ==
    /\ deleted[r] + Cardinality(ids[r]) <= Cardinality(Captures)
    /\ pc[r] \in {"idle", "purge", "select"} => deleted[r] = 0 /\ ids[r] = {}

\* A run is of the store it works on.
RightStore(r) ==
    /\ pc[r] = "purge" => backend = "memory"
    /\ pc[r] \in {"select", "delete", "events", "rollups", "dims"} => backend = "sql"

\* While under way it never knows a retention longer than the shortest there
\* was, and what it selected had outlived that.
Outlived(c, r) == receivedAt[c] < now[r] - shortest[r][inboxID[c]] * Day

SelectedOutlived(r) ==
    /\ shortest[r] \in [Inboxes -> Nat]
    /\ pc[r] # "idle" => now[r] <= clock
    /\ UnderWay(r) => \A i \in Inboxes : shortest[r][i] <= Days(i)
    /\ \A c \in ids[r] : receivedAt[c] # 0 /\ Outlived(c, r)

\* What is in the store has arrived.
Arrived == \A c \in requests \cup monitoringEvents : receivedAt[c] # 0

Types ==
    /\ backend \in Backends /\ clock \in 0 .. MaxTime
    /\ retentionDays \in [Inboxes -> Overrides \cup {0}] /\ deletedAt \subseteq Inboxes
    /\ inboxID \in [Captures -> Inboxes] /\ receivedAt \in [Captures -> 0 .. MaxTime]
    /\ requests \subseteq Captures /\ monitoringEvents \subseteq Captures
    /\ minuteRollups \subseteq 0 .. MaxTime /\ minuteDims \subseteq 0 .. MaxTime
    /\ pc \in [Runs -> {"idle", "purge", "select", "nothing", "delete", "events", "rollups",
                        "dims", "ok", "failed"}]
    /\ now \in [Runs -> 0 .. MaxTime] /\ ids \in [Runs -> SUBSET Captures]
    /\ deleted \in [Runs -> Nat] /\ DOMAIN shortest = Runs

IInv ==
    /\ Types
    /\ Arrived
    /\ \A r \in Runs : Counted(r) /\ RightStore(r) /\ SelectedOutlived(r)
    /\ OnlyExpiredRemoved

--------------------------------------------------------------------------------
\* The parts.

\* Before the first capture.
LEMMA InitEstablishes == ASSUME Init PROVE IInv
<1>1. Cardinality({}) = 0 /\ Cardinality(Captures) \in Nat
  BY FS_EmptySet, FS_CardinalityType, RetentionAssumption
<1>2. QED
  BY <1>1, RetentionAssumption DEF Init, IInv, Types, Arrived, Counted, RightStore,
     SelectedOutlived, UnderWay, OnlyExpiredRemoved, Removed

\* The retention of an inbox in days.
LEMMA DaysType == ASSUME Types PROVE \A i \in Inboxes : Days(i) \in Nat \ {0}
BY RetentionAssumption DEF Types, Days

\* A request a run finds expired had outlived the shortest retention, too.
LEMMA ExpiredOutlived ==
    ASSUME Types, NEW r \in Runs, SelectedOutlived(r), UnderWay(r),
           NEW c \in Captures, Expired(c, now[r])
    PROVE  Outlived(c, r)
<1>1. Days(inboxID[c]) \in Nat /\ shortest[r][inboxID[c]] \in Nat
      /\ shortest[r][inboxID[c]] <= Days(inboxID[c]) /\ Day \in Nat
  BY DaysType, RetentionAssumption DEF Types, SelectedOutlived, UnderWay
<1>2. /\ shortest[r][inboxID[c]] * Day <= Days(inboxID[c]) * Day
      /\ shortest[r][inboxID[c]] * Day \in Int /\ Days(inboxID[c]) * Day \in Int
  BY <1>1, ProductKeepsOrder
<1>3. receivedAt[c] < now[r] - Days(inboxID[c]) * Day /\ receivedAt[c] \in Int /\ now[r] \in Int
  BY DEF Expired, Types
<1>4. QED
  BY <1>2, <1>3 DEF Outlived

--------------------------------------------------------------------------------
\* What a step keeps.

\* A capture has not outlived anything.
LEMMA CaptureKeeps == ASSUME IInv, NEW c \in Captures, Capture(c) PROVE IInv'
<1> USE DEF IInv, settings, run
<1>1. /\ receivedAt[c] = 0 /\ receivedAt' = [receivedAt EXCEPT ![c] = clock] /\ clock > 0
      /\ requests' = requests \cup {c} /\ monitoringEvents' = monitoringEvents \cup {c}
      /\ minuteRollups' = minuteRollups \cup {Bucket(clock)}
      /\ minuteDims' = minuteDims \cup {Bucket(clock)}
      /\ UNCHANGED <<clock, settings, run, shortest>>
  BY DEF Capture
<1>2. Bucket(clock) \in 0 .. MaxTime
  <2>1. clock \in Nat /\ clock <= MaxTime /\ MaxTime \in Nat /\ Minute \in Nat \ {0}
    BY RetentionAssumption DEF Types
  <2>2. Bucket(clock) \in 0 .. clock
    BY <2>1, CutIsBefore DEF Bucket
  <2>3. QED
    BY <2>1, <2>2
<1>3. Types' /\ Arrived'
  <2>1. clock \in 0 .. MaxTime /\ receivedAt' \in [Captures -> 0 .. MaxTime]
    BY <1>1 DEF Types
  <2>2. \A d \in requests' \cup monitoringEvents' : d = c \/ receivedAt'[d] = receivedAt[d]
    BY <1>1 DEF Types
  <2>3. receivedAt'[c] = clock
    BY <1>1 DEF Types
  <2>4. Arrived'
    BY <1>1, <2>2, <2>3 DEF Types, Arrived
  <2>5. Types'
    BY <1>1, <1>2, <2>1 DEF Types
  <2>6. QED
    BY <2>4, <2>5
<1>4. ASSUME NEW r \in Runs PROVE Counted(r)' /\ RightStore(r)' /\ SelectedOutlived(r)'
  <2>1. Counted(r)' /\ RightStore(r)'
    BY <1>1 DEF Counted, RightStore
  <2>2. \A d \in ids[r] : receivedAt'[d] = receivedAt[d] /\ receivedAt[d] # 0 /\ Outlived(d, r)
    BY <1>1 DEF Types, SelectedOutlived, UnderWay
  <2>3. QED
    BY <1>1, <2>1, <2>2 DEF SelectedOutlived, UnderWay, Outlived, Days
<1>5. OnlyExpiredRemoved'
  BY <1>1 DEF Types, OnlyExpiredRemoved, Removed
<1>6. QED
  BY <1>3, <1>4, <1>5

\* The clock and the deletion of an inbox.
LEMMA OthersKeep ==
    ASSUME IInv, Tick \/ (\E i \in Inboxes : SoftDelete(i)) \/ UNCHANGED vars PROVE IInv'
<1> USE RetentionAssumption
    DEF IInv, settings, run, purged, Types, Arrived, Counted, RightStore, SelectedOutlived, UnderWay,
      Outlived, Days, OnlyExpiredRemoved, Removed
<1>1. CASE Tick
  BY <1>1 DEF Tick
<1>2. ASSUME NEW i \in Inboxes, SoftDelete(i) PROVE IInv'
  BY <1>2 DEF SoftDelete
<1>3. CASE UNCHANGED vars
  BY <1>3 DEF vars
<1>4. QED
  BY <1>1, <1>2, <1>3

\* A shorter retention makes what had outlived a longer one no younger.
LEMMA PatchKeeps == ASSUME IInv, NEW i \in Inboxes, PatchRetention(i) PROVE IInv'
<1> USE DEF IInv, run, purged
<1>1. /\ UNCHANGED <<backend, clock, deletedAt, inboxID, receivedAt, purged, run>>
      /\ retentionDays' \in [Inboxes -> Overrides \cup {0}]
      /\ shortest' = [r \in Runs |-> [j \in Inboxes |->
            IF UnderWay(r) THEN Min({shortest[r][j], Days(j)'}) ELSE shortest[r][j]]]
  BY DEF PatchRetention, Types
<1>2. Types'
  BY <1>1 DEF Types
<1>3. \A j \in Inboxes : Days(j)' \in Nat
  BY <1>2, DaysType, RetentionAssumption DEF Types, Days
<1>4. ASSUME NEW r \in Runs, NEW j \in Inboxes
      PROVE  /\ shortest'[r][j] \in Nat /\ shortest'[r][j] <= shortest[r][j]
             /\ UnderWay(r) => shortest'[r][j] <= Days(j)'
  <2>1. shortest[r][j] \in Nat /\ Days(j)' \in Nat
    BY <1>3 DEF SelectedOutlived, UnderWay
  <2>2. CASE ~ UnderWay(r)
    BY <1>1, <2>1, <2>2
  <2>3. CASE UnderWay(r)
    <3>1. shortest'[r][j] = Min({shortest[r][j], Days(j)'})
      BY <1>1, <2>3
    <3>2. QED
      BY <2>1, <3>1, MinOfTwo
  <2>4. QED
    BY <2>2, <2>3
<1>5. ASSUME NEW r \in Runs, NEW c \in Captures, Outlived(c, r) PROVE Outlived(c, r)'
  <2> DEFINE a == shortest'[r][inboxID[c]]
             b == shortest[r][inboxID[c]]
  <2>1. a \in Nat /\ b \in Nat /\ a <= b /\ Day \in Nat
    BY <1>4, RetentionAssumption DEF Types, SelectedOutlived, UnderWay
  <2>2. a * Day <= b * Day /\ a * Day \in Int /\ b * Day \in Int
    BY <2>1, ProductKeepsOrder
  <2>3. receivedAt[c] \in Int /\ now[r] \in Int /\ receivedAt[c] < now[r] - b * Day
    BY <1>5 DEF Types, Outlived
  <2>4. receivedAt[c] < now[r] - a * Day
    BY <2>2, <2>3
  <2>5. QED
    BY <1>1, <2>4 DEF Outlived
<1>6. ASSUME NEW r \in Runs PROVE Counted(r)' /\ RightStore(r)' /\ SelectedOutlived(r)'
  <2>1. Counted(r)' /\ RightStore(r)'
    BY <1>1 DEF Counted, RightStore
  <2>2. shortest'[r] \in [Inboxes -> Nat]
    BY <1>1, <1>4
  <2>3. \A c \in ids[r] : receivedAt[c] # 0 /\ Outlived(c, r)'
    BY <1>5 DEF Types, SelectedOutlived, UnderWay
  <2>4. QED
    BY <1>1, <1>4, <2>1, <2>2, <2>3 DEF SelectedOutlived, UnderWay
<1>7. Arrived' /\ OnlyExpiredRemoved'
  <2>1. ASSUME NEW c \in Removed PROVE \E r \in Runs : pc[r] # "idle" /\ Outlived(c, r)'
    <3>1. PICK r \in Runs : pc[r] # "idle" /\ Outlived(c, r)
      BY DEF OnlyExpiredRemoved, Outlived
    <3>2. QED
      BY <1>5, <3>1 DEF Removed
  <2>2. Removed' = Removed /\ Arrived'
    BY <1>1 DEF Removed, Arrived
  <2>3. QED
    BY <1>1, <2>1, <2>2 DEF OnlyExpiredRemoved, Outlived
<1>8. QED
  BY <1>2, <1>6, <1>7

\* What the memory store purges in one step, and what a run of SQL deletes in
\* several, had outlived its retention.
LEMMA RemovingKeeps ==
    ASSUME IInv, NEW r \in Runs, pc[r] # "idle",
           UNCHANGED <<settings, clock, receivedAt, now, shortest>>,
           requests' \subseteq requests,
           \A c \in requests \ requests' : Outlived(c, r),
           pc'[r] # "idle", \A s \in Runs \ {r} : pc'[s] = pc[s]
    PROVE  OnlyExpiredRemoved'
<1>1. ASSUME NEW c \in Removed' PROVE \E s \in Runs : pc'[s] # "idle" /\ Outlived(c, s)
  <2>1. CASE c \in requests
    BY <2>1 DEF Removed
  <2>2. CASE c \notin requests
    <3>1. c \in Removed
      BY <2>2 DEF Removed
    <3>2. PICK s \in Runs : pc[s] # "idle" /\ Outlived(c, s)
      BY <3>1 DEF IInv, OnlyExpiredRemoved, Outlived
    <3>3. QED
      BY <3>2
  <2>3. QED
    BY <2>1, <2>2
<1>2. QED
  BY <1>1 DEF OnlyExpiredRemoved, Outlived, settings

\* A part of the captures is finite and no more than all of them.
LEMMA PartOfCaptures == ASSUME NEW S \in SUBSET Captures
    PROVE IsFiniteSet(S) /\ Cardinality(S) \in Nat /\ Cardinality(S) <= Cardinality(Captures)
BY FS_Subset, FS_CardinalityType, RetentionAssumption

\* A run begins with nothing selected.
LEMMA BeginKeeps == ASSUME IInv, NEW r \in Runs, Begin(r) PROVE IInv'
<1> USE DEF IInv, settings, purged
<1>1. /\ pc[r] = "idle" /\ now' = [now EXCEPT ![r] = clock]
      /\ shortest' = [shortest EXCEPT ![r] = [i \in Inboxes |-> Days(i)]]
      /\ pc' = [pc EXCEPT ![r] = IF backend = "memory" THEN "purge" ELSE "select"]
      /\ UNCHANGED <<clock, settings, receivedAt, purged, ids, deleted>>
  BY DEF Begin, Goto
<1>2. Types' /\ Arrived'
  BY <1>1 DEF Types, Arrived
<1>3. ASSUME NEW s \in Runs PROVE Counted(s)' /\ RightStore(s)' /\ SelectedOutlived(s)'
  <2>1. Counted(s)'
    BY <1>1 DEF Types, Counted
  <2>2. RightStore(s)'
    BY <1>1, RetentionAssumption DEF Types, RightStore
  <2>3. CASE s = r
    <3>1. ids[r] = {} /\ \A i \in Inboxes : Days(i) \in Nat
      BY <1>1, DaysType DEF Counted
    <3>2. shortest'[r] = [i \in Inboxes |-> Days(i)] /\ now'[r] = clock
      BY <1>1 DEF Types
    <3>3. \A i \in Inboxes : Days(i)' = Days(i)
      BY <1>1 DEF Days
    <3>4. QED
      BY <1>1, <2>1, <2>2, <2>3, <3>1, <3>2, <3>3 DEF Types, SelectedOutlived, UnderWay
  <2>4. CASE s # r
    BY <1>1, <2>1, <2>2, <2>4 DEF Types, SelectedOutlived, UnderWay, Outlived, Days
  <2>5. QED
    BY <2>3, <2>4
<1>4. OnlyExpiredRemoved'
  BY <1>1 DEF Types, OnlyExpiredRemoved, Removed
<1>5. QED
  BY <1>2, <1>3, <1>4

\* The run of the memory store, in one step.
LEMMA PurgeKeeps == ASSUME IInv, NEW r \in Runs, Purge(r) PROVE IInv'
<1> USE DEF IInv, settings
<1> DEFINE expired == {c \in requests : Expired(c, now[r])}
<1>1. /\ pc[r] = "purge" /\ requests' = requests \ expired
      /\ deleted' = [deleted EXCEPT ![r] = Cardinality(expired)]
      /\ monitoringEvents' \subseteq monitoringEvents
      /\ minuteRollups' \subseteq minuteRollups /\ minuteDims' \subseteq minuteDims
      /\ pc' = [pc EXCEPT ![r] = "ok"]
      /\ UNCHANGED <<clock, settings, receivedAt, now, ids, shortest>>
  BY DEF Purge, Goto
<1>2. expired \subseteq Captures /\ \A c \in expired : Outlived(c, r)
  BY <1>1, ExpiredOutlived DEF UnderWay, Types
<1>3. Types' /\ Arrived'
  <2>1. deleted' \in [Runs -> Nat]
    BY <1>1, <1>2, PartOfCaptures DEF Types
  <2>2. QED
    BY <1>1, <2>1 DEF Types, Arrived
<1>4. ASSUME NEW s \in Runs PROVE Counted(s)' /\ RightStore(s)' /\ SelectedOutlived(s)'
  <2>1. Cardinality(expired) \in Nat /\ Cardinality(expired) <= Cardinality(Captures)
    BY <1>2, PartOfCaptures
  <2>2. CASE s = r
    <3>1. ids[r] = {} /\ deleted'[r] = Cardinality(expired) /\ pc'[r] = "ok"
      BY <1>1 DEF Types, Counted
    <3>2. Cardinality(Captures) \in Nat /\ Cardinality({}) = 0
      BY FS_CardinalityType, FS_EmptySet, RetentionAssumption
    <3>3. Counted(r)' /\ RightStore(r)'
      BY <1>1, <2>1, <3>1, <3>2 DEF Counted, RightStore
    <3>4. QED
      BY <1>1, <2>2, <3>1, <3>3 DEF SelectedOutlived, UnderWay, Outlived, Days
  <2>3. CASE s # r
    BY <1>1, <2>3 DEF Types, Counted, RightStore, SelectedOutlived, UnderWay, Outlived, Days
  <2>4. QED
    BY <2>2, <2>3
<1>5. OnlyExpiredRemoved'
  BY <1>1, <1>2, RemovingKeeps DEF Types
<1>6. QED
  BY <1>3, <1>4, <1>5

\* What SQL selects has outlived the retention it has then.
LEMMA SelectKeeps == ASSUME IInv, NEW r \in Runs, Select(r) PROVE IInv'
<1> USE DEF IInv, settings, purged
<1> DEFINE found == {c \in requests : inboxID[c] \notin deletedAt /\ Expired(c, now[r])}
<1>1. /\ pc[r] = "select" /\ ids' = [ids EXCEPT ![r] = found]
      /\ pc' \in {[pc EXCEPT ![r] = "nothing"], [pc EXCEPT ![r] = "delete"]}
      /\ UNCHANGED <<clock, settings, receivedAt, purged, now, deleted, shortest>>
  BY DEF Select, Goto
<1>2. found \subseteq Captures /\ \A c \in found : receivedAt[c] # 0 /\ Outlived(c, r)
  BY <1>1, ExpiredOutlived DEF UnderWay, Types, Arrived
<1>3. Types' /\ Arrived'
  BY <1>1, <1>2 DEF Types, Arrived
<1>4. ASSUME NEW s \in Runs PROVE Counted(s)' /\ RightStore(s)' /\ SelectedOutlived(s)'
  <2>1. Cardinality(found) \in Nat /\ Cardinality(found) <= Cardinality(Captures)
    BY <1>2, PartOfCaptures
  <2>2. CASE s = r
    <3>1. ids'[r] = found /\ deleted[r] = 0 /\ backend = "sql"
      BY <1>1 DEF Types, Counted, RightStore
    <3>2. Counted(r)' /\ RightStore(r)'
      BY <1>1, <2>1, <3>1 DEF Types, Counted, RightStore
    <3>3. QED
      BY <1>1, <1>2, <2>2, <3>1, <3>2 DEF SelectedOutlived, UnderWay, Outlived, Days
  <2>3. CASE s # r
    BY <1>1, <2>3 DEF Types, Counted, RightStore, SelectedOutlived, UnderWay, Outlived, Days
  <2>4. QED
    BY <2>2, <2>3
<1>5. OnlyExpiredRemoved'
  BY <1>1 DEF Types, OnlyExpiredRemoved, Removed
<1>6. QED
  BY <1>3, <1>4, <1>5

\* One DELETE counts the request it removes, if it is still there.
LEMMA DeleteOneKeeps == ASSUME IInv, NEW r \in Runs, DeleteOne(r) PROVE IInv'
<1> USE DEF IInv, settings
<1>1. PICK c \in ids[r] :
        /\ requests' = requests \ {c}
        /\ deleted' = [deleted EXCEPT ![r] = @ + Cardinality(requests \cap {c})]
        /\ ids' = [ids EXCEPT ![r] = @ \ {c}]
  BY DEF DeleteOne
<1>2. /\ pc[r] = "delete"
      /\ pc' \in {[pc EXCEPT ![r] = "events"], [pc EXCEPT ![r] = "delete"]}
      /\ UNCHANGED <<clock, settings, receivedAt, monitoringEvents, minuteRollups, minuteDims,
                     now, shortest>>
  BY DEF DeleteOne, Goto
<1>3. Types' /\ Arrived'
  <2>1. Cardinality(requests \cap {c}) \in Nat
    BY PartOfCaptures DEF Types
  <2>2. deleted' \in [Runs -> Nat]
    BY <1>1, <2>1 DEF Types
  <2>3. QED
    BY <1>1, <1>2, <2>2 DEF Types, Arrived
<1>4. ASSUME NEW s \in Runs PROVE Counted(s)' /\ RightStore(s)' /\ SelectedOutlived(s)'
  <2>1. CASE s = r
    <3>1. Cardinality(requests \cap {c}) \in 0 .. 1
      <4>1. CASE c \in requests
        <5>1. requests \cap {c} = {c}
          BY <4>1
        <5>2. QED
          BY <5>1, FS_Singleton
      <4>2. CASE c \notin requests
        <5>1. requests \cap {c} = {}
          BY <4>2
        <5>2. QED
          BY <5>1, FS_EmptySet
      <4>3. QED
        BY <4>1, <4>2
    <3>2. /\ Cardinality(ids[r] \ {c}) = Cardinality(ids[r]) - 1
          /\ Cardinality(ids[r]) \in Nat
      BY PartOfCaptures, FS_RemoveElement DEF Types
    <3>3. /\ ids'[r] = ids[r] \ {c}
          /\ deleted'[r] = deleted[r] + Cardinality(requests \cap {c})
          /\ pc'[r] \in {"events", "delete"} /\ backend = "sql"
      BY <1>1, <1>2 DEF Types, RightStore
    <3>4. Counted(r)' /\ RightStore(r)'
      <4>1. Cardinality(Captures) \in Nat /\ deleted[r] \in Nat
        BY FS_CardinalityType, RetentionAssumption DEF Types
      <4>2. deleted'[r] + Cardinality(ids'[r]) <= Cardinality(Captures)
        BY <3>1, <3>2, <3>3, <4>1 DEF Counted
      <4>3. QED
        BY <1>2, <3>3, <4>2 DEF Counted, RightStore
    <3>5. QED
      BY <1>2, <2>1, <3>3, <3>4 DEF SelectedOutlived, UnderWay, Outlived, Days
  <2>2. CASE s # r
    BY <1>1, <1>2, <2>2 DEF Types, Counted, RightStore, SelectedOutlived, UnderWay, Outlived, Days
  <2>3. QED
    BY <2>1, <2>2
<1>5. OnlyExpiredRemoved'
  <2>1. Outlived(c, r)
    BY <1>2 DEF Types, SelectedOutlived, UnderWay
  <2>2. QED
    BY <1>1, <1>2, <2>1, RemovingKeeps DEF Types
<1>6. QED
  BY <1>3, <1>4, <1>5

\* The statements after the deletion leave the requests alone.
LEMMA RestKeeps ==
    ASSUME IInv, NEW r \in Runs, DeleteEvents(r) \/ DeleteRollups(r) \/ DeleteDims(r)
    PROVE  IInv'
<1> USE DEF IInv, settings, purged
<1>1. /\ pc[r] \in {"events", "rollups", "dims"}
      /\ \E l \in {"rollups", "dims", "ok"} : pc' = [pc EXCEPT ![r] = l]
      /\ monitoringEvents' \subseteq monitoringEvents
      /\ minuteRollups' \subseteq minuteRollups /\ minuteDims' \subseteq minuteDims
      /\ UNCHANGED <<clock, settings, receivedAt, requests, now, ids, deleted, shortest>>
  BY DEF DeleteEvents, DeleteRollups, DeleteDims, Goto, EventsLeft, RollupsLeft, DimsLeft
<1>2. Types' /\ Arrived'
  BY <1>1 DEF Types, Arrived
<1>3. ASSUME NEW s \in Runs PROVE Counted(s)' /\ RightStore(s)' /\ SelectedOutlived(s)'
  BY <1>1, <1>3 DEF Types, Counted, RightStore, SelectedOutlived, UnderWay, Outlived, Days
<1>4. OnlyExpiredRemoved'
  BY <1>1 DEF Types, OnlyExpiredRemoved, Removed
<1>5. QED
  BY <1>2, <1>3, <1>4

\* A statement that fails removes what it would have removed, or nothing.
LEMMA FailIsPart ==
    ASSUME NEW r \in Runs, Fail(r)
    PROVE  /\ pc[r] \in {"select", "delete", "events", "rollups", "dims"}
           /\ pc' = [pc EXCEPT ![r] = "failed"]
           /\ requests' \subseteq requests /\ requests \ requests' \subseteq ids[r]
           /\ \/ monitoringEvents' = monitoringEvents
              \/ pc[r] = "events" /\ monitoringEvents' = EventsLeft(r)
           /\ minuteRollups' \subseteq minuteRollups /\ minuteDims' \subseteq minuteDims
           /\ UNCHANGED <<clock, settings, receivedAt, now, ids, deleted, shortest>>
BY DEF Fail, Goto, purged, RollupsLeft, DimsLeft

\* A run that fails removes at most a request it selected.
LEMMA FailKeeps == ASSUME IInv, NEW r \in Runs, Fail(r) PROVE IInv'
<1> USE DEF IInv, settings
<1>1. /\ pc[r] # "idle" /\ pc' = [pc EXCEPT ![r] = "failed"]
      /\ requests' \subseteq requests /\ requests \ requests' \subseteq ids[r]
      /\ monitoringEvents' \subseteq monitoringEvents
      /\ minuteRollups' \subseteq minuteRollups /\ minuteDims' \subseteq minuteDims
      /\ UNCHANGED <<clock, settings, receivedAt, now, ids, deleted, shortest>>
  BY FailIsPart DEF EventsLeft
<1>2. Types' /\ Arrived'
  BY <1>1 DEF Types, Arrived
<1>3. ASSUME NEW s \in Runs PROVE Counted(s)' /\ RightStore(s)' /\ SelectedOutlived(s)'
  BY <1>1, <1>3 DEF Types, Counted, RightStore, SelectedOutlived, UnderWay, Outlived, Days
<1>4. OnlyExpiredRemoved'
  <2>1. \A c \in requests \ requests' : Outlived(c, r)
    BY <1>1 DEF SelectedOutlived
  <2>2. QED
    BY <1>1, <2>1, RemovingKeeps DEF Types
<1>5. QED
  BY <1>2, <1>3, <1>4

\* The inductive invariant of the runs.
LEMMA Invariant == Spec => []IInv
<1>1. Init => IInv
  BY InitEstablishes
<1>2. IInv /\ [Next]_vars => IInv'
  BY CaptureKeeps, OthersKeep, PatchKeeps, BeginKeeps, PurgeKeeps, SelectKeeps, DeleteOneKeeps,
     RestKeeps, FailKeeps DEF Next
<1>3. QED
  BY <1>1, <1>2, PTL DEF Spec

--------------------------------------------------------------------------------
\* The properties.

\* TypeOK; that no run deletes more requests than there are takes that what it
\* deleted and what it has yet to delete are apart.
THEOREM TypeCorrect == Spec => []TypeOK
<1>1. IInv => TypeOK
  <2>1. SUFFICES ASSUME IInv PROVE TypeOK
    OBVIOUS
  <2>2. ASSUME NEW r \in Runs PROVE deleted[r] \in 0 .. Cardinality(Captures)
    <3>1. Cardinality(ids[r]) \in Nat
      BY <2>1, PartOfCaptures DEF IInv, Types
    <3>2. Cardinality(Captures) \in Nat
      BY FS_CardinalityType, RetentionAssumption
    <3>3. deleted[r] \in Nat /\ deleted[r] + Cardinality(ids[r]) <= Cardinality(Captures)
      BY <2>1 DEF IInv, Types, Counted
    <3>4. QED
      BY <3>1, <3>2, <3>3
  <2>3. deleted \in [Runs -> 0 .. Cardinality(Captures)]
    BY <2>1, <2>2 DEF IInv, Types
  <2>4. QED
    BY <2>1, <2>3 DEF IInv, Types, TypeOK
<1>2. QED
  BY <1>1, Invariant, PTL

\* No request is gone before its time, with PATCHes that change its retention
\* while runs are under way and overlap, and with runs that fail part of the
\* way (DeleteExpiredCapturedRequests).
THEOREM OnlyExpiredRemovedHolds == Spec => []OnlyExpiredRemoved
<1>1. IInv => OnlyExpiredRemoved
  BY DEF IInv
<1>2. QED
  BY <1>1, Invariant, PTL

--------------------------------------------------------------------------------
\* The monitoring tables.

Slack == IF backend = "sql" THEN 2 ELSE 0

OldEvents == \A c \in RemovedEvents : \E r \in Runs :
                pc[r] # "idle" /\ receivedAt[c] < Cutoff(r) + Slack

\* What a run has got to leaves nothing from before its cutoff.
Purged(r) ==
    /\ pc[r] \in {"rollups", "dims", "ok"} =>
          \A c \in monitoringEvents :
             receivedAt[c] >= Cutoff(r) - (IF backend = "sql" THEN 1 ELSE 0)
    /\ pc[r] \in {"dims", "ok"} => \A m \in minuteRollups : m >= Bucket(Cutoff(r))
    /\ pc[r] = "ok" => \A m \in minuteDims : m >= Bucket(Cutoff(r))

MonitoringInv == OldEvents /\ \A r \in Runs : Purged(r)

\* The cutoff and its minute are times, not after the run.
LEMMA CutoffType == ASSUME Types, NEW r \in Runs
    PROVE /\ Cutoff(r) \in Int /\ Cutoff(r) <= now[r]
          /\ Bucket(Cutoff(r)) \in Int /\ Bucket(Cutoff(r)) <= Cutoff(r)
<1>1. DefaultRetentionDays * Day \in Nat /\ now[r] \in Nat
  BY RetentionAssumption DEF Types
<1>2. Cutoff(r) \in Int /\ Cutoff(r) <= now[r]
  BY <1>1 DEF Cutoff
<1>3. QED
  BY <1>2, CutIsBefore, RetentionAssumption DEF Bucket

\* What is captured while a run is under way is not older than its cutoff.
LEMMA CaptureKeepsMonitoring ==
    ASSUME IInv, MonitoringInv, NEW c \in Captures, Capture(c) PROVE MonitoringInv'
<1> USE DEF IInv, settings, run
<1>1. /\ receivedAt[c] = 0 /\ receivedAt' = [receivedAt EXCEPT ![c] = clock] /\ clock > 0
      /\ monitoringEvents' = monitoringEvents \cup {c}
      /\ minuteRollups' = minuteRollups \cup {Bucket(clock)}
      /\ minuteDims' = minuteDims \cup {Bucket(clock)}
      /\ UNCHANGED <<clock, settings, run, shortest>>
  BY DEF Capture
<1>2. receivedAt'[c] = clock /\ \A d \in Captures \ {c} : receivedAt'[d] = receivedAt[d]
  BY <1>1 DEF Types
<1>3. \A r \in Runs : Cutoff(r)' = Cutoff(r)
  BY <1>1 DEF Cutoff
<1>4. OldEvents'
  <2>1. RemovedEvents' = RemovedEvents /\ c \notin RemovedEvents
    BY <1>1, <1>2 DEF RemovedEvents
  <2>2. QED
    BY <1>1, <1>2, <1>3, <2>1 DEF MonitoringInv, OldEvents, Slack, RemovedEvents
<1>5. ASSUME NEW r \in Runs PROVE Purged(r)'
  <2>1. Cutoff(r) \in Int /\ Bucket(Cutoff(r)) \in Int
    BY CutoffType
  <2>2. pc[r] # "idle" => Cutoff(r) <= clock /\ Bucket(Cutoff(r)) <= Bucket(clock)
    <3>1. SUFFICES ASSUME pc[r] # "idle"
                   PROVE Cutoff(r) <= clock /\ Bucket(Cutoff(r)) <= Bucket(clock)
      OBVIOUS
    <3>2. now[r] <= clock /\ now[r] \in Int /\ clock \in Int /\ Cutoff(r) <= now[r]
      BY <3>1, CutoffType DEF Types, SelectedOutlived, UnderWay
    <3>3. Cutoff(r) <= clock
      BY <2>1, <3>2
    <3>4. QED
      BY <2>1, <3>2, <3>3, CutKeepsOrder, RetentionAssumption DEF Bucket
  <2>3. clock \in Int /\ \A d \in monitoringEvents : d \in Captures
    BY DEF Types
  <2>4. pc[r] \in {"rollups", "dims", "ok"} =>
          \A d \in monitoringEvents' :
             receivedAt'[d] >= Cutoff(r) - (IF backend = "sql" THEN 1 ELSE 0)
    BY <1>1, <1>2, <2>1, <2>2, <2>3 DEF MonitoringInv, Purged
  <2>5. /\ pc[r] \in {"dims", "ok"} => \A m \in minuteRollups' : m >= Bucket(Cutoff(r))
        /\ pc[r] = "ok" => \A m \in minuteDims' : m >= Bucket(Cutoff(r))
    BY <1>1, <2>1, <2>2 DEF MonitoringInv, Purged
  <2>6. Bucket(Cutoff(r))' = Bucket(Cutoff(r))
    BY <1>3 DEF Bucket
  <2>7. QED
    BY <1>1, <1>3, <2>4, <2>5, <2>6 DEF Purged
<1>6. QED
  BY <1>4, <1>5 DEF MonitoringInv

\* The steps that leave the monitoring tables alone.
LEMMA OthersKeepMonitoring ==
    ASSUME IInv, MonitoringInv,
           \/ Tick \/ UNCHANGED vars
           \/ \E i \in Inboxes : PatchRetention(i) \/ SoftDelete(i)
           \/ \E r \in Runs : Begin(r) \/ Select(r) \/ DeleteOne(r)
    PROVE  MonitoringInv'
<1> USE DEF IInv, settings, run, purged
<1> DEFINE Progress ==
            /\ UNCHANGED <<backend, receivedAt, monitoringEvents, minuteRollups, minuteDims>>
            /\ pc' \in [Runs -> {"idle", "purge", "select", "nothing", "delete", "events", "rollups",
                              "dims", "ok", "failed"}]
            /\ \A r \in Runs : \/ pc'[r] = pc[r] /\ now'[r] = now[r]
                               \/ pc[r] = "idle" /\ pc'[r] \in {"purge", "select"}
                               \/ /\ pc[r] # "idle" /\ now'[r] = now[r]
                                  /\ pc'[r] \in {"nothing", "delete", "events"}
<1>1. Progress
  <2>1. CASE Tick \/ UNCHANGED vars \/ \E i \in Inboxes : PatchRetention(i) \/ SoftDelete(i)
    BY <2>1 DEF Tick, vars, PatchRetention, SoftDelete, Types
  <2>2. ASSUME NEW r \in Runs, Begin(r) \/ Select(r) \/ DeleteOne(r)
        PROVE  Progress
    BY <2>2, RetentionAssumption DEF Begin, Select, DeleteOne, Goto, Types
  <2>3. QED
    BY <2>1, <2>2
<1>2. \A r \in Runs : now'[r] = now[r] => Cutoff(r)' = Cutoff(r) /\ Bucket(Cutoff(r))' = Bucket(Cutoff(r))
  BY DEF Cutoff, Bucket
<1>3. OldEvents'
  BY <1>1, <1>2 DEF MonitoringInv, OldEvents, Slack, RemovedEvents
<1>4. ASSUME NEW r \in Runs PROVE Purged(r)'
  BY <1>1, <1>2 DEF MonitoringInv, Purged
<1>5. QED
  BY <1>3, <1>4 DEF MonitoringInv

\* A purge of the monitoring tables, in one step or in three, or cut short by a
\* failure.
LEMMA PurgeKeepsMonitoring ==
    ASSUME IInv, MonitoringInv, NEW r \in Runs,
           Purge(r) \/ DeleteEvents(r) \/ DeleteRollups(r) \/ DeleteDims(r) \/ Fail(r)
    PROVE  MonitoringInv'
<1> USE DEF IInv, settings, run
<1>1. /\ UNCHANGED <<backend, clock, receivedAt, now>>
      /\ pc[r] # "idle" /\ pc'[r] # "idle" /\ \A s \in Runs \ {r} : pc'[s] = pc[s]
      /\ monitoringEvents' \subseteq monitoringEvents
      /\ minuteRollups' \subseteq minuteRollups /\ minuteDims' \subseteq minuteDims
  <2>1. CASE Fail(r)
    BY <2>1, FailIsPart DEF Types, EventsLeft
  <2>2. CASE ~ Fail(r)
    BY <2>2 DEF Purge, DeleteEvents, DeleteRollups, DeleteDims, Goto, Types, EventsLeft,
       RollupsLeft, DimsLeft
  <2>3. QED
    BY <2>1, <2>2
<1>2. \A s \in Runs : Cutoff(s)' = Cutoff(s) /\ Bucket(Cutoff(s))' = Bucket(Cutoff(s))
  BY <1>1 DEF Cutoff, Bucket
<1>3. /\ Cutoff(r) \in Int /\ Bucket(Cutoff(r)) \in Int /\ Bucket(Cutoff(r)) <= Cutoff(r)
      /\ \A c \in monitoringEvents : receivedAt[c] \in Int
      /\ \A m \in minuteRollups \cup minuteDims : m \in Int
  BY CutoffType DEF Types
<1>4. \A c \in monitoringEvents :
         /\ ~ TextBefore(receivedAt[c], Cutoff(r)) => Cutoff(r) - 1 <= receivedAt[c]
         /\ TextBefore(receivedAt[c], Cutoff(r)) => receivedAt[c] <= Cutoff(r) + 1
  BY <1>3, TextBeforeIsClose
<1>5. /\ \A c \in monitoringEvents \ monitoringEvents' : receivedAt[c] < Cutoff(r) + Slack
      /\ Purged(r)'
  <2>1. CASE Purge(r)
    <3>1. backend = "memory" /\ pc[r] = "purge"
      BY <2>1 DEF Purge, RightStore
    <3>2. /\ monitoringEvents' = {c \in monitoringEvents : receivedAt[c] >= Cutoff(r)}
          /\ minuteRollups' = {m \in minuteRollups : m >= Cutoff(r)}
          /\ minuteDims' = {m \in minuteDims : m >= Cutoff(r)}
      BY <2>1 DEF Purge
    <3>3. QED
      BY <1>1, <1>2, <1>3, <3>1, <3>2 DEF Purged, Slack
  <2>2. CASE DeleteEvents(r)
    <3>1. /\ backend = "sql" /\ pc'[r] = "rollups"
          /\ monitoringEvents' = {c \in monitoringEvents : ~ TextBefore(receivedAt[c], Cutoff(r))}
      BY <2>2 DEF DeleteEvents, EventsLeft, RightStore, Goto, Types
    <3>2. QED
      BY <1>1, <1>2, <1>3, <1>4, <3>1 DEF Purged, Slack
  <2>3. CASE DeleteRollups(r)
    <3>1. /\ pc[r] = "rollups" /\ pc'[r] = "dims" /\ monitoringEvents' = monitoringEvents
          /\ minuteRollups' = {m \in minuteRollups : m >= Bucket(Cutoff(r))}
      BY <2>3 DEF DeleteRollups, RollupsLeft, Goto, Types
    <3>2. QED
      BY <1>1, <1>2, <3>1 DEF MonitoringInv, Purged
  <2>4. CASE DeleteDims(r)
    <3>1. /\ pc[r] = "dims" /\ pc'[r] = "ok" /\ monitoringEvents' = monitoringEvents
          /\ minuteRollups' = minuteRollups
          /\ minuteDims' = {m \in minuteDims : m >= Bucket(Cutoff(r))}
      BY <2>4 DEF DeleteDims, DimsLeft, Goto, Types
    <3>2. QED
      BY <1>1, <1>2, <3>1 DEF MonitoringInv, Purged
  <2>5. CASE Fail(r)
    <3>1. /\ backend = "sql" /\ pc'[r] = "failed"
          /\ \/ monitoringEvents' = monitoringEvents
             \/ monitoringEvents' = {c \in monitoringEvents : ~ TextBefore(receivedAt[c], Cutoff(r))}
      BY <2>5, FailIsPart DEF EventsLeft, RightStore, Types
    <3>2. QED
      BY <1>1, <1>2, <1>3, <1>4, <3>1 DEF Purged, Slack
  <2>6. QED
    BY <2>1, <2>2, <2>3, <2>4, <2>5
<1>6. OldEvents'
  <2>1. ASSUME NEW c \in RemovedEvents'
        PROVE \E s \in Runs : pc'[s] # "idle" /\ receivedAt[c] < Cutoff(s) + Slack
    <3>1. CASE c \in monitoringEvents
      BY <1>1, <1>5, <3>1 DEF RemovedEvents
    <3>2. CASE c \notin monitoringEvents
      <4>1. c \in RemovedEvents
        BY <1>1, <3>2 DEF RemovedEvents
      <4>2. PICK s \in Runs : pc[s] # "idle" /\ receivedAt[c] < Cutoff(s) + Slack
        BY <4>1 DEF MonitoringInv, OldEvents
      <4>3. QED
        BY <1>1, <4>2
    <3>3. QED
      BY <3>1, <3>2
  <2>2. QED
    BY <1>1, <1>2, <2>1 DEF OldEvents, Slack
<1>7. ASSUME NEW s \in Runs \ {r} PROVE Purged(s)'
  BY <1>1, <1>2 DEF MonitoringInv, Purged
<1>8. QED
  BY <1>5, <1>6, <1>7 DEF MonitoringInv

\* The inductive invariant of the monitoring tables.
LEMMA MonitoringInvariant == Spec => []MonitoringInv
<1>1. Init => MonitoringInv
  BY DEF Init, MonitoringInv, OldEvents, Purged, RemovedEvents
<1>2. IInv /\ MonitoringInv /\ [Next]_vars => MonitoringInv'
  BY CaptureKeepsMonitoring, OthersKeepMonitoring, PurgeKeepsMonitoring DEF Next
<1>3. QED
  BY <1>1, <1>2, Invariant, PTL DEF Spec

\* An observation is purged only if it was older than the default retention, to
\* the second in SQL, where the DELETE compares texts.
THEOREM OnlyOldEventsPurgedHolds == Spec => []OnlyOldEventsPurged
<1>1. MonitoringInv => OnlyOldEventsPurged
  BY DEF MonitoringInv, OldEvents, OnlyOldEventsPurged, Slack
<1>2. QED
  BY <1>1, MonitoringInvariant, PTL

\* A run that got to its end leaves nothing in the monitoring tables from before
\* its cutoff, whatever is captured and purged beside it.
THEOREM NoOldMonitoringLeftHolds == Spec => []NoOldMonitoringLeft
<1>1. MonitoringInv => NoOldMonitoringLeft
  BY DEF MonitoringInv, Purged, NoOldMonitoringLeft
<1>2. QED
  BY <1>1, MonitoringInvariant, PTL

--------------------------------------------------------------------------------
\* What the runs count and report.

\* What the runs have counted is no more than what is gone, and all of that
\* unless a run failed, for only then is a request removed that is not counted.
RunsCount ==
    /\ SumFunctionOnSet(deleted, Runs) <= Cardinality(Removed)
    /\ (\A r \in Runs : pc[r] # "failed") => SumFunctionOnSet(deleted, Runs) = Cardinality(Removed)

\* A statement that removes requests of the store and counts them, for one run,
\* keeps the counts and what is gone as they were.
LEMMA CountingKeeps ==
    ASSUME IInv, IInv', RunsCount, NEW r \in Runs, NEW gone \in SUBSET requests,
           receivedAt' = receivedAt, requests' = requests \ gone,
           \A s \in Runs : pc[s] = "failed" => pc'[s] = "failed",
           deleted' = [deleted EXCEPT ![r] = deleted[r] + Cardinality(gone)]
    PROVE  RunsCount'
<1>1. /\ IsFiniteSet(Removed) /\ IsFiniteSet(gone) /\ Removed \cap gone = {}
      /\ Removed' = Removed \cup gone
  <2>1. Removed \in SUBSET Captures /\ gone \in SUBSET Captures
    BY DEF Removed, IInv, Types
  <2>2. \A c \in gone : receivedAt[c] # 0
    BY DEF IInv, Arrived
  <2>3. QED
    BY <2>1, <2>2, RetentionAssumption, FS_Subset DEF Removed
<1>2. Cardinality(Removed') = Cardinality(Removed) + Cardinality(gone) /\ Cardinality(gone) \in Nat
  <2>1. /\ Cardinality(Removed) \in Nat /\ Cardinality(gone) \in Nat
        /\ Cardinality(Removed \cap gone) = 0
    BY <1>1, FS_EmptySet, FS_CardinalityType
  <2>2. Cardinality(Removed \cup gone)
           = Cardinality(Removed) + Cardinality(gone) - Cardinality(Removed \cap gone)
    BY <1>1, FS_Union
  <2>3. QED
    BY <1>1, <2>1, <2>2
<1>3. /\ \A s \in Runs : deleted[s] \in Nat /\ (s # r => deleted'[s] = deleted[s])
      /\ deleted'[r] = deleted[r] + Cardinality(gone) /\ deleted'[r] \in Nat
  BY <1>2 DEF IInv, Types
<1>4. /\ SumFunctionOnSet(deleted, Runs) \in Nat /\ SumFunctionOnSet(deleted', Runs) \in Nat
      /\ SumFunctionOnSet(deleted', Runs) = SumFunctionOnSet(deleted, Runs) - deleted[r] + deleted'[r]
  <2>1. IsFiniteSet(Runs)
    BY RetentionAssumption
  <2>2. PICK f, g : f = deleted /\ g = deleted'
    OBVIOUS
  <2>3. g[r] \in Nat /\ \A s \in Runs : f[s] \in Nat /\ (s # r => g[s] = f[s])
    BY <1>3, <2>2
  <2>4. /\ SumFunctionOnSet(f, Runs) \in Nat /\ SumFunctionOnSet(g, Runs) \in Nat
        /\ SumFunctionOnSet(g, Runs) = SumFunctionOnSet(f, Runs) - f[r] + g[r]
    BY ONLY <2>1, <2>3, SumChange
  <2>5. QED
    BY <2>2, <2>4
<1>5. SumFunctionOnSet(deleted', Runs) = SumFunctionOnSet(deleted, Runs) + Cardinality(gone)
  BY <1>2, <1>3, <1>4
<1>6. Cardinality(Removed) \in Nat
  BY <1>1, FS_CardinalityType
<1>7. QED
  BY <1>2, <1>4, <1>5, <1>6 DEF RunsCount

\* A capture is not gone, whatever else goes on.
LEMMA NothingGone ==
    ASSUME IInv, RunsCount,
           \/ \E c \in Captures : Capture(c)
           \/ Tick \/ \E i \in Inboxes : PatchRetention(i) \/ SoftDelete(i)
           \/ \E r \in Runs : \/ Begin(r) \/ Select(r) \/ DeleteEvents(r) \/ DeleteRollups(r)
                              \/ DeleteDims(r)
           \/ UNCHANGED vars
    PROVE  RunsCount'
<1>1. CASE \E c \in Captures : Capture(c)
  <2>1. PICK c \in Captures : Capture(c)
    BY <1>1
  <2>2. /\ receivedAt[c] = 0 /\ receivedAt' = [receivedAt EXCEPT ![c] = clock]
        /\ requests' = requests \cup {c} /\ deleted' = deleted
    BY <2>1 DEF Capture, run
  <2>3. Removed' = Removed
    BY <2>2 DEF Removed, IInv, Types
  <2>4. pc' = pc
    BY <2>1 DEF Capture, run
  <2>5. QED
    BY <2>2, <2>3, <2>4 DEF RunsCount
<1>2. ASSUME UNCHANGED <<receivedAt, requests, deleted>>,
             \A r \in Runs : pc[r] = "failed" => pc'[r] = "failed"
      PROVE  RunsCount'
  BY <1>2 DEF RunsCount, Removed
<1>3. CASE ~ \E c \in Captures : Capture(c)
  <2>1. UNCHANGED <<receivedAt, requests, deleted>>
    BY <1>3 DEF Tick, PatchRetention, SoftDelete, Begin, Select, DeleteEvents, DeleteRollups,
       DeleteDims, vars, run, purged
  <2>2. \A r \in Runs : pc[r] = "failed" => pc'[r] = "failed"
    BY <1>3 DEF Tick, PatchRetention, SoftDelete, Begin, Select, DeleteEvents, DeleteRollups,
       DeleteDims, vars, run, Goto, IInv, Types
  <2>3. QED
    BY <1>2, <2>1, <2>2
<1>4. QED
  BY <1>1, <1>3

\* A run that fails may remove a request nobody counts.
LEMMA FailKeepsCount ==
    ASSUME IInv, IInv', RunsCount, NEW r \in Runs, Fail(r) PROVE RunsCount'
<1>1. /\ pc'[r] = "failed" /\ requests' \subseteq requests /\ UNCHANGED <<receivedAt, deleted>>
  BY FailIsPart DEF IInv, Types
<1>2. /\ IsFiniteSet(Removed') /\ Removed \subseteq Removed'
  <2>1. Removed \subseteq Removed' /\ Removed' \in SUBSET Captures
    BY <1>1 DEF Removed
  <2>2. QED
    BY <2>1, PartOfCaptures
<1>3. /\ Cardinality(Removed) <= Cardinality(Removed')
      /\ Cardinality(Removed) \in Nat /\ Cardinality(Removed') \in Nat
  BY <1>2, FS_Subset, FS_CardinalityType
<1>4. SumFunctionOnSet(deleted, Runs) \in Nat
  BY SumType, RetentionAssumption DEF IInv, Types
<1>5. SumFunctionOnSet(deleted, Runs)' = SumFunctionOnSet(deleted, Runs)
  BY <1>1
<1>6. QED
  BY <1>1, <1>3, <1>4, <1>5 DEF RunsCount

\* What the runs count is right, however many of them overlap or fail.
LEMMA RunsCountRight == Spec => []RunsCount
<1>1. Init => RunsCount
  <2>1. SUFFICES ASSUME Init PROVE RunsCount
    OBVIOUS
  <2>2. Removed = {} /\ Cardinality({}) = 0
    <3>1. \A c \in Captures : receivedAt[c] = 0
      BY <2>1 DEF Init
    <3>2. requests = {}
      BY <2>1 DEF Init
    <3>3. QED
      BY <3>1, <3>2, FS_EmptySet DEF Removed
  <2> DEFINE U == {s \in SUBSET Runs : SumFunctionOnSet(deleted, s) = 0}
  <2>3. U \in SUBSET SUBSET Runs /\ {} \in U
    BY SumEmpty
  <2>4. ASSUME NEW s \in U, NEW r \in Runs \ s PROVE s \cup {r} \in U
    <3>1. \A x \in Runs : deleted[x] = 0
      BY <2>1 DEF Init
    <3>2. /\ s \in SUBSET Runs /\ IsFiniteSet(s) /\ r \notin s
          /\ \A x \in s \cup {r} : deleted[x] \in Nat /\ deleted[r] = 0
      BY <3>1, FS_Subset, RetentionAssumption
    <3>3. SumFunctionOnSet(deleted, s \cup {r}) = deleted[r] + SumFunctionOnSet(deleted, s)
      BY <3>2, SumAdd
    <3>4. QED
      BY <3>2, <3>3
  <2>5. U = SUBSET Runs
    <3> HIDE DEF U
    <3>1. QED
      BY <2>3, <2>4, AllSubsets, RetentionAssumption
  <2>6. QED
    BY <2>2, <2>5 DEF RunsCount
<1>2. ASSUME IInv, IInv', RunsCount, NEW r \in Runs, Purge(r) PROVE RunsCount'
  <2> DEFINE expired == {c \in requests : Expired(c, now[r])}
  <2>1. /\ requests' = requests \ expired /\ receivedAt' = receivedAt
        /\ deleted' = [deleted EXCEPT ![r] = Cardinality(expired)]
        /\ \A s \in Runs : pc[s] = "failed" => pc'[s] = "failed"
    BY <1>2 DEF Purge, Goto, IInv, Types
  <2>2. deleted[r] = 0 /\ Cardinality(expired) \in Nat
    <3>1. deleted[r] = 0
      BY <1>2 DEF Purge, IInv, Counted
    <3>2. expired \in SUBSET Captures
      BY <1>2 DEF IInv, Types
    <3>3. QED
      BY <3>1, <3>2, PartOfCaptures
  <2>3. deleted' = [deleted EXCEPT ![r] = deleted[r] + Cardinality(expired)]
    <3> HIDE DEF expired
    <3>1. deleted[r] + Cardinality(expired) = Cardinality(expired)
      BY <2>2
    <3>2. QED
      BY <2>1, <3>1
  <2>4. expired \in SUBSET requests
    OBVIOUS
  <2> HIDE DEF expired
  <2>5. QED
    BY <1>2, <2>1, <2>3, <2>4, CountingKeeps
<1>3. ASSUME IInv, IInv', RunsCount, NEW r \in Runs, DeleteOne(r) PROVE RunsCount'
  <2>1. PICK c \in ids[r] : /\ requests' = requests \ {c}
                            /\ deleted' = [deleted EXCEPT ![r] = @ + Cardinality(requests \cap {c})]
    BY <1>3 DEF DeleteOne
  <2>2. requests' = requests \ (requests \cap {c}) /\ requests \cap {c} \in SUBSET requests
        /\ receivedAt' = receivedAt /\ \A s \in Runs : pc[s] = "failed" => pc'[s] = "failed"
    BY <1>3, <2>1 DEF DeleteOne, Goto, IInv, Types
  <2>3. deleted' = [deleted EXCEPT ![r] = deleted[r] + Cardinality(requests \cap {c})]
    BY <2>1
  <2>4. QED
    BY <1>3, <2>2, <2>3, CountingKeeps
<1>4. IInv /\ IInv' /\ RunsCount /\ [Next]_vars => RunsCount'
  BY <1>2, <1>3, NothingGone, FailKeepsCount DEF Next
<1>5. QED
  BY <1>1, <1>4, Invariant, PTL DEF Spec

\* What a run reports is what it counted, or nothing.
LEMMA ReportsAreCounts ==
    ASSUME IInv
    PROVE  LET total == SumFunctionOnSet([r \in Runs |-> Reported(r)], Runs)
               counted == SumFunctionOnSet(deleted, Runs)
           IN  /\ total \in Nat /\ counted \in Nat /\ total <= counted
               /\ (\A r \in Runs : pc[r] \in {"idle", "ok", "nothing"}) => total = counted
<1> DEFINE f == [r \in Runs |-> Reported(r)]
<1>1. /\ \A r \in Runs : deleted[r] \in Nat /\ f[r] \in Nat /\ f[r] <= deleted[r]
      /\ (\A r \in Runs : pc[r] \in {"idle", "ok", "nothing"}) => \A r \in Runs : f[r] = deleted[r]
  BY DEF Reported, IInv, Types, Counted
<1> HIDE DEF f
<1>2. IsFiniteSet(Runs)
  BY RetentionAssumption
<1>3. /\ SumFunctionOnSet(f, Runs) \in Nat /\ SumFunctionOnSet(deleted, Runs) \in Nat
      /\ SumFunctionOnSet(f, Runs) <= SumFunctionOnSet(deleted, Runs)
  BY <1>1, <1>2, SumType, SumSmaller
<1>4. (\A r \in Runs : pc[r] \in {"idle", "ok", "nothing"})
         => SumFunctionOnSet(f, Runs) = SumFunctionOnSet(deleted, Runs)
  BY <1>1, <1>2, SumSame
<1>5. QED
  BY <1>3, <1>4 DEF f

\* What the runs report is never more than the requests that are gone, however
\* many of them overlap or fail, on either store, and exactly that when none
\* failed or is still under way.
THEOREM CountsAddUpHolds == Spec => []CountsAddUp
<1>1. IInv /\ RunsCount => CountsAddUp
  <2>1. SUFFICES ASSUME IInv, RunsCount PROVE CountsAddUp
    OBVIOUS
  <2> DEFINE total == SumFunctionOnSet([r \in Runs |-> Reported(r)], Runs)
             counted == SumFunctionOnSet(deleted, Runs)
  <2>2. /\ total \in Nat /\ counted \in Nat /\ total <= counted
        /\ (\A r \in Runs : pc[r] \in {"idle", "ok", "nothing"}) => total = counted
    BY <2>1, ReportsAreCounts
  <2>3. Cardinality(Removed) \in Nat /\ counted <= Cardinality(Removed)
        /\ ((\A r \in Runs : pc[r] # "failed") => counted = Cardinality(Removed))
    BY <2>1, PartOfCaptures DEF RunsCount, Removed
  <2> HIDE DEF counted
  <2>4. /\ total <= Cardinality(Removed)
        /\ (\A r \in Runs : pc[r] \in {"idle", "ok", "nothing"}) => total = Cardinality(Removed)
    BY <2>2, <2>3
  <2>5. QED
    BY <2>4 DEF CountsAddUp
<1>2. QED
  BY <1>1, Invariant, RunsCountRight, PTL
================================================================================
