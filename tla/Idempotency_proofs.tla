--------------------------- MODULE Idempotency_proofs ---------------------------
(***************************************************************************)
(* The invariants of Idempotency, for any number of calls, keys and map    *)
(* entries.                                                                *)
(***************************************************************************)
EXTENDS Idempotency, CommonLemmas, FiniteSetTheorems

--------------------------------------------------------------------------------
\* The inductive invariant.

\* What is in the map is what a call with that key stored.
EntriesGenuine ==
    \A k \in DOMAIN idempoResponses :
       LET c == idempoResponses[k].body
       IN  c \in inboxes /\ key[c] = k /\ idempoResponses[k].expiresAt = storeAt[c] + TTL

\* Where a call is tells whether it created its inbox and what it answered.
PlacesRight ==
    \A c \in Calls :
       /\ c \in inboxes => pc[c] \in {"store", "evict", "write", "done"}
       /\ pc[c] \in {"store", "evict", "write"} => c \in inboxes
       /\ answer[c].kind = "created" => c \in inboxes /\ pc[c] = "done"
       /\ answer[c].kind # "none" => pc[c] = "done"
       /\ readAt[c] <= clock /\ storeAt[c] <= clock

\* An answer that is not forgotten is in the map, or has expired; an entry that
\* was written over it keeps it at least as long.
Kept ==
    \A c \in Calls \ forgotten : HasStored(c) =>
       \/ clock > storeAt[c] + TTL
       \/ /\ key[c] \in DOMAIN idempoResponses
          /\ idempoResponses[key[c]].expiresAt >= storeAt[c] + TTL

\* A call that found no answer will store its own later than those expired.
NotFoundIsExpired ==
    \A d \in Calls : \A c \in answeredBefore[d] :
       /\ c \in Calls /\ answer[c].kind = "created"
       /\ c \notin forgotten /\ pc[d] = "create" /\ key[c] = key[d] => clock > storeAt[c] + TTL

IInv ==
    /\ TypeOK
    /\ EntriesGenuine
    /\ PlacesRight
    /\ ReplayIsGenuine

RetryInv ==
    /\ Kept
    /\ NotFoundIsExpired
    /\ RetryCreatesNothing

--------------------------------------------------------------------------------
\* The map.

\* The purge keeps what has not expired as it is.
LEMMA UnexpiredIsPart ==
    ASSUME NEW map, NEW t
    PROVE  /\ DOMAIN Unexpired(map, t) \subseteq DOMAIN map
           /\ \A k \in DOMAIN Unexpired(map, t) :
                 Unexpired(map, t)[k] = map[k] /\ ~ (t > map[k].expiresAt)
           /\ \A k \in DOMAIN map \ DOMAIN Unexpired(map, t) : t > map[k].expiresAt
BY DEF Unexpired, Restrict

\* What a call puts in the map: its own answer, beside what has not expired.
LEMMA StorePuts ==
    ASSUME NEW c, storeIdempotencyResponse(c)
    PROVE  LET old == Unexpired(idempoResponses, storeAt[c])
           IN  /\ DOMAIN idempoResponses' = DOMAIN old \cup {key[c]}
               /\ DOMAIN old \subseteq DOMAIN idempoResponses
               /\ \A k \in DOMAIN old : old[k] = idempoResponses[k]
               /\ \A k \in DOMAIN old \ {key[c]} : idempoResponses'[k] = idempoResponses[k]
               /\ idempoResponses'[key[c]] = [body |-> c, expiresAt |-> storeAt[c] + TTL]
<1> DEFINE old == Unexpired(idempoResponses, storeAt[c])
           own == [body |-> c, expiresAt |-> storeAt[c] + TTL]
<1>1. idempoResponses' = [k \in DOMAIN old \cup {key[c]} |-> IF k = key[c] THEN own ELSE old[k]]
  BY DEF storeIdempotencyResponse
<1>2. /\ DOMAIN old \subseteq DOMAIN idempoResponses
      /\ \A k \in DOMAIN old : old[k] = idempoResponses[k]
  BY UnexpiredIsPart
<1> HIDE DEF old
<1>3. QED
  BY <1>1, <1>2 DEF old

\* A turn of the loop takes one entry out and leaves the others as they are.
LEMMA EvictTakesOne ==
    ASSUME NEW c, Evict(c)
    PROVE  \E oldest \in DOMAIN idempoResponses :
              /\ DOMAIN idempoResponses' = DOMAIN idempoResponses \ {oldest}
              /\ \A k \in DOMAIN idempoResponses' : idempoResponses'[k] = idempoResponses[k]
              /\ forgotten' = forgotten \cup {d \in Calls : HasStored(d) /\ key[d] = oldest}
BY DEF Evict, Oldest, Restrict

--------------------------------------------------------------------------------
\* Type correctness and what is in the map.

\* Before the first call.
LEMMA InitEstablishes == ASSUME Init PROVE IInv
BY IdempotencyAssumption DEF Init, IInv, TypeOK, EntriesGenuine, PlacesRight, ReplayIsGenuine, Answer

\* Every step of a call, of the clock and a restart keep the invariant.
LEMMA NextKeeps == ASSUME IInv, [Next]_vars PROVE IInv'
<1> USE IdempotencyAssumption DEF IInv, TypeOK, EntriesGenuine, PlacesRight, ReplayIsGenuine,
      Answer, Entry, cache, times, Goto, Reply
<1>1. CASE Tick
  BY <1>1 DEF Tick
<1>2. ASSUME NEW c \in Calls, Begin(c) PROVE IInv'
  BY <1>2 DEF Begin
<1>3. ASSUME NEW c \in Calls, readIdempotencyResponse(c) PROVE IInv'
  <2>1. /\ DOMAIN idempoResponses' \subseteq DOMAIN idempoResponses
        /\ \A k \in DOMAIN idempoResponses' :
              idempoResponses'[k] = idempoResponses[k] /\ ~ (readAt[c] > idempoResponses[k].expiresAt)
    <3>1. idempoResponses' = Unexpired(idempoResponses, readAt[c])
      BY <1>3 DEF readIdempotencyResponse
    <3>2. QED
      BY ONLY <3>1, UnexpiredIsPart
  <2>2. CASE key[c] \in DOMAIN idempoResponses'
    <3> DEFINE b == idempoResponses[key[c]].body
    <3>1. /\ answer' = [answer EXCEPT ![c] = [kind |-> "replayed", body |-> b]]
          /\ pc' = [pc EXCEPT ![c] = "done"]
          /\ UNCHANGED <<clock, key, times, inboxes, answeredBefore, forgotten>>
          /\ pc[c] = "read"
      BY <1>3, <2>1, <2>2 DEF readIdempotencyResponse
    <3>2. b \in inboxes /\ key[b] = key[c] /\ readAt[c] <= storeAt[b] + TTL
      BY <2>1, <2>2
    <3> HIDE DEF b
    <3>3. TypeOK' /\ EntriesGenuine'
      BY <2>1, <3>1, <3>2
    <3>4. PlacesRight'
      BY <3>1, <3>2
    <3>5. ReplayIsGenuine'
      BY <3>1, <3>2
    <3>6. QED
      BY <3>3, <3>4, <3>5
  <2>3. CASE key[c] \notin DOMAIN idempoResponses'
    <3>1. /\ pc' = [pc EXCEPT ![c] = "create"]
          /\ UNCHANGED <<clock, key, times, inboxes, answer, answeredBefore, forgotten>>
          /\ pc[c] = "read"
      BY <1>3, <2>3 DEF readIdempotencyResponse
    <3>2. TypeOK' /\ EntriesGenuine'
      BY <2>1, <3>1
    <3>3. PlacesRight' /\ ReplayIsGenuine'
      BY <3>1
    <3>4. QED
      BY <3>2, <3>3
  <2>4. QED
    BY <2>2, <2>3
<1>4. ASSUME NEW c \in Calls, CreateInbox(c) PROVE IInv'
  BY <1>4 DEF CreateInbox
<1>5. ASSUME NEW c \in Calls, CreateInboxFails(c) PROVE IInv'
  <2>1. /\ pc[c] = "create" /\ pc' = [pc EXCEPT ![c] = "done"]
        /\ inboxes \subseteq inboxes' /\ inboxes' \subseteq inboxes \cup {c}
        /\ createdAt' = [createdAt EXCEPT ![c] = clock]
        /\ answer' = [answer EXCEPT ![c] = [kind |-> "failed", body |-> c]]
        /\ UNCHANGED <<clock, key, readAt, storeAt, idempoResponses, forgotten, answeredBefore>>
    BY <1>5 DEF CreateInboxFails
  <2>2. TypeOK'
    BY <2>1
  <2>3. EntriesGenuine' /\ PlacesRight' /\ ReplayIsGenuine'
    BY <2>1
  <2>4. QED
    BY <2>2, <2>3
<1>6. ASSUME NEW c \in Calls, storeIdempotencyResponse(c) PROVE IInv'
  <2>1. /\ DOMAIN idempoResponses' \subseteq DOMAIN idempoResponses \cup {key[c]}
        /\ \A k \in DOMAIN idempoResponses' \ {key[c]} : idempoResponses'[k] = idempoResponses[k]
        /\ key[c] \in DOMAIN idempoResponses' =>
              idempoResponses'[key[c]] = [body |-> c, expiresAt |-> storeAt[c] + TTL]
    BY ONLY <1>6, StorePuts
  <2>2. pc[c] = "store" /\ pc' = [pc EXCEPT ![c] = "evict"] /\ forgotten' \subseteq Calls
    BY <1>6 DEF storeIdempotencyResponse
  <2>3. UNCHANGED <<clock, key, times, inboxes, answer, answeredBefore>>
    BY <1>6 DEF storeIdempotencyResponse
  <2>4. c \in inboxes /\ clock \in Nat /\ storeAt[c] + TTL \in 0 .. MaxTime + TTL
    BY <2>2
  <2>5. TypeOK'
    <3>1. DOMAIN idempoResponses' \subseteq Keys
      BY <2>1
    <3>2. ASSUME NEW k \in DOMAIN idempoResponses' PROVE idempoResponses'[k] \in Entry
      <4>1. CASE k = key[c]
        BY <2>1, <2>4, <4>1
      <4>2. CASE k # key[c]
        BY <2>1, <4>2
      <4>3. QED
        BY <4>1, <4>2
    <3>3. QED
      BY <3>1, <3>2, <2>2, <2>3
  <2>6. EntriesGenuine'
    <3>1. ASSUME NEW k \in DOMAIN idempoResponses'
          PROVE  LET d == idempoResponses'[k].body
                 IN  /\ d \in inboxes /\ key[d] = k
                     /\ idempoResponses'[k].expiresAt = storeAt[d] + TTL
      <4>1. CASE k = key[c]
        BY <2>1, <2>4, <4>1
      <4>2. CASE k # key[c]
        BY <2>1, <4>2
      <4>3. QED
        BY <4>1, <4>2
    <3>2. QED
      BY <3>1, <2>3
  <2>7. PlacesRight' /\ ReplayIsGenuine'
    BY <2>2, <2>3, <2>4
  <2>8. QED
    BY <2>5, <2>6, <2>7
<1>7. ASSUME NEW c \in Calls, enforceIdempotencyCapLocked(c) PROVE IInv'
  <2>1. CASE Evict(c)
    <3>1. /\ DOMAIN idempoResponses' \subseteq DOMAIN idempoResponses
          /\ \A k \in DOMAIN idempoResponses' : idempoResponses'[k] = idempoResponses[k]
          /\ forgotten' \subseteq Calls
      BY <2>1, EvictTakesOne
    <3>2. UNCHANGED <<clock, key, pc, times, inboxes, answer, answeredBefore>>
      BY <2>1 DEF Evict
    <3>3. QED
      BY <3>1, <3>2
  <2>2. CASE Unlock(c)
    BY <1>7, <2>2 DEF enforceIdempotencyCapLocked, Unlock
  <2>3. QED
    BY <1>7, <2>1, <2>2 DEF enforceIdempotencyCapLocked
<1>8. ASSUME NEW c \in Calls, WriteAnswer(c) PROVE IInv'
  BY <1>8 DEF WriteAnswer
<1>9. CASE Restart
  BY <1>9 DEF Restart, Restrict
<1>10. CASE UNCHANGED vars
  BY <1>10 DEF vars
<1>11. QED
  BY <1>1, <1>2, <1>3, <1>4, <1>5, <1>6, <1>7, <1>8, <1>9, <1>10 DEF Next, HandlerStep

\* The inductive invariant of the map and the calls.
LEMMA Invariant == Spec => []IInv
<1>1. Init => IInv
  BY InitEstablishes
<1>2. IInv /\ [Next]_vars => IInv'
  BY NextKeeps
<1>3. QED
  BY <1>1, <1>2, PTL DEF Spec

\* TypeOK: whatever order calls look up, create, store and answer in, and
\* through restarts.
THEOREM TypeCorrect == Spec => []TypeOK
<1>1. IInv => TypeOK
  BY DEF IInv
<1>2. QED
  BY <1>1, Invariant, PTL

\* A replay answers with the inbox a call with the same key created, not longer
\* than the TTL before (readIdempotencyResponse).
THEOREM ReplayIsGenuineHolds == Spec => []ReplayIsGenuine
<1>1. IInv => ReplayIsGenuine
  BY DEF IInv
<1>2. QED
  BY <1>1, Invariant, PTL

--------------------------------------------------------------------------------
\* The cap.

FinitelyMany == IsFiniteSet(DOMAIN idempoResponses) /\ CapHolds

\* A store puts one entry in a map that was within the cap, and takes the lock.
LEMMA StoreIsOneOver ==
    ASSUME TypeOK, NEW c \in Calls, storeIdempotencyResponse(c), FinitelyMany PROVE FinitelyMany'
<1>1. DOMAIN idempoResponses' \subseteq DOMAIN idempoResponses \cup {key[c]}
  BY StorePuts
<1>2. /\ IsFiniteSet(DOMAIN idempoResponses \cup {key[c]})
      /\ Cardinality(DOMAIN idempoResponses \cup {key[c]}) <= Cardinality(DOMAIN idempoResponses) + 1
  <2>1. /\ IsFiniteSet(DOMAIN idempoResponses)
        /\ Cardinality(DOMAIN idempoResponses) \in Nat
    BY FS_CardinalityType DEF FinitelyMany
  <2>2. QED
    BY <2>1, FS_AddElement
<1>3. /\ IsFiniteSet(DOMAIN idempoResponses')
      /\ Cardinality(DOMAIN idempoResponses')
            <= Cardinality(DOMAIN idempoResponses \cup {key[c]})
  BY <1>1, <1>2, FS_Subset
<1>4. LockFree /\ pc' = [pc EXCEPT ![c] = "evict"]
  BY DEF storeIdempotencyResponse, Goto
<1>5. Cardinality(DOMAIN idempoResponses) <= MaxEntries
  BY <1>4 DEF FinitelyMany, CapHolds
<1>6. /\ Cardinality(DOMAIN idempoResponses) \in Nat /\ Cardinality(DOMAIN idempoResponses') \in Nat
      /\ Cardinality(DOMAIN idempoResponses \cup {key[c]}) \in Nat /\ MaxEntries \in Nat
  BY <1>2, <1>3, FS_CardinalityType, IdempotencyAssumption DEF FinitelyMany
<1>7. Cardinality(DOMAIN idempoResponses') <= MaxEntries + 1
  BY <1>2, <1>3, <1>5, <1>6
<1>8. ~ LockFree' /\ \A d \in Calls : pc'[d] = "evict" <=> d = c
  BY <1>4 DEF LockFree, TypeOK
<1>9. QED
  BY <1>3, <1>7, <1>8 DEF FinitelyMany, CapHolds

\* The loop goes on until the map is within the cap, and only then unlocks.
LEMMA LoopEndsWithinTheCap ==
    ASSUME TypeOK, NEW c \in Calls, enforceIdempotencyCapLocked(c), FinitelyMany
    PROVE  FinitelyMany'
<1> DEFINE map == DOMAIN idempoResponses
<1>1. IsFiniteSet(map) /\ Cardinality(map) \in Nat /\ MaxEntries \in Nat
  BY FS_CardinalityType, IdempotencyAssumption DEF FinitelyMany
<1>2. /\ pc[c] = "evict" /\ Cardinality(map) <= MaxEntries + 1
      /\ \A d \in Calls : pc[d] = "evict" => d = c
  BY DEF enforceIdempotencyCapLocked, FinitelyMany, CapHolds
<1>3. CASE Cardinality(map) > MaxEntries
  <2>1. Evict(c)
    BY <1>3 DEF enforceIdempotencyCapLocked
  <2>2. PICK oldest \in map : map' = map \ {oldest}
    BY <2>1, EvictTakesOne
  <2>3. IsFiniteSet(map') /\ Cardinality(map') = Cardinality(map) - 1
    BY ONLY <1>1, <2>2, FS_RemoveElement
  <2>4. pc' = pc
    BY <2>1 DEF Evict
  <2>5. QED
    BY <1>1, <1>2, <2>3, <2>4 DEF FinitelyMany, CapHolds, LockFree
<1>4. CASE ~ (Cardinality(map) > MaxEntries)
  <2>1. Unlock(c)
    BY <1>4 DEF enforceIdempotencyCapLocked
  <2>2. map' = map /\ pc' = [pc EXCEPT ![c] = "write"]
    BY <2>1 DEF Unlock, cache, Goto
  <2>3. \A d \in Calls : pc'[d] # "evict"
    BY <1>2, <2>2 DEF TypeOK
  <2>4. QED
    BY <1>1, <1>4, <2>2, <2>3 DEF FinitelyMany, CapHolds
<1>5. QED
  BY <1>3, <1>4

\* The loop of enforceIdempotencyCapLocked leaves the map within its cap,
\* whatever calls store at the same time, for any number of calls and keys:
\* it is over it by one at most, and then one call has the lock.
THEOREM CapHoldsAlways == Spec => []CapHolds
<1>1. Init => FinitelyMany
  <2> SUFFICES ASSUME Init PROVE FinitelyMany
    OBVIOUS
  <2>1. IsFiniteSet(DOMAIN idempoResponses) /\ Cardinality(DOMAIN idempoResponses) = 0
    BY FS_EmptySet DEF Init
  <2>2. QED
    BY <2>1, IdempotencyAssumption DEF Init, FinitelyMany, CapHolds
<1>2. TypeOK /\ FinitelyMany /\ [Next]_vars => FinitelyMany'
  <2> SUFFICES ASSUME TypeOK, FinitelyMany, [Next]_vars PROVE FinitelyMany'
    OBVIOUS
  <2>1. ASSUME DOMAIN idempoResponses' \subseteq DOMAIN idempoResponses,
               \A c \in Calls : pc'[c] = "evict" => pc[c] = "evict",
               LockFree \/ ~ LockFree'
        PROVE  FinitelyMany'
    <3>1. /\ IsFiniteSet(DOMAIN idempoResponses')
          /\ Cardinality(DOMAIN idempoResponses') <= Cardinality(DOMAIN idempoResponses)
      BY <2>1, FS_Subset DEF FinitelyMany
    <3>2. /\ Cardinality(DOMAIN idempoResponses') \in Nat
          /\ Cardinality(DOMAIN idempoResponses) \in Nat /\ MaxEntries \in Nat
      BY <3>1, FS_CardinalityType, IdempotencyAssumption DEF FinitelyMany
    <3>3. QED
      BY <2>1, <3>1, <3>2 DEF FinitelyMany, CapHolds
  <2>2. CASE UNCHANGED vars \/ Tick
    BY <2>1, <2>2 DEF vars, cache, Tick, LockFree
  <2>3. ASSUME NEW c \in Calls, Begin(c) \/ CreateInbox(c) \/ CreateInboxFails(c) \/ WriteAnswer(c)
        PROVE FinitelyMany'
    <3>1. idempoResponses' = idempoResponses /\ pc[c] # "evict"
      BY <2>3 DEF cache, Begin, CreateInbox, CreateInboxFails, WriteAnswer
    <3>2. \E l \in {"read", "store", "done"} : pc' = [pc EXCEPT ![c] = l]
      BY <2>3 DEF Begin, CreateInbox, CreateInboxFails, WriteAnswer, Goto
    <3>3. \A d \in Calls : pc'[d] = "evict" <=> pc[d] = "evict"
      BY <3>1, <3>2 DEF TypeOK
    <3>4. QED
      BY <2>1, <3>1, <3>3 DEF LockFree
  <2>4. ASSUME NEW c \in Calls, readIdempotencyResponse(c) PROVE FinitelyMany'
    <3>1. DOMAIN idempoResponses' \subseteq DOMAIN idempoResponses /\ LockFree
      BY <2>4, UnexpiredIsPart DEF readIdempotencyResponse
    <3>2. \E l \in {"create", "done"} : pc' = [pc EXCEPT ![c] = l]
      BY <2>4 DEF readIdempotencyResponse, Goto
    <3>3. \A d \in Calls : pc'[d] = "evict" => pc[d] = "evict"
      BY <3>2 DEF TypeOK
    <3>4. QED
      BY <2>1, <3>1, <3>3
  <2>5. ASSUME NEW c \in Calls, storeIdempotencyResponse(c) PROVE FinitelyMany'
    BY <2>5, StoreIsOneOver
  <2>6. ASSUME NEW c \in Calls, enforceIdempotencyCapLocked(c) PROVE FinitelyMany'
    BY <2>6, LoopEndsWithinTheCap
  <2>7. CASE Restart
    <3>1. DOMAIN idempoResponses' = {} /\ \A c \in Calls : pc'[c] # "evict"
      BY <2>7 DEF Restart, Restrict
    <3>2. IsFiniteSet(DOMAIN idempoResponses') /\ Cardinality(DOMAIN idempoResponses') = 0
      BY <3>1, FS_EmptySet
    <3>3. QED
      BY <3>1, <3>2, IdempotencyAssumption DEF FinitelyMany, CapHolds
  <2>8. QED
    BY <2>2, <2>3, <2>4, <2>5, <2>6, <2>7 DEF Next, HandlerStep
<1>3. FinitelyMany => CapHolds
  BY DEF FinitelyMany
<1>4. QED
  BY <1>1, <1>2, <1>3, TypeCorrect, PTL DEF Spec

--------------------------------------------------------------------------------
\* Retries.

\* A store of one call keeps the answers of the others, or records them as forgotten.
LEMMA StoreKeepsTheOthers ==
    ASSUME IInv, Kept, NEW c \in Calls, storeIdempotencyResponse(c) PROVE Kept'
<1> USE IdempotencyAssumption DEF IInv, TypeOK, Entry
<1> DEFINE old  == Unexpired(idempoResponses, storeAt[c])
           own  == [body |-> c, expiresAt |-> storeAt[c] + TTL]
<1>1. /\ pc[c] = "store" /\ pc' = [pc EXCEPT ![c] = "evict"]
      /\ UNCHANGED <<clock, key, storeAt, answer>>
      /\ forgotten' = forgotten \cup
            {d \in Calls : /\ HasStored(d) /\ key[d] = key[c] /\ key[c] \in DOMAIN old
                           /\ own.expiresAt < old[key[c]].expiresAt}
  BY DEF storeIdempotencyResponse, Goto, times
<1>2. /\ \A k \in DOMAIN old : k \in DOMAIN idempoResponses /\ old[k] = idempoResponses[k]
      /\ \A k \in DOMAIN idempoResponses \ DOMAIN old : storeAt[c] > idempoResponses[k].expiresAt
  BY ONLY UnexpiredIsPart
<1>3. /\ DOMAIN idempoResponses' = DOMAIN old \cup {key[c]}
      /\ \A k \in DOMAIN old \ {key[c]} : idempoResponses'[k] = idempoResponses[k]
      /\ idempoResponses'[key[c]] = own
  BY ONLY storeIdempotencyResponse(c), StorePuts
<1> HIDE DEF old
<1>4. ASSUME NEW x \in Calls \ forgotten', HasStored(x)', x # c, ~ (clock > storeAt[x] + TTL)
      PROVE  /\ key[x] \in DOMAIN idempoResponses'
             /\ idempoResponses'[key[x]].expiresAt >= storeAt[x] + TTL
  <2>1. HasStored(x) /\ x \notin forgotten
    BY <1>1, <1>4 DEF HasStored
  <2>2. key[x] \in DOMAIN idempoResponses /\ idempoResponses[key[x]].expiresAt >= storeAt[x] + TTL
    BY <1>4, <2>1 DEF Kept
  <2>3. key[x] \in DOMAIN old
    <3>1. storeAt[c] <= clock
      BY DEF PlacesRight
    <3>2. QED
      BY <1>2, <1>4, <2>2, <3>1
  <2>4. key[x] = key[c] => ~ (own.expiresAt < old[key[c]].expiresAt)
    BY <1>1, <1>4, <2>1, <2>3
  <2>5. CASE key[x] = key[c]
    BY <1>2, <1>3, <2>2, <2>3, <2>4, <2>5
  <2>6. CASE key[x] # key[c]
    BY <1>3, <2>2, <2>3, <2>6
  <2>7. QED
    BY <2>5, <2>6
<1>5. QED
  <2>1. storeAt[c] \in Nat
    OBVIOUS
  <2>2. SUFFICES ASSUME NEW x \in Calls \ forgotten', HasStored(x)',
                        ~ (clock > storeAt[x] + TTL)
                 PROVE  /\ key[x] \in DOMAIN idempoResponses'
                        /\ idempoResponses'[key[x]].expiresAt >= storeAt[x] + TTL
    BY <1>1 DEF Kept
  <2>3. CASE x = c
    BY <1>3, <2>1, <2>2, <2>3
  <2>4. CASE x # c
    BY <1>4, <2>2, <2>4
  <2>5. QED
    BY <2>3, <2>4

\* A turn of the loop keeps the answers it does not take out, and records those
\* it does as forgotten.
LEMMA EvictKeepsTheOthers ==
    ASSUME IInv, Kept, NEW c \in Calls, Evict(c) PROVE Kept'
<1>1. PICK oldest \in DOMAIN idempoResponses :
         /\ DOMAIN idempoResponses' = DOMAIN idempoResponses \ {oldest}
         /\ \A k \in DOMAIN idempoResponses' : idempoResponses'[k] = idempoResponses[k]
         /\ forgotten' = forgotten \cup {d \in Calls : HasStored(d) /\ key[d] = oldest}
  BY EvictTakesOne
<1>2. UNCHANGED <<clock, key, pc, storeAt, answer>>
  BY DEF Evict, times
<1>3. SUFFICES ASSUME NEW x \in Calls \ forgotten', HasStored(x), ~ (clock > storeAt[x] + TTL)
               PROVE  /\ key[x] \in DOMAIN idempoResponses'
                      /\ idempoResponses'[key[x]].expiresAt >= storeAt[x] + TTL
  BY <1>2 DEF Kept, HasStored
<1>4. /\ x \notin forgotten /\ key[x] # oldest
      /\ key[x] \in DOMAIN idempoResponses /\ idempoResponses[key[x]].expiresAt >= storeAt[x] + TTL
  BY <1>1, <1>3 DEF Kept
<1>5. QED
  BY <1>1, <1>4

\* A lookup misses an answer only once it has expired.
LEMMA LookupFindsTheKept ==
    ASSUME IInv, RetryInv, NEW c \in Calls, readIdempotencyResponse(c) PROVE RetryInv'
<1> USE IdempotencyAssumption DEF IInv, TypeOK, Entry, RetryInv
<1>1. /\ UNCHANGED <<clock, key, storeAt, createdAt, inboxes, answeredBefore, forgotten>>
      /\ pc[c] = "read"
      /\ UNCHANGED answer \/ answer' = [answer EXCEPT ![c] = [kind |-> "replayed",
            body |-> idempoResponses'[key[c]].body]]
      /\ pc' = [pc EXCEPT ![c] = "done"] \/ pc' = [pc EXCEPT ![c] = "create"]
      /\ pc'[c] = "create" => key[c] \notin DOMAIN idempoResponses'
  BY DEF readIdempotencyResponse, times, Goto, Reply
<1>2. /\ \A k \in DOMAIN idempoResponses' : idempoResponses'[k] = idempoResponses[k]
      /\ \A k \in DOMAIN idempoResponses \ DOMAIN idempoResponses' :
            readAt[c] > idempoResponses[k].expiresAt
  <2>1. idempoResponses' = Unexpired(idempoResponses, readAt[c])
    BY DEF readIdempotencyResponse
  <2>2. QED
    BY ONLY <2>1, UnexpiredIsPart
<1>3. /\ c \notin inboxes /\ readAt[c] <= clock /\ answer[c].kind = "none"
      /\ \A x \in Calls : HasStored(x)' <=> HasStored(x)
  <2>1. c \notin inboxes /\ readAt[c] <= clock /\ answer[c].kind = "none"
    BY <1>1 DEF PlacesRight, Answer
  <2>2. \A x \in Calls \ {c} : answer'[x] = answer[x] /\ pc'[x] = pc[x]
    BY <1>1
  <2>3. answer'[c].kind # "created" /\ pc'[c] \in {"done", "create"}
    BY <1>1, <2>1
  <2>4. QED
    BY <1>1, <2>1, <2>2, <2>3 DEF HasStored
<1>4. Kept'
  BY <1>1, <1>2, <1>3 DEF Kept
<1>5. NotFoundIsExpired'
  <2>1. \A d \in Calls : \A x \in answeredBefore[d] :
           x \in Calls /\ x # c /\ answer[x].kind = "created" /\ answer'[x].kind = "created"
    BY <1>1, <1>3 DEF NotFoundIsExpired
  <2>2. ASSUME NEW x \in answeredBefore[c], x \notin forgotten, key[x] = key[c], pc'[c] = "create"
        PROVE clock > storeAt[x] + TTL
    <3>1. HasStored(x)' /\ x \in Calls
      BY <1>1, <2>1 DEF HasStored
    <3>2. QED
      BY <1>1, <1>4, <2>2, <3>1 DEF Kept
  <2>3. QED
    BY <1>1, <2>1, <2>2 DEF NotFoundIsExpired
<1>6. RetryCreatesNothing'
  BY <1>1 DEF RetryCreatesNothing
<1>7. QED
  BY <1>4, <1>5, <1>6

\* Every step keeps what retries rest on.
LEMMA NextKeepsRetryInv == ASSUME IInv, RetryInv, [Next]_vars PROVE RetryInv'
<1> USE IdempotencyAssumption DEF IInv, TypeOK, PlacesRight, RetryInv, Kept, HasStored,
      NotFoundIsExpired, RetryCreatesNothing, cache, times, Goto, Reply
<1>1. CASE Tick
  BY <1>1 DEF Tick, Entry
<1>2. ASSUME NEW c \in Calls, Begin(c) PROVE RetryInv'
  BY <1>2 DEF Begin
<1>3. ASSUME NEW c \in Calls, readIdempotencyResponse(c) PROVE RetryInv'
  BY <1>3, LookupFindsTheKept
<1>4. ASSUME NEW c \in Calls, CreateInbox(c) PROVE RetryInv'
  BY <1>4 DEF CreateInbox
<1>5. ASSUME NEW c \in Calls, CreateInboxFails(c) PROVE RetryInv'
  BY <1>5 DEF CreateInboxFails
<1>6. ASSUME NEW c \in Calls, storeIdempotencyResponse(c) PROVE RetryInv'
  <2>1. Kept'
    BY <1>6, StoreKeepsTheOthers
  <2>2. NotFoundIsExpired' /\ RetryCreatesNothing'
    BY <1>6 DEF storeIdempotencyResponse
  <2>3. QED
    BY <2>1, <2>2
<1>7. ASSUME NEW c \in Calls, enforceIdempotencyCapLocked(c) PROVE RetryInv'
  <2>1. CASE Evict(c)
    <3>1. Kept'
      BY <2>1, EvictKeepsTheOthers
    <3>2. NotFoundIsExpired' /\ RetryCreatesNothing'
      BY <2>1 DEF Evict
    <3>3. QED
      BY <3>1, <3>2
  <2>2. CASE Unlock(c)
    BY <1>7, <2>2 DEF enforceIdempotencyCapLocked, Unlock
  <2>3. QED
    BY <1>7, <2>1, <2>2 DEF enforceIdempotencyCapLocked
<1>8. ASSUME NEW c \in Calls, WriteAnswer(c) PROVE RetryInv'
  BY <1>8 DEF WriteAnswer
<1>9. CASE Restart
  BY <1>9 DEF Restart
<1>10. CASE UNCHANGED vars
  BY <1>10 DEF vars
<1>11. QED
  BY <1>1, <1>2, <1>3, <1>4, <1>5, <1>6, <1>7, <1>8, <1>9, <1>10 DEF Next, HandlerStep

\* A retry made after the 201 creates nothing until the answer is older than
\* the TTL, unless that answer was evicted, overwritten or lost in a restart
\* (handleCreateInbox).
THEOREM RetryCreatesNothingHolds == Spec => []RetryCreatesNothing
<1>1. Init => RetryInv
  BY DEF Init, RetryInv, Kept, HasStored, NotFoundIsExpired, RetryCreatesNothing
<1>2. IInv /\ RetryInv /\ [Next]_vars => RetryInv'
  BY NextKeepsRetryInv
<1>3. RetryInv => RetryCreatesNothing
  BY DEF RetryInv
<1>4. QED
  BY <1>1, <1>2, <1>3, Invariant, PTL DEF Spec
================================================================================
