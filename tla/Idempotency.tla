------------------------------ MODULE Idempotency ------------------------------
(***************************************************************************)
(* POST /v1/inboxes with an Idempotency-Key: handleCreateInbox looks the   *)
(* key up in a map, creates the inbox and puts its answer in the map.  The *)
(* lock idempoMu is held for each of the two accesses, not across the      *)
(* creation between them, and time.Now() is taken before the lock.  An     *)
(* access that evicts is as many steps as it makes turns of its loop.      *)
(*                                                                         *)
(* A key stands for the whole cache key (method, path and header).  An     *)
(* inbox is named by the call that created it, and so is the cached answer.*)
(* Left out: calls without a key, which touch no map.  The map is lost in  *)
(* a restart; the inboxes are in the SQL store and are not.                *)
(***************************************************************************)
EXTENDS Naturals, FiniteSets, Functions

CONSTANTS Calls,       \* requests, first attempts and retries alike
          Keys,
          TTL,         \* idempotencyTTL
          MaxEntries,  \* idempotencyMaxEntries
          MaxTime      \* bound of the clock

ASSUME IdempotencyAssumption ==
    /\ TTL \in Nat \ {0}
    /\ MaxEntries \in Nat \ {0}
    /\ MaxTime \in Nat

VARIABLES clock,
          key,              \* call -> its cache key
          pc,               \* call -> where its handler is
          readAt,           \* call -> time.Now() taken for the lookup
          storeAt,          \* call -> time.Now() taken to store the answer
          idempoResponses,  \* cache key -> [body, expiresAt]
          inboxes,          \* store: inboxes, by the call that created them
          answer,           \* call -> [kind, body] it was sent
          createdAt,        \* history: call -> when its inbox was created
          answeredBefore,   \* history: call -> calls answered 201 when it began
          forgotten         \* history: calls whose answer the map no longer keeps

cache == <<idempoResponses, forgotten>>
times == <<readAt, storeAt, createdAt>>
vars == <<clock, key, pc, times, cache, inboxes, answer, answeredBefore>>

Entry == [body : Calls, expiresAt : 0 .. MaxTime + TTL]
Answer == [kind : {"none", "created", "replayed", "failed", "lost"}, body : Calls]

Goto(c, label) == pc' = [pc EXCEPT ![c] = label]
Reply(c, kind, body) == answer' = [answer EXCEPT ![c] = [kind |-> kind, body |-> body]]

--------------------------------------------------------------------------------
\* The map.

\* Mutant: an entry ends at its expiry, not after it.
UnexpiredStrict(map, t) == Restrict(map, {k \in DOMAIN map : ~ (t >= map[k].expiresAt)})

\* purgeExpiredIdempotencyLocked: what is left at time t.
Unexpired(map, t) == Restrict(map, {k \in DOMAIN map : ~ (t > map[k].expiresAt)})

\* The entries of which the loop over the map takes one: the oldest, any of
\* those as old, for the map has no order.
Oldest(map) ==
    {k \in DOMAIN map : \A l \in DOMAIN map : map[k].expiresAt <= map[l].expiresAt}

\* idempoMu: the call that evicts has it.
LockFree == \A c \in Calls : pc[c] # "evict"

\* History: the calls whose answer has been put in the map.
HasStored(c) == pc[c] \in {"evict", "write"} \/ answer[c].kind = "created"

--------------------------------------------------------------------------------

Tick ==
    /\ clock < MaxTime
    /\ clock' = clock + 1
    /\ UNCHANGED <<key, pc, times, cache, inboxes, answer, answeredBefore>>

\* The request is decoded and time.Now() taken for the lookup.
Begin(c) ==
    /\ pc[c] = "idle"
    /\ Goto(c, "read")
    /\ readAt' = [readAt EXCEPT ![c] = clock]
    /\ answeredBefore' = [answeredBefore EXCEPT ![c] =
          {d \in Calls : answer[d].kind = "created"}]
    /\ UNCHANGED <<clock, key, storeAt, createdAt, cache, inboxes, answer>>

\* Mutant: the lookup does not purge.
readIdempotencyResponseStale(c) ==
    /\ pc[c] = "read" /\ LockFree
    /\ IF key[c] \in DOMAIN idempoResponses
       THEN Reply(c, "replayed", idempoResponses[key[c]].body) /\ Goto(c, "done")
       ELSE UNCHANGED answer /\ Goto(c, "create")
    /\ UNCHANGED <<clock, key, times, cache, inboxes, answeredBefore>>

readIdempotencyResponse(c) ==
    /\ pc[c] = "read" /\ LockFree
    /\ idempoResponses' = Unexpired(idempoResponses, readAt[c])
    /\ IF key[c] \in DOMAIN idempoResponses'
       THEN Reply(c, "replayed", idempoResponses'[key[c]].body) /\ Goto(c, "done")
       ELSE UNCHANGED answer /\ Goto(c, "create")
    /\ UNCHANGED <<clock, key, times, inboxes, answeredBefore, forgotten>>

CreateInbox(c) ==
    /\ pc[c] = "create"
    /\ inboxes' = inboxes \cup {c}
    /\ createdAt' = [createdAt EXCEPT ![c] = clock]
    /\ storeAt' = [storeAt EXCEPT ![c] = clock]
    /\ Goto(c, "store")
    /\ UNCHANGED <<clock, key, readAt, cache, answer, answeredBefore>>

\* Invalid input, or an INSERT that returns an error, before or after it took
\* effect: nothing is cached.
CreateInboxFails(c) ==
    /\ pc[c] = "create"
    /\ inboxes' \in {inboxes, inboxes \cup {c}}
    /\ createdAt' = [createdAt EXCEPT ![c] = clock]
    /\ Reply(c, "failed", c)
    /\ Goto(c, "done")
    /\ UNCHANGED <<clock, key, readAt, storeAt, cache, answeredBefore>>

\* Mutant: an entry that is overwritten adds its time to the new one's.
storeIdempotencyResponseSliding(c) ==
    /\ pc[c] = "store" /\ LockFree
    /\ LET unexpired == Unexpired(idempoResponses, storeAt[c])
           from == IF key[c] \in DOMAIN unexpired THEN unexpired[key[c]].expiresAt ELSE storeAt[c]
       IN  idempoResponses' = [k \in DOMAIN unexpired \cup {key[c]} |->
              IF k = key[c] THEN [body |-> c, expiresAt |-> from + TTL] ELSE unexpired[k]]
    /\ Goto(c, "evict")
    /\ UNCHANGED <<clock, key, times, inboxes, answer, answeredBefore, forgotten>>

\* Lock, purge and insert.  A call with the same key that ran beside this one
\* may have put an answer there that would have been kept longer: a retry
\* does not find that any more.
storeIdempotencyResponse(c) ==
    /\ pc[c] = "store" /\ LockFree
    /\ LET unexpired == Unexpired(idempoResponses, storeAt[c])
           own == [body |-> c, expiresAt |-> storeAt[c] + TTL]
       IN  /\ idempoResponses' = [k \in DOMAIN unexpired \cup {key[c]} |->
                 IF k = key[c] THEN own ELSE unexpired[k]]
           /\ forgotten' = forgotten \cup
                 {d \in Calls :
                    /\ HasStored(d) /\ key[d] = key[c]
                    /\ key[c] \in DOMAIN unexpired
                    /\ own.expiresAt < unexpired[key[c]].expiresAt}
    /\ Goto(c, "evict")
    /\ UNCHANGED <<clock, key, times, inboxes, answer, answeredBefore>>

\* One turn of the loop takes out an oldest entry.
Evict(c) ==
    /\ \E oldest \in Oldest(idempoResponses) :
          /\ idempoResponses' = Restrict(idempoResponses, DOMAIN idempoResponses \ {oldest})
          /\ forgotten' = forgotten \cup {d \in Calls : HasStored(d) /\ key[d] = oldest}
    /\ UNCHANGED <<clock, key, pc, times, inboxes, answer, answeredBefore>>

Unlock(c) ==
    /\ Goto(c, "write")
    /\ UNCHANGED <<clock, key, times, cache, inboxes, answer, answeredBefore>>

\* Mutant: the loop ends one entry too early.
enforceIdempotencyCapLockedEarly(c) ==
    /\ pc[c] = "evict"
    /\ IF Cardinality(DOMAIN idempoResponses) > MaxEntries + 1 THEN Evict(c) ELSE Unlock(c)

\* The loop, and the unlock that comes after it.
enforceIdempotencyCapLocked(c) ==
    /\ pc[c] = "evict"
    /\ IF Cardinality(DOMAIN idempoResponses) > MaxEntries THEN Evict(c) ELSE Unlock(c)

WriteAnswer(c) ==
    /\ pc[c] = "write"
    /\ Reply(c, "created", c)
    /\ Goto(c, "done")
    /\ UNCHANGED <<clock, key, times, cache, inboxes, answeredBefore>>

\* The process is replaced: calls under way are cut, the map starts empty.
Restart ==
    /\ idempoResponses' = Restrict(idempoResponses, {})
    /\ forgotten' = {c \in Calls : pc[c] # "idle"}
    /\ pc' = [c \in Calls |-> IF pc[c] = "idle" THEN "idle" ELSE "done"]
    /\ answer' = [c \in Calls |->
          IF pc[c] \notin {"idle", "done"} THEN [kind |-> "lost", body |-> c] ELSE answer[c]]
    /\ UNCHANGED <<clock, key, times, inboxes, answeredBefore>>

Init ==
    /\ clock = 0
    /\ key \in [Calls -> Keys]
    /\ pc = [c \in Calls |-> "idle"]
    /\ readAt = [c \in Calls |-> 0]
    /\ storeAt = [c \in Calls |-> 0]
    /\ createdAt = [c \in Calls |-> 0]
    /\ idempoResponses = [k \in {} |-> 0]
    /\ inboxes = {}
    /\ answer = [c \in Calls |-> [kind |-> "none", body |-> c]]
    /\ answeredBefore = [c \in Calls |-> {}]
    /\ forgotten = {}

HandlerStep(c) ==
    \/ readIdempotencyResponse(c) \/ CreateInbox(c) \/ CreateInboxFails(c)
    \/ storeIdempotencyResponse(c) \/ enforceIdempotencyCapLocked(c) \/ WriteAnswer(c)

Next ==
    \/ Tick
    \/ \E c \in Calls : Begin(c) \/ HandlerStep(c)
    \/ Restart

Spec == Init /\ [][Next]_vars

--------------------------------------------------------------------------------

TypeOK ==
    /\ clock \in 0 .. MaxTime
    /\ key \in [Calls -> Keys]
    /\ pc \in [Calls -> {"idle", "read", "create", "store", "evict", "write", "done"}]
    /\ readAt \in [Calls -> 0 .. MaxTime]
    /\ storeAt \in [Calls -> 0 .. MaxTime]
    /\ createdAt \in [Calls -> 0 .. MaxTime]
    /\ DOMAIN idempoResponses \subseteq Keys
    /\ \A k \in DOMAIN idempoResponses : idempoResponses[k] \in Entry
    /\ inboxes \subseteq Calls
    /\ answer \in [Calls -> Answer]
    /\ answeredBefore \in [Calls -> SUBSET Calls]
    /\ forgotten \subseteq Calls

\* The loop that evicts leaves the map within its cap, whatever calls store at
\* the same time: it is over it by one entry at most, and then one call has
\* the lock and nobody reads.
CapHolds ==
    /\ Cardinality(DOMAIN idempoResponses) <= MaxEntries + 1
    /\ LockFree => Cardinality(DOMAIN idempoResponses) <= MaxEntries
    /\ \A c, d \in Calls : pc[c] = "evict" /\ pc[d] = "evict" => c = d

\* A retry made after the first call was answered 201 creates nothing while
\* the answer is not older than the TTL, unless the answer was evicted,
\* overwritten by a concurrent call or lost in a restart.
RetryCreatesNothing ==
    \A d \in inboxes : \A c \in answeredBefore[d] \ forgotten :
       key[c] = key[d] => createdAt[d] > storeAt[c] + TTL

\* A replay answers with an inbox that a call with the same key did create,
\* not longer than the TTL ago.
ReplayIsGenuine ==
    \A d \in Calls : answer[d].kind = "replayed" =>
       LET c == answer[d].body
       IN  c \in inboxes /\ key[c] = key[d] /\ readAt[d] <= storeAt[c] + TTL

\* Calls with one key create one inbox, as TestCreateInboxIdempotencyKey
\* expects of two calls in sequence; here nothing is evicted or restarted, no
\* answer expires and no creation returns an error.
OneInboxPerKey ==
    forgotten = {} /\ clock <= TTL =>
       \A c, d \in {e \in inboxes : answer[e].kind # "failed"} : key[c] = key[d] => c = d
================================================================================
