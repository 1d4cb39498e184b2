---------------------------- MODULE AdminGate_proofs ----------------------------
(***************************************************************************)
(* The invariants of AdminGate, for any number of requests and addresses,  *)
(* any limit and any delay of a request on its way to the limiter.         *)
(***************************************************************************)
EXTENDS AdminGate, CommonLemmas

--------------------------------------------------------------------------------
\* The inductive invariant.

\* Requests of i that the window starting at w let in.
LetIn(i, w) == {r \in Routed(i) : window[r] = w}

\* Only a request that has been through the gate is disposed of, and one on its
\* way to the limiter is not later than the delay.
OnTheWay ==
    \A r \in Requests :
       /\ pc[r] \in {"idle", "limiter"} => outcome[r] = "none"
       /\ pc[r] = "limiter" => start[r] <= clock /\ clock <= start[r] + MaxDelay

\* A request was let in by a window of its address, not later than the one
\* there is, that began no more than the delay after it arrived.
LetInInTime ==
    /\ \A i \in DOMAIN entries : entries[i].windowStart <= clock
    /\ \A r \in Requests : outcome[r] = "routed" =>
          /\ ip[r] \in DOMAIN entries /\ window[r] <= entries[ip[r]].windowStart
          /\ window[r] <= start[r] + MaxDelay

IInv ==
    /\ TypeOK
    /\ OnTheWay
    /\ LetInInTime
    /\ CountIsGrants
    /\ DenialIsEarned

--------------------------------------------------------------------------------
\* Sets of requests.

\* A set of requests is finite, and a larger set counts no less.
LEMMA CountGrows == ASSUME NEW S \in SUBSET Requests, NEW T \in SUBSET Requests, S \subseteq T
    PROVE IsFiniteSet(S) /\ Cardinality(S) \in Nat /\ Cardinality(T) \in Nat
          /\ Cardinality(S) <= Cardinality(T)
<1>1. IsFiniteSet(T) /\ IsFiniteSet(S)
  BY FS_Subset, GateAssumption
<1>2. QED
  BY <1>1, FS_Subset, FS_CardinalityType

\* One request more counts one more.
LEMMA CountAddsOne == ASSUME NEW S \in SUBSET Requests, NEW r \in Requests \ S
    PROVE Cardinality(S \cup {r}) = Cardinality(S) + 1
BY CountGrows, FS_AddElement

--------------------------------------------------------------------------------
\* The limiter.

\* Before any request.
LEMMA InitEstablishes == ASSUME Init PROVE IInv
BY GateAssumption DEF Init, IInv, TypeOK, Outcome, OnTheWay, LetInInTime, CountIsGrants,
   DenialIsEarned

\* What Allow changes: the request is done, and nothing of the others.
Disposed(r, verdict) ==
    /\ pc[r] = "limiter" /\ pc' = [pc EXCEPT ![r] = "done"]
    /\ outcome[r] = "none" /\ outcome' = [outcome EXCEPT ![r] = verdict]
    /\ UNCHANGED <<clock, ip, start>>

\* What was earned stays so: a window lets in more, never fewer.
LEMMA EarnedStays ==
    ASSUME IInv, NEW r \in Requests, NEW verdict, Disposed(r, verdict)
    PROVE  \A d \in Requests \ {r} : outcome'[d] = "rate_limited" =>
              Cardinality({g \in Routed(ip[d])' : start[g] + Minute + MaxDelay > start[d]}) >= Limit
<1>1. SUFFICES ASSUME NEW d \in Requests \ {r}, outcome'[d] = "rate_limited"
               PROVE Cardinality({g \in Routed(ip[d])' : start[g] + Minute + MaxDelay > start[d]})
                        >= Limit
  OBVIOUS
<1> DEFINE S == {g \in Routed(ip[d]) : start[g] + Minute + MaxDelay > start[d]}
           T == {g \in Routed(ip[d])' : start[g] + Minute + MaxDelay > start[d]}
<1>2. Cardinality(S) >= Limit
  BY <1>1 DEF Disposed, IInv, TypeOK, DenialIsEarned
<1>3. S \subseteq T /\ S \in SUBSET Requests /\ T \in SUBSET Requests
  BY <1>1 DEF Disposed, Routed, IInv, TypeOK
<1>4. Cardinality(S) \in Nat /\ Cardinality(T) \in Nat /\ Cardinality(S) <= Cardinality(T)
  BY <1>3, CountGrows
<1>5. Limit \in Nat
  BY GateAssumption
<1>6. QED
  BY <1>2, <1>4, <1>5

\* A request that opens a window is the first of it: the window before began at
\* least a minute earlier.
LEMMA OpenWindowKeeps ==
    ASSUME IInv, NEW r \in Requests, pc[r] = "limiter", Disposed(r, "routed"), OpenWindow(r)
    PROVE  IInv'
<1> USE GateAssumption DEF IInv, TypeOK
<1>0. PICK i \in IPs : i = ip[r]
  OBVIOUS
<1> DEFINE new == [windowStart |-> start[r], count |-> 1]
<1>1. /\ i \in IPs /\ NeedsWindow(i, start[r])
      /\ DOMAIN entries' = DOMAIN entries \cup {i}
      /\ entries'[i] = new /\ \A j \in DOMAIN entries \ {i} : entries'[j] = entries[j]
      /\ window' = [window EXCEPT ![r] = start[r]]
  BY <1>0 DEF OpenWindow
<1>2. i \in DOMAIN entries => entries[i].windowStart < start[r]
  BY <1>1 DEF NeedsWindow
<1>3. \A g \in Routed(i) : window[g] < start[r] /\ g # r
  BY <1>0, <1>2 DEF Routed, LetInInTime, Disposed
<1>4. /\ \A j \in IPs \ {i} : Routed(j)' = Routed(j)
      /\ Routed(i)' = Routed(i) \cup {r}
  BY <1>0 DEF Routed, Disposed
<1>5. start[r] <= clock /\ start[r] \in Nat
  BY DEF OnTheWay
<1>6. TypeOK'
  BY <1>1, <1>5 DEF Disposed, Outcome
<1>7. OnTheWay'
  BY DEF OnTheWay, Disposed
<1>8. LetInInTime'
  <2>1. \A j \in DOMAIN entries' : entries'[j].windowStart <= clock
    BY <1>1, <1>5 DEF LetInInTime
  <2>2. ASSUME NEW g \in Requests, outcome'[g] = "routed"
        PROVE /\ ip[g] \in DOMAIN entries' /\ window'[g] <= entries'[ip[g]].windowStart
              /\ window'[g] <= start[g] + MaxDelay
    <3>1. CASE g = r
      BY <1>0, <1>1, <1>5, <3>1
    <3>2. CASE g # r
      <4>1. outcome[g] = "routed" /\ window'[g] = window[g]
        BY <1>1, <2>2, <3>2 DEF Disposed
      <4>2. CASE ip[g] = i
        BY <1>0, <1>1, <1>2, <1>5, <4>1, <4>2 DEF LetInInTime
      <4>3. CASE ip[g] # i
        BY <1>1, <4>1, <4>3 DEF LetInInTime
      <4>4. QED
        BY <4>2, <4>3
    <3>3. QED
      BY <3>1, <3>2
  <2>3. QED
    BY <2>1, <2>2 DEF LetInInTime, Disposed
<1>9. CountIsGrants'
  <2>1. {g \in Routed(i)' : window'[g] = entries'[i].windowStart} = {r}
    BY <1>1, <1>3, <1>4 DEF Routed
  <2>2. ASSUME NEW j \in DOMAIN entries', j # i
        PROVE /\ entries'[j].count = Cardinality({g \in Routed(j)' : window'[g] = entries'[j].windowStart})
              /\ entries'[j].count <= Limit
    <3>1. j \in DOMAIN entries /\ entries'[j] = entries[j] /\ Routed(j)' = Routed(j)
      <4>1. j \in DOMAIN entries /\ j \in IPs /\ entries'[j] = entries[j]
        BY <1>1, <2>2
      <4>2. QED
        BY <1>4, <2>2, <4>1
    <3>2. \A g \in Routed(j) : window'[g] = window[g]
      BY <1>0, <1>1, <2>2 DEF Routed
    <3>3. {g \in Routed(j)' : window'[g] = entries'[j].windowStart}
             = {g \in Routed(j) : window[g] = entries[j].windowStart}
      BY <3>1, <3>2
    <3>4. QED
      BY <3>1, <3>3 DEF CountIsGrants
  <2>3. /\ entries'[i].count = Cardinality({g \in Routed(i)' : window'[g] = entries'[i].windowStart})
        /\ entries'[i].count <= Limit
    <3>1. entries'[i].count = 1 /\ 1 <= Limit
      BY <1>1
    <3>2. QED
      BY <2>1, <3>1, FS_Singleton
  <2>4. QED
    BY ZenonT(40), <1>1, <2>2, <2>3 DEF CountIsGrants, Routed
<1>10. DenialIsEarned'
  <2>1. outcome'[r] = "routed"
    BY DEF Disposed
  <2>2. QED
    BY <2>1, EarnedStays DEF DenialIsEarned, Disposed
<1>11. QED
  BY <1>6, <1>7, <1>8, <1>9, <1>10

\* A request that is counted in is one more of its window.
LEMMA CountInKeeps ==
    ASSUME IInv, NEW r \in Requests, pc[r] = "limiter", Disposed(r, "routed"), CountIn(r)
    PROVE  IInv'
<1> USE GateAssumption DEF IInv, TypeOK
<1>0. PICK i \in IPs : i = ip[r]
  OBVIOUS
<1> DEFINE w == entries[i].windowStart
<1>1. /\ i \in IPs /\ i \in DOMAIN entries /\ start[r] < w + Minute
      /\ entries[i].count < Limit
      /\ entries' = [entries EXCEPT ![i].count = @ + 1]
      /\ window' = [window EXCEPT ![r] = w]
  BY <1>0 DEF CountIn, NeedsWindow
<1>2. /\ DOMAIN entries' = DOMAIN entries
      /\ entries'[i] = [windowStart |-> w, count |-> entries[i].count + 1]
      /\ \A j \in DOMAIN entries \ {i} : entries'[j] = entries[j]
      /\ \A j \in DOMAIN entries : entries'[j].windowStart = entries[j].windowStart
  BY <1>1
<1>3. /\ \A j \in IPs \ {i} : Routed(j)' = Routed(j)
      /\ Routed(i)' = Routed(i) \cup {r}
  BY <1>0 DEF Routed, Disposed
<1>4. r \notin Routed(i)
  BY DEF Routed, Disposed
<1>5. start[r] <= clock /\ clock <= start[r] + MaxDelay /\ w <= clock /\ w \in Nat
  BY <1>0, <1>1 DEF OnTheWay, LetInInTime
<1>6. TypeOK'
  BY <1>1, <1>2, <1>5 DEF Disposed, Outcome
<1>7. OnTheWay'
  BY DEF OnTheWay, Disposed
<1>8. LetInInTime'
  BY <1>0, <1>1, <1>2, <1>5 DEF LetInInTime, Disposed
<1>9. CountIsGrants'
  <2>1. ASSUME NEW j \in DOMAIN entries, j # i
        PROVE /\ entries'[j].count = Cardinality({g \in Routed(j)' : window'[g] = entries'[j].windowStart})
              /\ entries'[j].count <= Limit
    <3>1. j \in IPs /\ entries'[j] = entries[j]
      BY <1>2, <2>1
    <3>2. Routed(j)' = Routed(j) /\ \A g \in Routed(j) : window'[g] = window[g]
      BY <1>1, <1>3, <2>1, <3>1 DEF Routed
    <3>3. {g \in Routed(j)' : window'[g] = entries'[j].windowStart}
             = {g \in Routed(j) : window[g] = entries[j].windowStart}
      BY <3>1, <3>2
    <3>4. QED
      BY <3>1, <3>3 DEF CountIsGrants
  <2>2. /\ entries'[i].count = Cardinality({g \in Routed(i)' : window'[g] = entries'[i].windowStart})
        /\ entries'[i].count <= Limit
    <3>1. {g \in Routed(i)' : window'[g] = entries'[i].windowStart} = LetIn(i, w) \cup {r}
      BY <1>1, <1>2, <1>3, <1>4 DEF LetIn, Routed
    <3>2. LetIn(i, w) \in SUBSET Requests /\ r \notin LetIn(i, w)
      BY <1>4 DEF LetIn, Routed
    <3>3. entries[i].count = Cardinality(LetIn(i, w))
      BY <1>1 DEF CountIsGrants, LetIn
    <3>4. Cardinality(LetIn(i, w) \cup {r}) = entries[i].count + 1
      BY <3>2, <3>3, CountAddsOne
    <3>5. entries'[i].count = entries[i].count + 1 /\ entries'[i].count <= Limit
      BY <1>1, <1>2
    <3>6. QED
      BY <3>1, <3>4, <3>5
  <2>3. QED
    BY ZenonT(40), <1>2, <2>1, <2>2 DEF CountIsGrants, Routed
<1>10. DenialIsEarned'
  <2>1. outcome'[r] = "routed"
    BY DEF Disposed
  <2>2. QED
    BY <2>1, EarnedStays DEF DenialIsEarned, Disposed
<1>11. QED
  BY <1>6, <1>7, <1>8, <1>9, <1>10

\* A request that is refused finds its window full of requests that arrived
\* no more than the delay before the window, and is itself less than a minute
\* after its beginning.
LEMMA DenyKeeps ==
    ASSUME IInv, NEW r \in Requests, pc[r] = "limiter", Disposed(r, "rate_limited"), Deny(r)
    PROVE  IInv'
<1> USE GateAssumption DEF IInv, TypeOK
<1> DEFINE i == ip[r]
           w == entries[i].windowStart
           S == {g \in Routed(i) : start[g] + Minute + MaxDelay > start[r]}
<1>1. /\ i \in IPs /\ i \in DOMAIN entries /\ start[r] < w + Minute
      /\ entries[i].count >= Limit /\ UNCHANGED <<entries, window>>
  BY DEF Deny, NeedsWindow
<1>2. \A j \in IPs : Routed(j)' = Routed(j)
  BY DEF Routed, Disposed
<1>3. TypeOK' /\ OnTheWay'
  BY <1>1 DEF Disposed, Outcome, OnTheWay
<1>4. LetInInTime'
  BY <1>1 DEF LetInInTime, Disposed
<1>5. CountIsGrants'
  BY <1>1, <1>2 DEF CountIsGrants
<1>6. Cardinality(S) >= Limit
  <2>1. ASSUME NEW g \in LetIn(i, w) PROVE g \in S
    BY <1>1, <2>1 DEF LetIn, Routed, LetInInTime
  <2>2. LetIn(i, w) \subseteq S /\ S \in SUBSET Requests /\ LetIn(i, w) \in SUBSET Requests
    BY <2>1 DEF Routed, LetIn
  <2>3. Cardinality(LetIn(i, w)) = entries[i].count
    BY <1>1 DEF CountIsGrants, LetIn
  <2>4. /\ Cardinality(LetIn(i, w)) \in Nat /\ Cardinality(S) \in Nat
        /\ Cardinality(LetIn(i, w)) <= Cardinality(S)
    BY <2>2, CountGrows
  <2>5. QED
    BY <1>1, <2>3, <2>4
<1>7. DenialIsEarned'
  <2>1. \A d \in Requests \ {r} : outcome'[d] = "rate_limited" =>
           Cardinality({g \in Routed(ip[d])' : start[g] + Minute + MaxDelay > start[d]}) >= Limit
    BY EarnedStays
  <2>2. Cardinality({g \in Routed(ip[r])' : start[g] + Minute + MaxDelay > start[r]}) >= Limit
    <3>1. {g \in Routed(ip[r])' : start[g] + Minute + MaxDelay > start[r]} = S
      BY DEF Routed, Disposed
    <3>2. QED
      BY <1>6, <3>1
  <2>3. ip' = ip /\ start' = start
    BY DEF Disposed
  <2>4. QED
    BY <2>1, <2>2, <2>3 DEF DenialIsEarned
<1>8. QED
  BY <1>3, <1>4, <1>5, <1>7

--------------------------------------------------------------------------------
\* The gate.

\* A request arrives: its time is taken and the limiter is still to come.
LEMMA ArriveKeeps == ASSUME IInv, NEW r \in Requests, Arrive(r) PROVE IInv'
<1> USE GateAssumption DEF IInv, TypeOK
<1>1. PICK v \in {"none", "preflight", "cors_origin_not_allowed", "unauthorized"} :
        /\ outcome' = [outcome EXCEPT ![r] = v]
        /\ pc' = [pc EXCEPT ![r] = IF v = "none" THEN "limiter" ELSE "done"]
  BY ZenonT(40) DEF Arrive, Verdict
<1>2. /\ pc[r] = "idle" /\ outcome[r] = "none" /\ start' = [start EXCEPT ![r] = clock]
      /\ UNCHANGED <<clock, entries, ip, window>>
  BY DEF Arrive, OnTheWay
<1>3. TypeOK' /\ OnTheWay' /\ LetInInTime'
  BY <1>1, <1>2 DEF Outcome, OnTheWay, LetInInTime
<1>4. \A i \in IPs : Routed(i)' = Routed(i)
  BY <1>1, <1>2 DEF Routed
<1>5. CountIsGrants'
  BY <1>2, <1>4 DEF CountIsGrants
<1>6. DenialIsEarned'
  <2>1. ASSUME NEW d \in Requests, outcome'[d] = "rate_limited"
        PROVE Cardinality({g \in Routed(ip[d])' : start'[g] + Minute + MaxDelay > start'[d]}) >= Limit
    <3>1. outcome[d] = "rate_limited" /\ d # r
      BY <1>1, <2>1
    <3>2. r \notin Routed(ip[d])
      BY <1>2 DEF Routed
    <3>3. {g \in Routed(ip[d])' : start'[g] + Minute + MaxDelay > start'[d]}
             = {g \in Routed(ip[d]) : start[g] + Minute + MaxDelay > start[d]}
      BY <1>2, <1>4, <3>1, <3>2 DEF Routed
    <3>4. QED
      BY <3>1, <3>3 DEF DenialIsEarned
  <2>2. QED
    BY <1>2, <2>1 DEF DenialIsEarned
<1>7. QED
  BY <1>3, <1>5, <1>6

\* Every step of a request and of the clock keeps the invariant.
LEMMA NextKeeps == ASSUME IInv, [Next]_vars PROVE IInv'
<1>1. CASE UNCHANGED vars
  BY <1>1 DEF vars, IInv, TypeOK, OnTheWay, LetInInTime, CountIsGrants, DenialIsEarned, Routed
<1>2. CASE Tick
  <2>1. /\ clock' = clock + 1 /\ UNCHANGED <<entries, pc, ip, start, outcome, window>>
        /\ \A r \in Requests : pc[r] = "limiter" => clock - start[r] < MaxDelay
    BY <1>2 DEF Tick
  <2>2. TypeOK' /\ OnTheWay' /\ LetInInTime'
    BY <2>1, GateAssumption DEF IInv, TypeOK, OnTheWay, LetInInTime
  <2>3. CountIsGrants' /\ DenialIsEarned'
    BY <2>1 DEF IInv, CountIsGrants, DenialIsEarned, Routed
  <2>4. QED
    BY <2>2, <2>3 DEF IInv
<1>3. ASSUME NEW r \in Requests, Arrive(r) PROVE IInv'
  BY <1>3, ArriveKeeps
<1>4. ASSUME NEW r \in Requests, Allow(r) PROVE IInv'
  <2>1. /\ pc[r] = "limiter" /\ outcome[r] = "none"
        /\ pc' = [pc EXCEPT ![r] = "done"] /\ UNCHANGED <<clock, ip, start>>
    BY <1>4 DEF Allow, IInv, OnTheWay
  <2>2. CASE OpenWindow(r)
    BY <2>1, <2>2, OpenWindowKeeps DEF Disposed, OpenWindow
  <2>3. CASE CountIn(r)
    BY <2>1, <2>3, CountInKeeps DEF Disposed, CountIn
  <2>4. CASE Deny(r)
    BY <2>1, <2>4, DenyKeeps DEF Disposed, Deny
  <2>5. QED
    BY <1>4, <2>2, <2>3, <2>4 DEF Allow
<1>5. QED
  BY <1>1, <1>2, <1>3, <1>4 DEF Next

\* The inductive invariant of the gate.
LEMMA Invariant == Spec => []IInv
<1>1. Init => IInv
  BY InitEstablishes
<1>2. IInv /\ [Next]_vars => IInv'
  BY NextKeeps
<1>3. QED
  BY <1>1, <1>2, PTL DEF Spec

--------------------------------------------------------------------------------
\* The properties.

\* TypeOK, for any number of requests and addresses.
THEOREM TypeCorrect == Spec => []TypeOK
<1>1. IInv => TypeOK
  BY DEF IInv
<1>2. QED
  BY <1>1, Invariant, PTL

\* The counter of a window is the number of requests it let in, whatever order
\* requests of other times reach the limiter in (Limiter.Allow).
THEOREM CountIsGrantsHolds == Spec => []CountIsGrants
<1>1. IInv => CountIsGrants
  BY DEF IInv
<1>2. QED
  BY <1>1, Invariant, PTL

\* A 429 takes as many requests of the same address within the minute (and the
\* delay) as the limit says.
THEOREM DenialIsEarnedHolds == Spec => []DenialIsEarned
<1>1. IInv => DenialIsEarned
  BY DEF IInv
<1>2. QED
  BY <1>1, Invariant, PTL

--------------------------------------------------------------------------------
\* How many a minute lets in.

\* A window has a request that opened it, at its start, and lets in only such
\* as arrive before its minute is over and no more than the limit.
Opened(i, w) == \E g \in LetIn(i, w) : start[g] = w

RightWindow(r) ==
    /\ start[r] < window[r] + Minute
    /\ Opened(ip[r], window[r])
    /\ Cardinality(LetIn(ip[r], window[r])) <= Limit
    /\ \/ window[r] = entries[ip[r]].windowStart
       \/ window[r] + Minute <= entries[ip[r]].windowStart

\* Windows of one address do not overlap.
Apart(r, g) == \/ ip[r] # ip[g] \/ window[r] = window[g]
               \/ window[r] + Minute <= window[g] \/ window[g] + Minute <= window[r]

MinuteInv ==
    /\ \A i \in DOMAIN entries : Opened(i, entries[i].windowStart)
    /\ \A r \in Requests : outcome[r] = "routed" =>
          /\ RightWindow(r)
          /\ \A g \in Requests : outcome[g] = "routed" => Apart(r, g)

\* A new window begins a minute or more after those before it.
LEMMA OpenWindowKeepsMinutes ==
    ASSUME IInv, IInv', MinuteInv, NEW r \in Requests, Disposed(r, "routed"), OpenWindow(r)
    PROVE  MinuteInv'
<1> USE GateAssumption DEF IInv, TypeOK
<1>0. PICK i \in IPs : i = ip[r]
  OBVIOUS
<1>1. /\ NeedsWindow(i, start[r]) /\ DOMAIN entries' = DOMAIN entries \cup {i}
      /\ entries'[i] = [windowStart |-> start[r], count |-> 1]
      /\ \A j \in DOMAIN entries \ {i} : entries'[j] = entries[j]
      /\ window' = [window EXCEPT ![r] = start[r]] /\ window'[r] = start[r]
      /\ ip' = ip /\ start' = start /\ outcome'[r] = "routed"
  BY <1>0 DEF OpenWindow, Disposed
<1>2. \A g \in Requests \ {r} : window'[g] = window[g] /\ outcome'[g] = outcome[g]
  BY <1>1 DEF Disposed
<1>3. \A g \in Requests : outcome[g] = "routed" /\ ip[g] = i => window[g] + Minute <= start[r]
  BY <1>1 DEF NeedsWindow, LetInInTime
<1>4. \A j \in IPs, w \in Nat : j # i \/ w # start[r] => LetIn(j, w)' = LetIn(j, w)
  BY <1>0, <1>1, <1>2 DEF LetIn, Routed, Disposed
<1>5. LetIn(i, start[r])' = {r}
  BY <1>0, <1>1, <1>2, <1>3 DEF LetIn, Routed
<1>6. Opened(i, start[r])' /\ RightWindow(r)'
  <2>1. Cardinality({r}) = 1 /\ 1 <= Limit
    <3>1. Cardinality({r}) = 1
      BY ONLY FS_Singleton
    <3>2. 1 <= Limit
      BY ONLY GateAssumption
    <3>3. QED
      BY ONLY <3>1, <3>2
  <2>2. PICK w : w = start[r]
    OBVIOUS
  <2>3. LetIn(i, w)' = {r} /\ start'[r] = w /\ window'[r] = w /\ w \in Nat /\ ip'[r] = i
        /\ entries'[i].windowStart = w
    BY <1>0, <1>1, <1>5, <2>2 DEF LetIn
  <2>4. LetIn(ip[r], window[r])' = {r}
    BY <2>3 DEF LetIn
  <2>5. Opened(ip[r], window[r])'
    BY <2>3, <2>4 DEF Opened
  <2>6. start'[r] < window'[r] + Minute
    BY <2>3
  <2>7. RightWindow(r)'
    BY <2>1, <2>3, <2>4, <2>5, <2>6 DEF RightWindow
  <2>8. Opened(i, start[r])'
    BY <2>3, <2>5 DEF Opened, LetIn
  <2>9. QED
    BY <2>7, <2>8
<1>7. ASSUME NEW g \in Requests \ {r}, outcome'[g] = "routed"
      PROVE  RightWindow(g)' /\ Apart(r, g)' /\ Apart(g, r)'
  <2>1. /\ outcome[g] = "routed" /\ RightWindow(g) /\ ip[g] \in DOMAIN entries
        /\ window[g] \in Nat /\ window'[g] = window[g] /\ ip[g] \in IPs
    BY <1>2, <1>7 DEF MinuteInv, LetInInTime
  <2>2. ip[g] # i \/ window[g] # start[r]
    BY <1>3, <2>1
  <2>3. LetIn(ip[g], window[g])' = LetIn(ip[g], window[g])
    BY <1>1, <1>4, <2>1, <2>2
  <2>4. /\ start'[g] < window'[g] + Minute
        /\ Opened(ip[g], window[g])'
        /\ Cardinality(LetIn(ip[g], window[g])') <= Limit
    BY <1>1, <2>1, <2>3 DEF RightWindow, Opened
  <2>5. \/ window'[g] = entries'[ip[g]].windowStart
        \/ window'[g] + Minute <= entries'[ip[g]].windowStart
    <3>1. CASE ip[g] = i
      BY <1>1, <1>3, <2>1, <3>1
    <3>2. CASE ip[g] # i
      BY <1>1, <2>1, <3>2 DEF RightWindow
    <3>3. QED
      BY <3>1, <3>2
  <2>6. RightWindow(g)'
    BY <1>1, <2>1, <2>4, <2>5 DEF RightWindow, Opened, LetIn
  <2>7. QED
    BY <1>0, <1>1, <1>3, <2>1, <2>6 DEF Apart
<1>8. ASSUME NEW j \in DOMAIN entries' PROVE Opened(j, entries[j].windowStart)'
  <2>1. CASE j = i
    BY <1>1, <1>6, <2>1 DEF Opened, LetIn
  <2>2. CASE j # i
    <3>1. PICK w : w = entries[j].windowStart
      OBVIOUS
    <3>2. j \in DOMAIN entries /\ entries'[j].windowStart = w /\ Opened(j, w) /\ w \in Nat /\ j \in IPs
      BY <1>1, <1>8, <2>2, <3>1 DEF MinuteInv
    <3>3. LetIn(j, w)' = LetIn(j, w)
      BY <1>4, <2>2, <3>2
    <3>4. Opened(j, w)'
      BY <1>1, <3>2, <3>3 DEF Opened
    <3>5. QED
      BY <3>2, <3>4 DEF Opened, LetIn
  <2>3. QED
    BY <2>1, <2>2
<1>9. \A g, h \in Requests : outcome'[g] = "routed" /\ outcome'[h] = "routed" => Apart(g, h)'
  <2>1. SUFFICES ASSUME NEW g \in Requests, NEW h \in Requests,
                        outcome'[g] = "routed", outcome'[h] = "routed" PROVE Apart(g, h)'
    OBVIOUS
  <2>2. CASE g = r \/ h = r
    BY <1>7, <2>1, <2>2 DEF Apart
  <2>3. CASE g # r /\ h # r
    BY <1>1, <1>2, <2>1, <2>3 DEF MinuteInv, Apart
  <2>4. QED
    BY <2>2, <2>3
<1>10. QED
  BY <1>1, <1>6, <1>7, <1>8, <1>9 DEF MinuteInv

\* A request that is counted in is one more of the window there is.
LEMMA CountInKeepsMinutes ==
    ASSUME IInv, IInv', MinuteInv, NEW r \in Requests, Disposed(r, "routed"), CountIn(r)
    PROVE  MinuteInv'
<1> USE GateAssumption DEF IInv, TypeOK
<1>0. PICK i \in IPs, w \in Nat : i = ip[r] /\ i \in DOMAIN entries /\ w = entries[i].windowStart
  BY DEF CountIn, NeedsWindow
<1>1. /\ start[r] < w + Minute /\ DOMAIN entries' = DOMAIN entries
      /\ \A j \in DOMAIN entries : entries'[j].windowStart = entries[j].windowStart
      /\ window' = [window EXCEPT ![r] = w] /\ window'[r] = w
      /\ ip' = ip /\ start' = start /\ outcome'[r] = "routed" /\ outcome[r] = "none"
  BY <1>0 DEF CountIn, NeedsWindow, Disposed
<1>2. \A g \in Requests \ {r} : window'[g] = window[g] /\ outcome'[g] = outcome[g]
  BY <1>1 DEF Disposed
<1>3. /\ \A j \in IPs, v \in Nat : j # i \/ v # w => LetIn(j, v)' = LetIn(j, v)
      /\ LetIn(i, w)' = LetIn(i, w) \cup {r}
  <2>1. \A j \in IPs \ {i} : Routed(j)' = Routed(j)
    BY <1>0 DEF Routed, Disposed
  <2>2. Routed(i)' = Routed(i) \cup {r} /\ r \notin Routed(i)
    BY <1>0 DEF Routed, Disposed
  <2>3. \A j \in IPs, v \in Nat : j # i \/ v # w => LetIn(j, v)' = LetIn(j, v)
    <3>1. SUFFICES ASSUME NEW j \in IPs, NEW v \in Nat, j # i \/ v # w
                   PROVE LetIn(j, v)' = LetIn(j, v)
      OBVIOUS
    <3>2. \A g \in Routed(j)' : g # r \/ v # w
      BY <1>0, <1>1, <3>1 DEF Routed
    <3>3. QED
      BY <1>1, <1>2, <2>1, <2>2, <3>1, <3>2 DEF LetIn, Routed
  <2>4. LetIn(i, w)' = LetIn(i, w) \cup {r}
    BY <1>1, <1>2, <2>2 DEF LetIn, Routed
  <2>5. QED
    BY <2>3, <2>4
<1>4. Opened(i, w) /\ Opened(i, w)'
  BY <1>0, <1>1, <1>3 DEF MinuteInv, Opened
<1>5. Cardinality(LetIn(i, w)') <= Limit
  BY SMTT(30), <1>0, <1>1 DEF CountIsGrants, LetIn
<1>6. ASSUME NEW g \in Requests, outcome'[g] = "routed"
      PROVE  /\ RightWindow(g)'
             /\ ip[g] = i => window'[g] = w \/ window'[g] + Minute <= w
  <2>1. PICK j \in IPs, v \in Nat : j = ip[g] /\ v = window'[g]
    OBVIOUS
  <2>2. /\ start[g] < v + Minute /\ Opened(j, v)' /\ Cardinality(LetIn(j, v)') <= Limit
        /\ v = entries[j].windowStart \/ v + Minute <= entries[j].windowStart
        /\ j \in DOMAIN entries
    <3>1. CASE g = r
      BY <1>0, <1>1, <1>4, <1>5, <2>1, <3>1
    <3>2. CASE g # r
      <4>1. /\ outcome[g] = "routed" /\ window[g] = v /\ RightWindow(g) /\ j \in DOMAIN entries
        BY <1>2, <1>6, <2>1, <3>2 DEF MinuteInv, LetInInTime
      <4>2. Opened(j, v)' /\ Cardinality(LetIn(j, v)') <= Limit
        <5>1. CASE j = i /\ v = w
          BY <1>4, <1>5, <5>1
        <5>2. CASE j # i \/ v # w
          <6>1. LetIn(j, v)' = LetIn(j, v)
            BY <1>3, <5>2
          <6>2. QED
            BY <1>1, <2>1, <4>1, <6>1 DEF RightWindow, Opened
        <5>3. QED
          BY <5>1, <5>2
      <4>3. QED
        BY <2>1, <4>1, <4>2 DEF RightWindow
    <3>3. QED
      BY <3>1, <3>2
  <2>3. RightWindow(g)'
    BY <1>1, <2>1, <2>2 DEF RightWindow, Opened, LetIn
  <2>4. QED
    BY <1>0, <2>1, <2>2, <2>3
<1>7. ASSUME NEW j \in DOMAIN entries' PROVE Opened(j, entries[j].windowStart)'
  <2>1. PICK v \in Nat : v = entries[j].windowStart
    BY <1>1, <1>7
  <2>2. Opened(j, v) /\ entries'[j].windowStart = v /\ j \in IPs
    BY <1>1, <1>7, <2>1 DEF MinuteInv
  <2>3. Opened(j, v)'
    BY <1>1, <1>3, <1>4, <2>2 DEF Opened
  <2>4. QED
    BY <2>2, <2>3 DEF Opened, LetIn
<1>8. \A g, h \in Requests : outcome'[g] = "routed" /\ outcome'[h] = "routed" => Apart(g, h)'
  <2>1. SUFFICES ASSUME NEW g \in Requests, NEW h \in Requests,
                        outcome'[g] = "routed", outcome'[h] = "routed" PROVE Apart(g, h)'
    OBVIOUS
  <2>2. CASE g = r \/ h = r
    BY <1>0, <1>1, <1>6, <2>1, <2>2 DEF Apart
  <2>3. CASE g # r /\ h # r
    BY <1>1, <1>2, <2>1, <2>3 DEF MinuteInv, Apart
  <2>4. QED
    BY <2>2, <2>3
<1>9. QED
  BY <1>6, <1>7, <1>8 DEF MinuteInv

\* What lets nothing in changes no window.
LEMMA RestKeepsMinutes ==
    ASSUME IInv, MinuteInv,
           Tick \/ (\E r \in Requests : Arrive(r) \/ (Allow(r) /\ Deny(r))) \/ UNCHANGED vars
    PROVE  MinuteInv'
<1>1. /\ UNCHANGED <<entries, ip, window>>
      /\ \A g \in Requests : /\ outcome[g] = "routed" <=> outcome'[g] = "routed"
                             /\ outcome[g] = "routed" => start'[g] = start[g]
  <2>1. CASE Tick \/ UNCHANGED vars
    BY <2>1 DEF Tick, vars
  <2>2. ASSUME NEW r \in Requests, Arrive(r) PROVE <1>1!:
    BY <2>2 DEF Arrive, Verdict, IInv, TypeOK, OnTheWay
  <2>3. ASSUME NEW r \in Requests, Allow(r), Deny(r) PROVE <1>1!:
    BY <2>3 DEF Allow, Deny, IInv, TypeOK, OnTheWay
  <2>4. QED
    BY <2>1, <2>2, <2>3
<1>2. \A i, w : LetIn(i, w)' = LetIn(i, w)
  BY <1>1 DEF LetIn, Routed
<1>3. \A i, w : Opened(i, w) => Opened(i, w)'
  BY <1>1, <1>2 DEF Opened, LetIn, Routed
<1>4. QED
  BY <1>1, <1>2, <1>3 DEF MinuteInv, RightWindow, Apart, Opened, LetIn, Routed

\* The requests of an address that arrive in a minute and are let in: the first
\* of a window is among them for one window at most, and each of the windows
\* they are of lets in fewer than the limit besides.
LEMMA MinuteIsBounded == ASSUME IInv, MinuteInv PROVE PerMinuteBound
<1> USE GateAssumption DEF IInv, TypeOK
<1>1. SUFFICES ASSUME NEW i \in IPs, NEW t \in 0 .. clock
               PROVE  Cardinality({r \in Routed(i) : start[r] \in t .. t + Minute - 1})
                         <= WindowsPerMinute * (Limit - 1) + 1
  BY DEF PerMinuteBound
<1> DEFINE R == {r \in Routed(i) : start[r] \in t .. t + Minute - 1}
           Opener(w) == CHOOSE g \in LetIn(i, w) : start[g] = w
           O == {r \in R : r = Opener(window[r])}
           K == WindowsPerMinute
           span == 2 * Minute + MaxDelay - 2
           since(r) == window[r] + Minute - 1 - t
           f == [r \in R \ O |-> since(r) \div Minute]
<1>2. t \in Nat /\ span \in Nat /\ K \in Nat /\ K = span \div Minute + 1
  <2>1. t \in Nat /\ span \in Nat
    BY ONLY GateAssumption, t \in 0 .. clock, clock \in Nat
  <2>2. span \div Minute \in Nat
    BY <2>1, WholeMinutes
  <2>3. QED
    BY <2>1, <2>2 DEF WindowsPerMinute
<1>3. \A r \in R : /\ r \in Requests /\ outcome[r] = "routed" /\ ip[r] = i
                   /\ start[r] \in Nat /\ t <= start[r] /\ start[r] <= t + Minute - 1
                   /\ window[r] \in Nat /\ RightWindow(r) /\ r \in LetIn(i, window[r])
                   /\ window[r] <= start[r] + MaxDelay
  BY DEF Routed, LetIn, MinuteInv, LetInInTime
<1>4. \A r \in R : Opener(window[r]) \in LetIn(i, window[r]) /\ start[Opener(window[r])] = window[r]
  BY <1>3 DEF RightWindow, Opened
<1>5. \A r, g \in R : \/ window[r] = window[g] \/ window[r] + Minute <= window[g]
                      \/ window[g] + Minute <= window[r]
  BY <1>3 DEF MinuteInv, Apart
<1>6. R \in SUBSET Requests /\ O \in SUBSET R /\ R \ O \in SUBSET Requests
  BY DEF Routed
<1>7. Cardinality(O) \in Nat /\ Cardinality(O) <= 1
  <2>1. SUFFICES ASSUME NEW r \in O, NEW g \in O PROVE r = g
    BY AtMostOne
  <2>2. start[r] = window[r] /\ start[g] = window[g] /\ r \in R /\ g \in R
    BY <1>4
  <2>3. window[r] = window[g]
    BY <1>3, <1>5, <2>2
  <2>4. QED
    BY <2>3
<1>8. \A r \in R : since(r) \in 0 .. span
  <2>1. SUFFICES ASSUME NEW r \in R PROVE since(r) \in 0 .. span
    OBVIOUS
  <2>2. /\ window[r] \in Nat /\ start[r] \in Nat /\ start[r] < window[r] + Minute
        /\ window[r] <= start[r] + MaxDelay /\ t <= start[r] /\ start[r] <= t + Minute - 1
    BY <1>3 DEF RightWindow
  <2>3. QED
    BY ONLY <1>2, <2>2, GateAssumption
<1> HIDE DEF R, Opener, O
<1>9. Cardinality(R \ O) <= K * (Limit - 1)
  <2>1. f \in [R \ O -> 0 .. K - 1]
    <3>1. SUFFICES ASSUME NEW r \in R \ O PROVE since(r) \div Minute \in 0 .. K - 1
      OBVIOUS
    <3>2. since(r) \in Nat /\ since(r) <= span
      BY <1>2, <1>8
    <3> HIDE DEF since, span, K
    <3>3. since(r) \div Minute \in Nat /\ span \div Minute \in Nat
          /\ since(r) \div Minute <= span \div Minute
      BY <1>2, <3>2, WholeMinutes
    <3>4. QED
      BY <1>2, <3>3
  <2>2. ASSUME NEW k \in 0 .. K - 1 PROVE Cardinality({r \in R \ O : f[r] = k}) <= Limit - 1
    <3> DEFINE P == {r \in R \ O : f[r] = k}
    <3>1. CASE P = {}
      <4>1. Cardinality({}) = 0 /\ 0 <= Limit - 1
        BY ONLY FS_EmptySet, GateAssumption
      <4> HIDE DEF P
      <4>2. Cardinality(P) <= Limit - 1
        BY ONLY <3>1, <4>1
      <4>3. QED
        BY ONLY <4>2 DEF P
    <3>2. CASE P # {}
      <4>1. PICK g \in P : TRUE
        BY <3>2
      <4> DEFINE w == window[g]
                 all == LetIn(i, w)
      <4>2. g \in R /\ Opener(w) \in all /\ Cardinality(all) <= Limit /\ all \in SUBSET Requests
        <5>1. g \in R
          BY <4>1
        <5>2. QED
          BY ZenonT(40), <1>3, <1>4, <5>1 DEF RightWindow, LetIn, Routed
      <4>3. ASSUME NEW r \in P PROVE r \in all \ {Opener(w)}
        <5>1. r \in R /\ r \notin O /\ f[r] = k /\ g \in R /\ f[g] = k
          BY <4>1
        <5>2. since(r) \div Minute = since(g) \div Minute
          BY <4>1, <4>3
        <5>3. since(r) \in Nat /\ since(g) \in Nat
          BY <1>2, <1>8, <5>1
        <5>4. since(r) < since(g) + Minute /\ since(g) < since(r) + Minute
          <6> HIDE DEF since
          <6>1. QED
            BY <5>2, <5>3, WholeMinutes
        <5>5. window[r] = w
          BY <1>2, <1>3, <1>5, <5>1, <5>4
        <5>6. r \in all /\ r # Opener(w)
          BY <1>3, <5>1, <5>5 DEF O
        <5>7. QED
          BY <5>6
      <4> HIDE DEF P, all, w
      <4>4. P \subseteq all \ {Opener(w)} /\ IsFiniteSet(all) /\ all \ {Opener(w)} \in SUBSET Requests
            /\ P \in SUBSET Requests
        BY <4>2, <4>3, CountGrows
      <4>5. Cardinality(all \ {Opener(w)}) = Cardinality(all) - 1
        BY <4>2, <4>4, FS_RemoveElement
      <4>6. /\ Cardinality(P) \in Nat /\ Cardinality(all \ {Opener(w)}) \in Nat
            /\ Cardinality(P) <= Cardinality(all \ {Opener(w)})
        BY <4>4, CountGrows
      <4>7. Cardinality(all) \in Nat
        BY <4>4, FS_CardinalityType
      <4>8. QED
        BY <4>2, <4>5, <4>6, <4>7 DEF P
    <3>3. QED
      BY <3>1, <3>2
  <2>3. IsFiniteSet(R \ O) /\ Limit - 1 \in Nat /\ K \in Nat
    <3>1. IsFiniteSet(R \ O)
      BY <1>6, CountGrows
    <3>2. Limit - 1 \in Nat
      BY ONLY GateAssumption
    <3>3. QED
      BY ONLY <1>2, <3>1, <3>2
  <2> HIDE DEF f, K
  <2>4. QED
    BY <2>1, <2>2, <2>3, PartsBound
<1>10. Cardinality(R) = Cardinality(O) + Cardinality(R \ O)
  <2>1. IsFiniteSet(O) /\ IsFiniteSet(R \ O) /\ O \cup (R \ O) = R /\ O \cap (R \ O) = {}
    <3>1. O \in SUBSET Requests
      BY <1>6
    <3>2. QED
      BY <1>6, <3>1, CountGrows
  <2>2. /\ Cardinality(O) \in Nat /\ Cardinality(R \ O) \in Nat
        /\ Cardinality(O \cap (R \ O)) = 0
    BY <2>1, FS_CardinalityType, FS_EmptySet
  <2>3. Cardinality(O \cup (R \ O))
           = Cardinality(O) + Cardinality(R \ O) - Cardinality(O \cap (R \ O))
    BY <2>1, FS_Union
  <2>4. QED
    BY <2>1, <2>2, <2>3
<1>11. Cardinality(R \ O) \in Nat /\ K * (Limit - 1) \in Nat
  BY <1>2, <1>6, CountGrows
<1>12. Cardinality(R) <= K * (Limit - 1) + 1
  BY ONLY <1>7, <1>9, <1>10, <1>11
<1>13. QED
  BY <1>12 DEF R

\* The windows of an address let in no more than WindowsPerMinute of them can in
\* requests that arrive within one minute, wherever it begins: for any limit,
\* delay and number of requests.
THEOREM PerMinuteBoundHolds == Spec => []PerMinuteBound
<1>1. Init => MinuteInv
  BY DEF Init, MinuteInv
<1>2. IInv /\ IInv' /\ MinuteInv /\ [Next]_vars => MinuteInv'
  <2>1. SUFFICES ASSUME IInv, IInv', MinuteInv, [Next]_vars PROVE MinuteInv'
    OBVIOUS
  <2>2. ASSUME NEW r \in Requests, Allow(r) PROVE MinuteInv'
    <3>1. OpenWindow(r) => Disposed(r, "routed")
      BY <2>1, <2>2 DEF Allow, Disposed, OpenWindow, IInv, OnTheWay
    <3>2. CountIn(r) => Disposed(r, "routed")
      BY <2>1, <2>2 DEF Allow, Disposed, CountIn, IInv, OnTheWay
    <3>3. QED
      BY <2>1, <2>2, <3>1, <3>2, OpenWindowKeepsMinutes, CountInKeepsMinutes, RestKeepsMinutes
         DEF Allow
  <2>3. QED
    BY <2>1, <2>2, RestKeepsMinutes DEF Next
<1>3. QED
  BY <1>1, <1>2, MinuteIsBounded, Invariant, PTL DEF Spec
================================================================================
