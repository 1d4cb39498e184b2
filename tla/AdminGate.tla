-------------------------------- MODULE AdminGate --------------------------------
(***************************************************************************)
(* The way of a /v1/ request to the router in serveHTTP: CORS, access,     *)
(* then the fixed-window rate limiter of its client IP.  The limiter is    *)
(* given the time the request arrived, taken before the other checks and   *)
(* before its lock, so calls reach the limiter out of the order of their   *)
(* times.                                                                  *)
(***************************************************************************)
EXTENDS Naturals, FiniteSets

CONSTANTS Requests,
          IPs,            \* keys of the limiter, as clientIP returns them
          RequireAccess,  \* cfg.RequireAccess
          Limit,          \* limitRPM
          Minute,         \* length of a window, in clock units
          MaxDelay,       \* bound: how late a request gets to the limiter
          MaxTime         \* bound of the clock

ASSUME GateAssumption ==
    /\ IsFiniteSet(Requests)
    /\ RequireAccess \in BOOLEAN
    /\ Limit \in Nat \ {0}
    /\ Minute \in Nat \ {0}
    /\ MaxDelay \in Nat
    /\ MaxTime \in Nat

VARIABLES clock,
          entries,    \* IP -> [windowStart, count]; only IPs seen so far
          pc,         \* request -> "idle", "limiter", "done"
          ip,         \* request -> its client IP
          start,      \* request -> when it arrived
          outcome,    \* request -> how serveHTTP disposed of it
          window      \* history: request -> start of the window it was let in by

vars == <<clock, entries, pc, ip, start, outcome, window>>

Outcome == {"none", "preflight", "cors_origin_not_allowed", "unauthorized",
            "rate_limited", "routed"}

\* access.Validate: a JWT decides when there is one, else the other headers.
Validate(credentials) == RequireAccess => credentials \in {"goodJWT", "headers"}

\* What CORS and access make of a request before it gets to the limiter.
Verdict(origin, options, credentials) ==
    CASE origin = "foreign"                -> "cors_origin_not_allowed"
      [] origin = "allowed" /\ options     -> "preflight"
      [] origin = "none" \/ (origin = "allowed" /\ ~ options)
                                           -> IF Validate(credentials) THEN "none"
                                                                       ELSE "unauthorized"

--------------------------------------------------------------------------------

\* Time passes, but no request is kept from the limiter longer than MaxDelay.
Tick ==
    /\ clock < MaxTime
    /\ \A r \in Requests : pc[r] = "limiter" => clock - start[r] < MaxDelay
    /\ clock' = clock + 1
    /\ UNCHANGED <<entries, pc, ip, start, outcome, window>>

\* start is taken; CORS and access read nothing that is shared.
Arrive(r) ==
    /\ pc[r] = "idle"
    /\ start' = [start EXCEPT ![r] = clock]
    /\ \E origin \in {"none", "allowed", "foreign"}, options \in BOOLEAN,
          credentials \in {"none", "headers", "goodJWT", "badJWT"} :
          LET v == Verdict(origin, options, credentials)
          IN  /\ outcome' = [outcome EXCEPT ![r] = v]
              /\ pc' = [pc EXCEPT ![r] = IF v = "none" THEN "limiter" ELSE "done"]
    /\ UNCHANGED <<clock, entries, ip, window>>

\* There is no entry, or its window is over.  now - windowStart is negative
\* for a request that arrived before the window began.
NeedsWindow(i, now) ==
    i \in DOMAIN entries => now >= entries[i].windowStart + Minute

\* Mutant: the limiter's key is the connection (the address with its port).
OpenWindowPerConnection(r) ==
    /\ NeedsWindow(ip[r], start[r])
    /\ entries' = [i \in DOMAIN entries \cup {r} |->
                     IF i = r THEN [windowStart |-> start[r], count |-> 1] ELSE entries[i]]
    /\ outcome' = [outcome EXCEPT ![r] = "routed"]
    /\ window' = [window EXCEPT ![r] = start[r]]

\* Mutant: the request that opens a window is not counted.
OpenWindowUncounted(r) ==
    /\ NeedsWindow(ip[r], start[r])
    /\ entries' = [i \in DOMAIN entries \cup {ip[r]} |->
                     IF i = ip[r] THEN [windowStart |-> start[r], count |-> 0] ELSE entries[i]]
    /\ outcome' = [outcome EXCEPT ![r] = "routed"]
    /\ window' = [window EXCEPT ![r] = start[r]]

\* Limiter.Allow, one critical section.
OpenWindow(r) ==
    /\ NeedsWindow(ip[r], start[r])
    /\ entries' = [i \in DOMAIN entries \cup {ip[r]} |->
                     IF i = ip[r] THEN [windowStart |-> start[r], count |-> 1] ELSE entries[i]]
    /\ outcome' = [outcome EXCEPT ![r] = "routed"]
    /\ window' = [window EXCEPT ![r] = start[r]]

CountIn(r) ==
    /\ ~ NeedsWindow(ip[r], start[r])
    /\ entries[ip[r]].count < Limit
    /\ entries' = [entries EXCEPT ![ip[r]].count = @ + 1]
    /\ outcome' = [outcome EXCEPT ![r] = "routed"]
    /\ window' = [window EXCEPT ![r] = entries[ip[r]].windowStart]

\* Mutant: refused requests count, too.
DenyCounts(r) ==
    /\ ~ NeedsWindow(ip[r], start[r])
    /\ entries[ip[r]].count >= Limit
    /\ entries' = [entries EXCEPT ![ip[r]].count = @ + 1]
    /\ outcome' = [outcome EXCEPT ![r] = "rate_limited"]
    /\ UNCHANGED window

\* Mutant: refuses one request too early.
DenyEarly(r) ==
    /\ ~ NeedsWindow(ip[r], start[r])
    /\ entries[ip[r]].count + 1 >= Limit
    /\ outcome' = [outcome EXCEPT ![r] = "rate_limited"]
    /\ UNCHANGED <<entries, window>>

Deny(r) ==
    /\ ~ NeedsWindow(ip[r], start[r])
    /\ entries[ip[r]].count >= Limit
    /\ outcome' = [outcome EXCEPT ![r] = "rate_limited"]
    /\ UNCHANGED <<entries, window>>

Allow(r) ==
    /\ pc[r] = "limiter"
    /\ OpenWindow(r) \/ CountIn(r) \/ Deny(r)
    /\ pc' = [pc EXCEPT ![r] = "done"]
    /\ UNCHANGED <<clock, ip, start>>

Init ==
    /\ clock = 0
    /\ entries = [i \in {} |-> [windowStart |-> 0, count |-> 0]]
    /\ pc = [r \in Requests |-> "idle"]
    /\ ip \in [Requests -> IPs]
    /\ start = [r \in Requests |-> 0]
    /\ outcome = [r \in Requests |-> "none"]
    /\ window = [r \in Requests |-> 0]

Next == Tick \/ \E r \in Requests : Arrive(r) \/ Allow(r)

Spec == Init /\ [][Next]_vars

--------------------------------------------------------------------------------

TypeOK ==
    /\ clock \in Nat
    /\ DOMAIN entries \subseteq IPs
    /\ \A i \in DOMAIN entries : entries[i] \in [windowStart : Nat, count : Nat]
    /\ pc \in [Requests -> {"idle", "limiter", "done"}]
    /\ ip \in [Requests -> IPs]
    /\ start \in [Requests -> Nat]
    /\ outcome \in [Requests -> Outcome]
    /\ window \in [Requests -> Nat]

Routed(i) == {r \in Requests : outcome[r] = "routed" /\ ip[r] = i}

\* The counter of a window is the number of requests it let in, and never
\* above the limit: refused requests, by whichever check, cost nothing.
CountIsGrants ==
    \A i \in DOMAIN entries :
       /\ entries[i].count = Cardinality({r \in Routed(i) : window[r] = entries[i].windowStart})
       /\ entries[i].count <= Limit

\* The windows that can let in requests that arrived in one given minute:
\* two, and more only when requests come late to the limiter.
WindowsPerMinute == (2 * Minute + MaxDelay - 2) \div Minute + 1

\* A fixed window is not a sliding one: of the requests of an IP that arrive
\* in any one minute the limiter lets in more than the limit.  Each window
\* can add its limit, but the minute holds the first request of one only.
PerMinuteBound ==
    \A i \in IPs, t \in 0 .. clock :
       Cardinality({r \in Routed(i) : start[r] \in t .. t + Minute - 1})
          <= WindowsPerMinute * (Limit - 1) + 1

\* A 429 is earned: the limit was reached by requests of the same IP that
\* arrived less than a minute (and the delay) before the one refused.
DenialIsEarned ==
    \A r \in Requests : outcome[r] = "rate_limited" =>
       Cardinality({g \in Routed(ip[r]) : start[g] + Minute + MaxDelay > start[r]}) >= Limit
================================================================================
