------------------------------ MODULE HookContract ------------------------------
(***************************************************************************)
(* What the capture endpoint /hook/{token} promises, without its steps: a  *)
(* delivery is decided once, on the status its inbox has at that moment,   *)
(* it is written at most once and only after it was accepted, and the      *)
(* sender is told 204 only once it is written.  Capture.tla has the steps  *)
(* of the real handler and is shown to implement this module.              *)
(***************************************************************************)
CONSTANTS Hooks,      \* deliveries: one call of the endpoint each
          Inboxes     \* inbox ids, each standing for its token as well

VARIABLES inboxes,    \* inbox id -> what the store says of it
          target,     \* delivery -> the inbox its token names
          verdict,    \* delivery -> what was decided on it
          requests,   \* captured requests in the store
          told        \* deliveries whose sender has its answer

contractVars == <<inboxes, target, verdict, requests, told>>

InboxState == {"absent", "active", "disabled", "deleted"}
Refusal == {"not_found", "inbox_disabled", "rejected", "internal_error"}
Verdict == {"none", "accepted", "lost"} \cup Refusal

\* The only ways an inbox changes: deletion is the end of it.
Lifecycle ==
    {<<"absent", "active">>, <<"active", "disabled">>, <<"disabled", "active">>,
     <<"active", "deleted">>, <<"disabled", "deleted">>}

Written(h) == [id |-> h, inboxID |-> target[h]] \in requests

\* A verdict the state s of the inbox allows; a bad body or a failing store
\* may refuse a delivery in any state.
Allows(s, v) ==
    \/ v = "accepted" /\ s = "active"
    \/ v = "not_found" /\ s \in {"absent", "deleted"}
    \/ v = "inbox_disabled" /\ s = "disabled"
    \/ v \in {"rejected", "internal_error"}

ContractInit ==
    /\ inboxes = [i \in Inboxes |-> "absent"]
    /\ target \in [Hooks -> Inboxes]
    /\ verdict = [h \in Hooks |-> "none"]
    /\ requests = {}
    /\ told = {}

Manage(i) ==
    /\ \E s \in InboxState :
          /\ <<inboxes[i], s>> \in Lifecycle
          /\ inboxes' = [inboxes EXCEPT ![i] = s]
    /\ UNCHANGED <<target, verdict, requests, told>>

\* The moment the delivery takes its verdict from the inbox.
Decide(h) ==
    /\ verdict[h] = "none"
    /\ \E v \in {"accepted"} \cup Refusal :
          /\ Allows(inboxes[target[h]], v)
          /\ verdict' = [verdict EXCEPT ![h] = v]
    /\ UNCHANGED <<inboxes, target, requests, told>>

\* The write of an accepted delivery.  It can fail, with or without its
\* effect, and the delivery is then an internal error.
Write(h) ==
    /\ verdict[h] = "accepted"
    /\ ~ Written(h)
    /\ requests' \in {requests, requests \cup {[id |-> h, inboxID |-> target[h]]}}
    /\ \/ verdict' = [verdict EXCEPT ![h] = "internal_error"]
       \/ requests' # requests /\ UNCHANGED verdict
    /\ UNCHANGED <<inboxes, target, told>>

Tell(h) ==
    /\ h \notin told
    /\ verdict[h] \notin {"none", "lost"}
    /\ verdict[h] = "accepted" => Written(h)
    /\ told' = told \cup {h}
    /\ UNCHANGED <<inboxes, target, verdict, requests>>

\* A restart: the deliveries under way that did not get to the write will
\* never be written, and their senders never told.
Lose ==
    /\ \E S \in SUBSET {h \in Hooks :
             verdict[h] = "none" \/ (verdict[h] = "accepted" /\ ~ Written(h))} :
          verdict' = [h \in Hooks |-> IF h \in S THEN "lost" ELSE verdict[h]]
    /\ UNCHANGED <<inboxes, target, requests, told>>

ContractNext ==
    \/ \E i \in Inboxes : Manage(i)
    \/ \E h \in Hooks : Decide(h) \/ Write(h) \/ Tell(h)
    \/ Lose

ContractSpec == ContractInit /\ [][ContractNext]_contractVars
================================================================================
