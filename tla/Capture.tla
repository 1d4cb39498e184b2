-------------------------------- MODULE Capture --------------------------------
(***************************************************************************)
(* The capture endpoint: handleCapture and the service and store calls it  *)
(* makes, run by one goroutine per delivery, against the management calls  *)
(* on the same inboxes.  No lock or transaction spans two store calls, so  *)
(* every store call is a step of its own and the others run in between.    *)
(*                                                                         *)
(* Abstracted: the stored bytes, ids and times (a delivery is its own id;  *)
(* an inbox id stands for its token, both random and never used again).    *)
(* The router passes the methods of Method and a token that is not empty,  *)
(* so the handler's own checks of these never refuse.  What Publish does   *)
(* to the subscribers is the subject of SSEBroker; here it returns or      *)
(* panics.                                                                 *)
(***************************************************************************)
EXTENDS Naturals, FiniteSets, Sequences

CONSTANTS Hooks,        \* deliveries, one request to /hook/{token} each
          Inboxes,      \* inbox ids (and their tokens)
          NoInbox,      \* obsInboxID before the token is resolved
          Backend       \* "memory" or "sql": the store buildStore picks

ASSUME BackendAssumption == Backend \in {"memory", "sql"}
ASSUME NoInboxAssumption == NoInbox \notin Inboxes

VARIABLES inboxes,           \* store: inbox id -> its status
          requests,          \* store: captured requests
          monitoringEvents,  \* store: delivery -> the rows of its observations
          token,             \* delivery -> the inbox its URL names
          method,            \* delivery -> the class of its HTTP method
          pc,                \* delivery -> where its handler is
          responseStatus,    \* delivery -> status decided on; 0 while undecided
          obsInboxID,        \* delivery -> inbox its observation will name
          panicking,         \* delivery -> the handler is unwinding
          seen               \* history: see Remember

store == <<inboxes, requests, monitoringEvents>>
input == <<token, method>>
handler == <<pc, responseStatus, obsInboxID, panicking>>
vars == <<store, input, handler, seen>>

InboxState == {"absent", "active", "disabled", "deleted"}
Live == {"active", "disabled"}          \* DeletedAt is nil
Method == {"OPTIONS", "noPayload", "needsPayload"}
NoContent == 204
BadRequest == 400
NotFound == 404
Conflict == 409
EntityTooLarge == 413
InternalServerError == 500
Status == {0, NoContent, BadRequest, NotFound, Conflict, EntityTooLarge,
           InternalServerError}
Gone == {"idle", "done", "dropped", "killed"}   \* no handler is running
Running == {"resolve", "validate", "readBody", "check", "insert", "publish",
            "observe", "publishLive", "return"}

CapturedRequest == [id : Hooks, inboxID : Inboxes]
HookObservation == [inboxID : Inboxes \cup {NoInbox}, statusCode : Status \ {0}]
Rows == Seq(HookObservation)

InFlight(h) == pc[h] \in Running

--------------------------------------------------------------------------------
\* The store, as the handlers see it.  A call on the SQL store can fail (a
\* locked database, a context that was cancelled); the maps never do.

StoreErrors == IF Backend = "sql" THEN {"error"} ELSE {}

\* What GetInboxByToken can return now: the status, ErrNotFound, an error.
GetInboxByToken(t) ==
    {IF inboxes[t] \in Live THEN inboxes[t] ELSE "ErrNotFound"} \cup StoreErrors

\* Mutant: the two refusals are swapped.
statusCodeSwapped(err) ==
    CASE err = "ErrNotFound" -> Conflict
      [] err = "disabled"    -> NotFound
      [] err = "error"       -> InternalServerError

\* Mutant: an error of the store is passed on as a code nothing else knows.
statusCodeUnavailable(err) ==
    CASE err = "ErrNotFound" -> NotFound
      [] err = "disabled"    -> Conflict
      [] err = "error"       -> 503

statusCodeFromServiceError(err) ==
    CASE err = "ErrNotFound" -> NotFound
      [] err = "disabled"    -> Conflict
      [] err = "error"       -> InternalServerError

\* History: the states the inbox a delivery names had since the handler
\* started or, once it read a body it goes on with, since then.
Remember(inboxesAfter) ==
    seen' = [h \in Hooks |->
               IF InFlight(h) THEN seen[h] \cup {inboxesAfter[token[h]]} ELSE seen[h]]

--------------------------------------------------------------------------------
\* Management calls.  Each is one store call (a lock, or one UPDATE).

CreateInbox(i) ==
    /\ inboxes[i] = "absent"
    /\ inboxes' = [inboxes EXCEPT ![i] = "active"]

UpdateInbox(i) ==
    /\ inboxes[i] \in Live
    /\ \E status \in Live : inboxes' = [inboxes EXCEPT ![i] = status]

SoftDeleteInbox(i) ==
    /\ inboxes[i] \in Live
    /\ inboxes' = [inboxes EXCEPT ![i] = "deleted"]

Manage(i) ==
    /\ CreateInbox(i) \/ UpdateInbox(i) \/ SoftDeleteInbox(i)
    /\ Remember(inboxes')
    /\ UNCHANGED <<requests, monitoringEvents, input, handler>>

--------------------------------------------------------------------------------
\* The handler, in the order of handleCapture.

Goto(h, label) == pc' = [pc EXCEPT ![h] = label]

\* The handler is done but for its deferred call.
Respond(h, code) ==
    /\ responseStatus' = [responseStatus EXCEPT ![h] = code]
    /\ Goto(h, "observe")

\* OPTIONS is answered before the deferred call is registered.
Start(h) ==
    /\ pc[h] = "idle"
    /\ Goto(h, IF method[h] = "OPTIONS" THEN "done" ELSE "resolve")
    /\ seen' = [seen EXCEPT ![h] = {inboxes[token[h]]}]
    /\ UNCHANGED <<store, input, responseStatus, obsInboxID, panicking>>

\* The error of this first lookup is ignored.
ResolveInboxIDByToken(h) ==
    /\ pc[h] = "resolve"
    /\ \E found \in GetInboxByToken(token[h]) :
          obsInboxID' = [obsInboxID EXCEPT ![h] = IF found \in Live THEN token[h] ELSE @]
    /\ Goto(h, "validate")
    /\ UNCHANGED <<store, input, responseStatus, panicking, seen>>

ValidateCaptureTarget(h) ==
    /\ pc[h] = "validate"
    /\ \E found \in GetInboxByToken(token[h]) :
          \/ found = "active" /\ Goto(h, "readBody") /\ UNCHANGED responseStatus
          \/ found # "active" /\ Respond(h, statusCodeFromServiceError(found))
    /\ UNCHANGED <<store, input, obsInboxID, panicking, seen>>

\* Ends when the sender is done or the server's ReadTimeout is over.
ReadBody(h) ==
    /\ pc[h] = "readBody"
    /\ \E body \in {"unreadable", "tooLarge", "blank", "payload"} :
          \/ body = "unreadable" /\ Respond(h, BadRequest)
          \/ body = "tooLarge" /\ Respond(h, EntityTooLarge)
          \/ body = "blank" /\ method[h] = "needsPayload" /\ Respond(h, BadRequest)
          \/ /\ body = "payload" \/ (body = "blank" /\ method[h] # "needsPayload")
             /\ Goto(h, "check")
             /\ UNCHANGED responseStatus
    /\ seen' = [seen EXCEPT ![h] = {inboxes[token[h]]}]
    /\ UNCHANGED <<store, input, obsInboxID, panicking>>

\* Mutant: the second lookup looks for the inbox only, not for its status.
CaptureRequestTrusting(h) ==
    /\ pc[h] = "check"
    /\ \E found \in GetInboxByToken(token[h]) :
          \/ found \in Live /\ Goto(h, "insert") /\ UNCHANGED responseStatus
          \/ found \in Live /\ Respond(h, statusCodeFromServiceError("error"))
          \/ found \notin Live /\ Respond(h, statusCodeFromServiceError(found))
    /\ UNCHANGED <<store, input, obsInboxID, panicking, seen>>

\* Mutant: a delivery waits for its inbox to be enabled again.
CaptureRequestWaiting(h) ==
    /\ pc[h] = "check"
    /\ \E found \in GetInboxByToken(token[h]) \ {"disabled"} :
          \/ found = "active" /\ Goto(h, "insert") /\ UNCHANGED responseStatus
          \/ found = "active" /\ Respond(h, statusCodeFromServiceError("error"))
          \/ found # "active" /\ Respond(h, statusCodeFromServiceError(found))
    /\ UNCHANGED <<store, input, obsInboxID, panicking, seen>>

\* services.CaptureRequest, up to the write: the inbox is looked up again, and
\* an id is made for the request, which can fail.
CaptureRequest(h) ==
    /\ pc[h] = "check"
    /\ \E found \in GetInboxByToken(token[h]) :
          \/ found = "active" /\ Goto(h, "insert") /\ UNCHANGED responseStatus
          \/ found = "active" /\ Respond(h, statusCodeFromServiceError("error"))
          \/ found # "active" /\ Respond(h, statusCodeFromServiceError(found))
    /\ UNCHANGED <<store, input, obsInboxID, panicking, seen>>

\* Mutant: the observation keeps the inbox of the first lookup.
CreateCapturedRequestUnnamed(h) ==
    /\ pc[h] = "insert"
    /\ requests' = requests \cup {[id |-> h, inboxID |-> token[h]]}
    /\ responseStatus' = [responseStatus EXCEPT ![h] = NoContent]
    /\ Goto(h, "publish")
    /\ UNCHANGED <<inboxes, monitoringEvents, input, obsInboxID, panicking, seen>>

\* The write does not look at the inbox any more.
CreateCapturedRequest(h) ==
    /\ pc[h] = "insert"
    /\ requests' = requests \cup {[id |-> h, inboxID |-> token[h]]}
    /\ obsInboxID' = [obsInboxID EXCEPT ![h] = token[h]]
    /\ responseStatus' = [responseStatus EXCEPT ![h] = NoContent]
    /\ Goto(h, "publish")
    /\ UNCHANGED <<inboxes, monitoringEvents, input, panicking, seen>>

\* Mutant: the error of the INSERT is ignored.
CreateCapturedRequestErrorIgnored(h) ==
    /\ pc[h] = "insert"
    /\ StoreErrors # {}
    /\ requests' \in {requests, requests \cup {[id |-> h, inboxID |-> token[h]]}}
    /\ Respond(h, NoContent)
    /\ UNCHANGED <<inboxes, monitoringEvents, input, obsInboxID, panicking, seen>>

\* An INSERT that returns an error, before or after it took effect.
CreateCapturedRequestFails(h) ==
    /\ pc[h] = "insert"
    /\ StoreErrors # {}
    /\ requests' \in {requests, requests \cup {[id |-> h, inboxID |-> token[h]]}}
    /\ Respond(h, statusCodeFromServiceError("error"))
    /\ UNCHANGED <<inboxes, monitoringEvents, input, obsInboxID, panicking, seen>>

\* sse.Publish and WriteHeader: the send to a subscriber that is leaving
\* panics (see SSEBroker).
publishCapturedRequest(h) ==
    /\ pc[h] = "publish"
    /\ panicking' \in {panicking, [panicking EXCEPT ![h] = TRUE]}
    /\ Goto(h, "observe")
    /\ UNCHANGED <<store, input, responseStatus, obsInboxID, seen>>

\* The row of a delivery's observation.
Row(h) == [inboxID |-> obsInboxID[h], statusCode |-> responseStatus[h]]

\* Mutant: an observation is also recorded after the answer.
RecordHookObservationLate(h) ==
    /\ pc[h] \in {"observe", "done"}
    /\ responseStatus[h] # 0
    /\ monitoringEvents' = [monitoringEvents EXCEPT ![h] = Append(@, Row(h))]
    /\ Goto(h, "publishLive")
    /\ UNCHANGED <<inboxes, requests, input, responseStatus, obsInboxID, panicking, seen>>

\* Mutant: a handler that unwinds goes through its deferred call again.
RecordHookObservationTwice(h) ==
    /\ pc[h] = "observe"
    /\ monitoringEvents' = [monitoringEvents EXCEPT ![h] = Append(@, Row(h))]
    /\ Goto(h, IF panicking[h] /\ monitoringEvents[h] = <<>> THEN "observe" ELSE "publishLive")
    /\ UNCHANGED <<inboxes, requests, input, responseStatus, obsInboxID, panicking, seen>>

\* The deferred call, made while the handler unwinds, too.
RecordHookObservation(h) ==
    /\ pc[h] = "observe"
    /\ monitoringEvents' = [monitoringEvents EXCEPT ![h] = Append(@, Row(h))]
    /\ Goto(h, "publishLive")
    /\ UNCHANGED <<inboxes, requests, input, responseStatus, obsInboxID, panicking, seen>>

\* A transaction that returns an error, before or after it took effect.
RecordHookObservationFails(h) ==
    /\ pc[h] = "observe"
    /\ StoreErrors # {}
    /\ monitoringEvents' \in {monitoringEvents,
                              [monitoringEvents EXCEPT ![h] = Append(@, Row(h))]}
    /\ Goto(h, "return")
    /\ UNCHANGED <<inboxes, requests, input, responseStatus, obsInboxID, panicking, seen>>

publishMonitoringLiveEvent(h) ==
    /\ pc[h] = "publishLive"
    /\ panicking' \in {panicking, [panicking EXCEPT ![h] = TRUE]}
    /\ Goto(h, "return")
    /\ UNCHANGED <<store, input, responseStatus, obsInboxID, seen>>

\* net/http sends the buffered answer when the handler returns, and closes
\* the connection without one when it panics.
Return(h) ==
    /\ pc[h] = "return"
    /\ Goto(h, IF panicking[h] THEN "dropped" ELSE "done")
    /\ UNCHANGED <<store, input, responseStatus, obsInboxID, panicking, seen>>

\* The process stops (killed, or past the 10 s a shutdown waits); the
\* database stays.  The next process has no handler of this one.
Restart ==
    /\ Backend = "sql"
    /\ \E h \in Hooks : InFlight(h)
    /\ pc' = [h \in Hooks |-> IF InFlight(h) THEN "killed" ELSE pc[h]]
    /\ UNCHANGED <<store, input, responseStatus, obsInboxID, panicking, seen>>

--------------------------------------------------------------------------------

\* The steps a handler takes once it is running.
HandlerStep(h) ==
    \/ ResolveInboxIDByToken(h)
    \/ ValidateCaptureTarget(h)
    \/ ReadBody(h)
    \/ CaptureRequest(h)
    \/ CreateCapturedRequest(h)
    \/ CreateCapturedRequestFails(h)
    \/ publishCapturedRequest(h)
    \/ RecordHookObservation(h)
    \/ RecordHookObservationFails(h)
    \/ publishMonitoringLiveEvent(h)
    \/ Return(h)

Init ==
    /\ inboxes = [i \in Inboxes |-> "absent"]
    /\ requests = {}
    /\ monitoringEvents = [h \in Hooks |-> <<>>]
    /\ token \in [Hooks -> Inboxes]
    /\ method \in [Hooks -> Method]
    /\ pc = [h \in Hooks |-> "idle"]
    /\ responseStatus = [h \in Hooks |-> 0]
    /\ obsInboxID = [h \in Hooks |-> NoInbox]
    /\ panicking = [h \in Hooks |-> FALSE]
    /\ seen = [h \in Hooks |-> {}]

Next ==
    \/ \E i \in Inboxes : Manage(i)
    \/ \E h \in Hooks : Start(h) \/ HandlerStep(h)
    \/ Restart

Spec == Init /\ [][Next]_vars

\* A goroutine that can run is scheduled, reads and store calls return, and
\* no send blocks: a handler that can step eventually does.
FairSpec == Spec /\ \A h \in Hooks : WF_vars(HandlerStep(h))

--------------------------------------------------------------------------------

TypeOK ==
    /\ inboxes \in [Inboxes -> InboxState]
    /\ requests \subseteq CapturedRequest
    /\ monitoringEvents \in [Hooks -> Rows]
    /\ token \in [Hooks -> Inboxes]
    /\ method \in [Hooks -> Method]
    /\ pc \in [Hooks -> Running \cup Gone]
    /\ responseStatus \in [Hooks -> Status]
    /\ obsInboxID \in [Hooks -> Inboxes \cup {NoInbox}]
    /\ panicking \in [Hooks -> BOOLEAN]
    /\ seen \in [Hooks -> SUBSET InboxState]

Stored(h) == [id |-> h, inboxID |-> token[h]] \in requests

\* Whatever management calls run in between, a request is in the store only
\* if its inbox was active at some moment after its whole body had arrived:
\* the status is looked up again after the read, not only before it.
StoredWasActive ==
    \A r \in requests : r.inboxID = token[r.id] /\ "active" \in seen[r.id]

\* A refusal was true at some moment of the call: 404 only if the inbox was
\* missing or deleted, 409 only if it was disabled, while the call ran.
RefusalWasTrue ==
    \A h \in Hooks :
       /\ responseStatus[h] = NotFound => seen[h] \cap {"absent", "deleted"} # {}
       /\ responseStatus[h] = Conflict => "disabled" \in seen[h]

\* The status the handler settled on tells what is in the store, over
\* failing writes, panics and restarts: 204 means written, a 4xx not written.
StatusTellsStored ==
    \A h \in Hooks :
       /\ responseStatus[h] = NoContent => Stored(h)
       /\ responseStatus[h] \in {BadRequest, NotFound, Conflict, EntityTooLarge}
             => ~ Stored(h)

\* What monitoring counts agrees with what the sender was told and with the
\* store: a delivery has one row at most, it carries the status of the answer,
\* and a successful one names the inbox that has the request, even if the
\* first lookup failed.
ObservationAgrees ==
    \A h \in Hooks :
       /\ Len(monitoringEvents[h]) <= 1
       /\ \A i \in DOMAIN monitoringEvents[h] :
             LET row == monitoringEvents[h][i]
             IN  /\ row.statusCode = responseStatus[h]
                 /\ row.statusCode = NoContent
                       => [id |-> h, inboxID |-> row.inboxID] \in requests

\* With the in-memory store, whose writes cannot fail, every delivery that is
\* over has one row and no more, panics included, and the rows with a 204 are
\* those of the requests kept.  OPTIONS leaves nothing at all.
MemoryCountsEveryHook ==
    Backend = "memory" =>
       \A h \in Hooks : pc[h] \in {"done", "dropped"} =>
          IF method[h] = "OPTIONS"
          THEN monitoringEvents[h] = <<>> /\ ~ Stored(h)
          ELSE /\ Len(monitoringEvents[h]) = 1
               /\ Stored(h) <=> monitoringEvents[h][1].statusCode = NoContent

\* The answer comes last: once the sender has it, nothing about the delivery
\* is still to be written, so a read made after the answer sees all of it.
AnswerComesLast ==
    [][\A h \in Hooks : pc[h] \in {"done", "dropped"} =>
          /\ {r \in requests' : r.id = h} = {r \in requests : r.id = h}
          /\ monitoringEvents'[h] = monitoringEvents[h]
      ]_vars

\* Every call that started is answered, or its connection closed, or it died
\* with the process: no path of the handler forgets to finish.
HookEnds == \A h \in Hooks : InFlight(h) ~> pc[h] \in Gone

--------------------------------------------------------------------------------
\* The handler implements the contract.  Its decision is the second lookup,
\* or whatever refused the delivery before it.

verdictOf(h) ==
    CASE responseStatus[h] = NoContent -> "accepted"
      [] responseStatus[h] = NotFound -> "not_found"
      [] responseStatus[h] = Conflict -> "inbox_disabled"
      [] responseStatus[h] \in {BadRequest, EntityTooLarge} -> "rejected"
      [] responseStatus[h] = InternalServerError -> "internal_error"
      [] responseStatus[h] = 0 /\ pc[h] = "insert" -> "accepted"
      [] responseStatus[h] = 0 /\ pc[h] = "killed" -> "lost"
      [] OTHER -> "none"

Contract == INSTANCE HookContract WITH
    target <- token,
    verdict <- [h \in Hooks |-> verdictOf(h)],
    told <- {h \in Hooks : pc[h] = "done" /\ method[h] # "OPTIONS"}

\* The steps of the handler, seen through the verdict, are steps of the
\* contract: it decides on one moment's status, writes once and tells last.
ImplementsContract == Contract!ContractSpec
================================================================================
