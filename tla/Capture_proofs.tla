----------------------------- MODULE Capture_proofs -----------------------------
(***************************************************************************)
(* Proofs about Capture, for any number of deliveries and inboxes and both *)
(* stores.  The inductive invariant IInv adds to the properties where the  *)
(* handler must be for them to hold: which status goes with which program  *)
(* counter, that a running handler has seen the current state of its       *)
(* inbox, and that a handler about to write has seen it active.            *)
(***************************************************************************)
EXTENDS Capture, TLAPS

StatusFollowsStage ==
    \A h \in Hooks :
       /\ pc[h] \in {"idle", "resolve", "validate", "readBody", "check", "insert"}
             => responseStatus[h] = 0
       /\ pc[h] = "publish" => responseStatus[h] = NoContent
       /\ pc[h] \in {"observe", "publishLive", "return", "dropped"}
             => responseStatus[h] # 0
       /\ pc[h] = "done" => responseStatus[h] # 0 \/ method[h] = "OPTIONS"
       /\ method[h] = "OPTIONS" => pc[h] \in {"idle", "done"}

SeenIsCurrent ==
    \A h \in Hooks :
       /\ InFlight(h) => inboxes[token[h]] \in seen[h]
       /\ pc[h] = "insert" \/ responseStatus[h] = NoContent \/ Stored(h)
             => "active" \in seen[h]

StoreFollowsStatus ==
    /\ \A r \in requests : r.inboxID = token[r.id]
    /\ \A h \in Hooks :
          /\ Stored(h) => responseStatus[h] \in {NoContent, InternalServerError}
          /\ responseStatus[h] = NoContent => Stored(h)
          /\ responseStatus[h] = NoContent => obsInboxID[h] = token[h]

ObservedAtTheEnd ==
    \A h \in Hooks :
       \/ monitoringEvents[h] = <<>>
       \/ /\ pc[h] \in {"publishLive", "return", "done", "dropped", "killed"}
          /\ monitoringEvents[h] = <<Row(h)>>

IInv ==
    /\ TypeOK
    /\ StatusFollowsStage
    /\ SeenIsCurrent
    /\ RefusalWasTrue
    /\ StoreFollowsStatus
    /\ ObservedAtTheEnd

--------------------------------------------------------------------------------

\* What the handler makes of a lookup: it goes on only if the inbox is
\* active, and a 404 or 409 tells the state the inbox is in.
LEMMA Lookup ==
    ASSUME TypeOK, NEW t \in Inboxes, NEW found \in GetInboxByToken(t)
    PROVE  LET code == statusCodeFromServiceError(found)
           IN  \/ found = "active" /\ inboxes[t] = "active"
               \/ /\ found # "active"
                  /\ code \in {NotFound, Conflict, InternalServerError}
                  /\ code = NotFound => inboxes[t] \in {"absent", "deleted"}
                  /\ code = Conflict => inboxes[t] = "disabled"
<1>1. CASE inboxes[t] \in Live /\ found = inboxes[t]
  BY <1>1 DEF Live, statusCodeFromServiceError, NotFound, Conflict
<1>2. CASE inboxes[t] \notin Live /\ found = "ErrNotFound"
  BY <1>2 DEF TypeOK, InboxState, Live, statusCodeFromServiceError, NotFound, Conflict
<1>3. CASE found = "error"
  BY <1>3 DEF statusCodeFromServiceError, NotFound, Conflict, InternalServerError
<1>4. QED
  BY <1>1, <1>2, <1>3 DEF GetInboxByToken, StoreErrors, Live

\* Before the first delivery.
LEMMA InitEstablishes == Init => IInv
  BY DEF Init, IInv, TypeOK, Rows, StatusFollowsStage, SeenIsCurrent, RefusalWasTrue,
     StoreFollowsStatus, ObservedAtTheEnd, Row, Stored, InFlight, InboxState, Gone, Running,
     Status, NoContent, NotFound, Conflict, InternalServerError

\* Management calls touch no handler; what the running ones have seen grows.
LEMMA ManageKeeps ==
    ASSUME IInv, NEW i \in Inboxes, Manage(i) PROVE IInv'
<1> USE DEF IInv
<1>1. /\ inboxes' \in [Inboxes -> InboxState]
      /\ seen' \in [Hooks -> SUBSET InboxState]
      /\ UNCHANGED <<requests, monitoringEvents, token, method, pc, responseStatus,
                     obsInboxID, panicking>>
  BY DEF Manage, CreateInbox, UpdateInbox, SoftDeleteInbox, Remember, TypeOK, InboxState,
     Live, input, handler
<1>2. \A h \in Hooks : seen[h] \subseteq seen'[h]
  BY DEF Manage, Remember, TypeOK
<1>3. \A h \in Hooks : InFlight(h) => inboxes'[token[h]] \in seen'[h]
  BY DEF Manage, Remember, TypeOK
<1>4. TypeOK'
  BY <1>1 DEF TypeOK
<1>5. StatusFollowsStage' /\ StoreFollowsStatus' /\ ObservedAtTheEnd'
  BY <1>1 DEF StatusFollowsStage, StoreFollowsStatus, ObservedAtTheEnd, Row, Stored
<1>6. SeenIsCurrent'
  BY <1>1, <1>2, <1>3 DEF SeenIsCurrent, InFlight, Stored
<1>7. RefusalWasTrue'
  BY <1>1, <1>2 DEF RefusalWasTrue
<1>8. QED
  BY <1>4, <1>5, <1>6, <1>7

\* A delivery that starts has seen the state its inbox is in.
LEMMA StartKeeps ==
    ASSUME IInv, NEW h \in Hooks, Start(h) PROVE IInv'
<1> USE DEF IInv, Start, Goto, store, input
<1>1. TypeOK'
  BY DEF TypeOK, Running, Gone, InboxState
<1>2. StatusFollowsStage'
  BY DEF TypeOK, StatusFollowsStage
<1>3. SeenIsCurrent'
  BY DEF TypeOK, StatusFollowsStage, StoreFollowsStatus, SeenIsCurrent, Stored, InFlight,
     NoContent, InternalServerError
<1>4. RefusalWasTrue'
  BY DEF TypeOK, StatusFollowsStage, RefusalWasTrue, NoContent, NotFound, Conflict,
     InternalServerError
<1>5. StoreFollowsStatus'
  BY DEF TypeOK, StatusFollowsStage, StoreFollowsStatus, Stored
<1>6. ObservedAtTheEnd'
  BY DEF TypeOK, StatusFollowsStage, StoreFollowsStatus, ObservedAtTheEnd, Row
<1>7. QED
  BY <1>1, <1>2, <1>3, <1>4, <1>5, <1>6

\* The first lookup only sets the inbox the observation will name.
LEMMA ResolveKeeps ==
    ASSUME IInv, NEW h \in Hooks, ResolveInboxIDByToken(h) PROVE IInv'
<1> USE DEF IInv, ResolveInboxIDByToken, Goto, store, input
<1>1. TypeOK'
  BY DEF TypeOK, Running, Gone, InboxState
<1>2. StatusFollowsStage'
  BY DEF TypeOK, StatusFollowsStage
<1>3. SeenIsCurrent'
  BY DEF TypeOK, StatusFollowsStage, StoreFollowsStatus, SeenIsCurrent, Stored, InFlight,
     Running
<1>4. RefusalWasTrue'
  BY DEF TypeOK, StatusFollowsStage, RefusalWasTrue
<1>5. StoreFollowsStatus'
  BY DEF TypeOK, StatusFollowsStage, StoreFollowsStatus, Stored
<1>6. ObservedAtTheEnd'
  BY DEF TypeOK, StatusFollowsStage, StoreFollowsStatus, ObservedAtTheEnd, Row
<1>7. QED
  BY <1>1, <1>2, <1>3, <1>4, <1>5, <1>6

\* A refusal by the second lookup was true when it was made.
LEMMA ValidateKeeps ==
    ASSUME IInv, NEW h \in Hooks, ValidateCaptureTarget(h) PROVE IInv'
<1> USE DEF IInv, ValidateCaptureTarget, Goto, store, input, Respond
<1>0. \/ inboxes[token[h]] = "active" /\ Goto(h, "readBody") /\ UNCHANGED responseStatus
      \/ \E code \in {NotFound, Conflict, InternalServerError} :
            /\ Respond(h, code)
            /\ code = NotFound => inboxes[token[h]] \in {"absent", "deleted"}
            /\ code = Conflict => inboxes[token[h]] = "disabled"
  BY Lookup DEF TypeOK
<1>1. TypeOK'
  BY <1>0 DEF TypeOK, Running, Gone, InboxState, Status
<1>2. StatusFollowsStage'
  BY <1>0 DEF TypeOK, StatusFollowsStage, NoContent, NotFound, Conflict, InternalServerError
<1>3. SeenIsCurrent'
  BY <1>0 DEF TypeOK, StatusFollowsStage, StoreFollowsStatus, SeenIsCurrent, Stored,
     InFlight, Running, NoContent, NotFound, Conflict, InternalServerError
<1>4. RefusalWasTrue'
  BY <1>0 DEF TypeOK, StatusFollowsStage, SeenIsCurrent, InFlight, Running, RefusalWasTrue
<1>5. StoreFollowsStatus'
  BY <1>0 DEF TypeOK, StatusFollowsStage, StoreFollowsStatus, Stored, NoContent, NotFound,
     Conflict, InternalServerError
<1>6. ObservedAtTheEnd'
  BY <1>0 DEF TypeOK, HookObservation, StatusFollowsStage, StoreFollowsStatus,
     ObservedAtTheEnd, Row
<1>7. QED
  BY <1>1, <1>2, <1>3, <1>4, <1>5, <1>6

\* The history starts anew with the body; a refusal here says nothing of the inbox.
LEMMA ReadBodyKeeps ==
    ASSUME IInv, NEW h \in Hooks, ReadBody(h) PROVE IInv'
<1> USE DEF IInv, ReadBody, Goto, store, input, Respond
<1>1. TypeOK'
  BY DEF TypeOK, Running, Gone, InboxState, Status
<1>2. StatusFollowsStage'
  BY DEF TypeOK, StatusFollowsStage, NoContent, BadRequest, NotFound, Conflict,
     EntityTooLarge, InternalServerError
<1>3. SeenIsCurrent'
  BY DEF TypeOK, StatusFollowsStage, StoreFollowsStatus, SeenIsCurrent, Stored, InFlight,
     NoContent, BadRequest, NotFound, Conflict, EntityTooLarge, InternalServerError
<1>4. RefusalWasTrue'
  BY DEF TypeOK, StatusFollowsStage, RefusalWasTrue, NoContent, BadRequest, NotFound,
     Conflict, EntityTooLarge, InternalServerError
<1>5. StoreFollowsStatus'
  BY DEF TypeOK, StatusFollowsStage, StoreFollowsStatus, Stored, NoContent, BadRequest,
     NotFound, Conflict, EntityTooLarge, InternalServerError
<1>6. ObservedAtTheEnd'
  BY DEF TypeOK, HookObservation, StatusFollowsStage, StoreFollowsStatus, ObservedAtTheEnd, Row
<1>7. QED
  BY <1>1, <1>2, <1>3, <1>4, <1>5, <1>6

\* The third lookup has seen an active inbox when it goes on to the write.
LEMMA CheckKeeps ==
    ASSUME IInv, NEW h \in Hooks, CaptureRequest(h) PROVE IInv'
<1> USE DEF IInv, CaptureRequest, Goto, store, input, Respond
<1>0. \/ inboxes[token[h]] = "active" /\ Goto(h, "insert") /\ UNCHANGED responseStatus
      \/ \E code \in {NotFound, Conflict, InternalServerError} :
            /\ Respond(h, code)
            /\ code = NotFound => inboxes[token[h]] \in {"absent", "deleted"}
            /\ code = Conflict => inboxes[token[h]] = "disabled"
  <2>1. statusCodeFromServiceError("error") = InternalServerError
    BY DEF statusCodeFromServiceError
  <2>2. QED
    BY <2>1, Lookup DEF TypeOK, NotFound, Conflict, InternalServerError
<1>1. TypeOK'
  BY <1>0 DEF TypeOK, Running, Gone, InboxState, Status
<1>2. StatusFollowsStage'
  BY <1>0 DEF TypeOK, StatusFollowsStage, NoContent, NotFound, Conflict, InternalServerError
<1>3. SeenIsCurrent'
  BY <1>0 DEF TypeOK, StatusFollowsStage, StoreFollowsStatus, SeenIsCurrent, Stored,
     InFlight, Running, NoContent, NotFound, Conflict, InternalServerError
<1>4. RefusalWasTrue'
  BY <1>0 DEF TypeOK, StatusFollowsStage, SeenIsCurrent, InFlight, Running, RefusalWasTrue
<1>5. StoreFollowsStatus'
  BY <1>0 DEF TypeOK, StatusFollowsStage, StoreFollowsStatus, Stored, NoContent, NotFound,
     Conflict, InternalServerError
<1>6. ObservedAtTheEnd'
  BY <1>0 DEF TypeOK, HookObservation, StatusFollowsStage, StoreFollowsStatus,
     ObservedAtTheEnd, Row
<1>7. QED
  BY <1>1, <1>2, <1>3, <1>4, <1>5, <1>6

\* The write comes with the status 204 and the inbox it went to.
LEMMA InsertKeeps ==
    ASSUME IInv, NEW h \in Hooks, CreateCapturedRequest(h) PROVE IInv'
<1> USE DEF IInv, CreateCapturedRequest, Goto, store, input
<1>1. TypeOK'
  BY DEF TypeOK, Running, Gone, InboxState, HookObservation, CapturedRequest, Status
<1>2. StatusFollowsStage'
  BY DEF TypeOK, StatusFollowsStage
<1>3. SeenIsCurrent'
  BY DEF TypeOK, StatusFollowsStage, StoreFollowsStatus, SeenIsCurrent, Stored, InFlight,
     Running
<1>4. RefusalWasTrue'
  BY DEF TypeOK, StatusFollowsStage, RefusalWasTrue, NoContent, NotFound, Conflict,
     InternalServerError
<1>5. StoreFollowsStatus'
  BY DEF TypeOK, StatusFollowsStage, StoreFollowsStatus, Stored
<1>6. ObservedAtTheEnd'
  BY DEF TypeOK, StatusFollowsStage, StoreFollowsStatus, ObservedAtTheEnd, Row
<1>7. QED
  BY <1>1, <1>2, <1>3, <1>4, <1>5, <1>6

\* A failing write may leave the request behind, under a 500.
LEMMA InsertFailsKeeps ==
    ASSUME IInv, NEW h \in Hooks, CreateCapturedRequestFails(h) PROVE IInv'
<1> USE DEF IInv, CreateCapturedRequestFails, Goto, store, input, Respond
<1>0. statusCodeFromServiceError("error") = InternalServerError
  BY DEF statusCodeFromServiceError
<1>1. TypeOK'
  BY <1>0 DEF TypeOK, Running, Gone, InboxState, HookObservation, CapturedRequest, Status
<1>2. StatusFollowsStage'
  BY <1>0 DEF TypeOK, StatusFollowsStage, NoContent, InternalServerError
<1>3. SeenIsCurrent'
  BY <1>0 DEF TypeOK, StatusFollowsStage, StoreFollowsStatus, SeenIsCurrent, Stored,
     InFlight, Running
<1>4. RefusalWasTrue'
  BY <1>0 DEF TypeOK, StatusFollowsStage, RefusalWasTrue, NoContent, NotFound, Conflict,
     InternalServerError
<1>5. StoreFollowsStatus'
  BY <1>0 DEF TypeOK, StatusFollowsStage, StoreFollowsStatus, Stored, NoContent,
     InternalServerError
<1>6. ObservedAtTheEnd'
  BY <1>0 DEF TypeOK, StatusFollowsStage, StoreFollowsStatus, ObservedAtTheEnd, Row
<1>7. QED
  BY <1>1, <1>2, <1>3, <1>4, <1>5, <1>6

\* Publishing changes no store, panic or not.
LEMMA PublishKeeps ==
    ASSUME IInv, NEW h \in Hooks, publishCapturedRequest(h) PROVE IInv'
<1> USE DEF IInv, publishCapturedRequest, Goto, store, input
<1>0. panicking' \in [Hooks -> BOOLEAN]
  BY DEF TypeOK
<1>1. TypeOK'
  BY <1>0 DEF TypeOK, Running, Gone, InboxState
<1>2. StatusFollowsStage'
  BY DEF TypeOK, StatusFollowsStage, NoContent, InternalServerError
<1>3. SeenIsCurrent'
  BY DEF TypeOK, StatusFollowsStage, StoreFollowsStatus, SeenIsCurrent, Stored, InFlight,
     Running
<1>4. RefusalWasTrue'
  BY DEF TypeOK, StatusFollowsStage, RefusalWasTrue
<1>5. StoreFollowsStatus'
  BY DEF TypeOK, StatusFollowsStage, StoreFollowsStatus, Stored
<1>6. ObservedAtTheEnd'
  BY DEF TypeOK, StatusFollowsStage, StoreFollowsStatus, ObservedAtTheEnd, Row
<1>7. QED
  BY <1>1, <1>2, <1>3, <1>4, <1>5, <1>6

\* The row takes its status and inbox from a handler that is done, and it is
\* the first.
LEMMA RowIsNew ==
    ASSUME IInv, NEW h \in Hooks, pc[h] = "observe"
    PROVE  Row(h) \in HookObservation /\ Append(monitoringEvents[h], Row(h)) = <<Row(h)>>
<1>1. Row(h) \in HookObservation
  BY DEF IInv, TypeOK, StatusFollowsStage, Row, HookObservation
<1>2. monitoringEvents[h] = <<>>
  BY DEF IInv, ObservedAtTheEnd
<1>3. QED
  BY <1>1, <1>2

\* An observation that is written, with or without an error after it, or not.
LEMMA ObserveKeeps ==
    ASSUME IInv, NEW h \in Hooks, RecordHookObservation(h) \/ RecordHookObservationFails(h)
    PROVE  IInv'
<1> USE DEF IInv, Goto, input
<1>0. /\ pc[h] = "observe"
      /\ monitoringEvents' \in {monitoringEvents,
                                [monitoringEvents EXCEPT ![h] = <<Row(h)>>]}
      /\ \E l \in {"publishLive", "return"} : pc' = [pc EXCEPT ![h] = l]
      /\ UNCHANGED <<inboxes, requests, token, method, responseStatus, obsInboxID,
                     panicking, seen>>
  BY RowIsNew DEF RecordHookObservation, RecordHookObservationFails
<1>1. TypeOK'
  <2>1. <<Row(h)>> \in Rows
    BY <1>0, RowIsNew DEF Rows
  <2>2. monitoringEvents' \in [Hooks -> Rows]
    BY <1>0, <2>1 DEF TypeOK
  <2>3. TypeOK
    OBVIOUS
  <2>4. pc' \in [Hooks -> Running \cup Gone]
    BY ONLY <1>0, <2>3 DEF TypeOK, Running
  <2>5. QED
    BY ONLY <1>0, <2>2, <2>3, <2>4 DEF TypeOK
<1>2. StatusFollowsStage'
  BY <1>0 DEF TypeOK, StatusFollowsStage
<1>3. SeenIsCurrent'
  BY <1>0 DEF TypeOK, StatusFollowsStage, StoreFollowsStatus, SeenIsCurrent, Stored,
     InFlight, Running
<1>4. RefusalWasTrue'
  BY <1>0 DEF TypeOK, StatusFollowsStage, RefusalWasTrue
<1>5. StoreFollowsStatus'
  BY <1>0 DEF TypeOK, StatusFollowsStage, StoreFollowsStatus, Stored
<1>6. ObservedAtTheEnd'
  BY <1>0 DEF TypeOK, ObservedAtTheEnd, Row
<1>7. QED
  BY <1>1, <1>2, <1>3, <1>4, <1>5, <1>6

\* Publishing the live event changes no store either.
LEMMA PublishLiveKeeps ==
    ASSUME IInv, NEW h \in Hooks, publishMonitoringLiveEvent(h) PROVE IInv'
<1> USE DEF IInv, publishMonitoringLiveEvent, Goto, store, input
<1>0. panicking' \in [Hooks -> BOOLEAN]
  BY DEF TypeOK
<1>1. TypeOK'
  BY <1>0 DEF TypeOK, Running, Gone, InboxState
<1>2. StatusFollowsStage'
  BY DEF TypeOK, StatusFollowsStage
<1>3. SeenIsCurrent'
  BY DEF TypeOK, StatusFollowsStage, StoreFollowsStatus, SeenIsCurrent, Stored, InFlight,
     Running
<1>4. RefusalWasTrue'
  BY DEF TypeOK, StatusFollowsStage, RefusalWasTrue
<1>5. StoreFollowsStatus'
  BY DEF TypeOK, StatusFollowsStage, StoreFollowsStatus, Stored
<1>6. ObservedAtTheEnd'
  BY DEF TypeOK, StatusFollowsStage, StoreFollowsStatus, ObservedAtTheEnd, Row
<1>7. QED
  BY <1>1, <1>2, <1>3, <1>4, <1>5, <1>6

\* A handler that returns keeps its status.
LEMMA ReturnKeeps ==
    ASSUME IInv, NEW h \in Hooks, Return(h) PROVE IInv'
<1> USE DEF IInv, Return, Goto, store, input
<1>1. TypeOK'
  BY DEF TypeOK, Running, Gone, InboxState
<1>2. StatusFollowsStage'
  BY DEF TypeOK, StatusFollowsStage
<1>3. SeenIsCurrent'
  BY DEF TypeOK, StatusFollowsStage, StoreFollowsStatus, SeenIsCurrent, Stored, InFlight,
     Running
<1>4. RefusalWasTrue'
  BY DEF TypeOK, StatusFollowsStage, RefusalWasTrue
<1>5. StoreFollowsStatus'
  BY DEF TypeOK, StatusFollowsStage, StoreFollowsStatus, Stored
<1>6. ObservedAtTheEnd'
  BY DEF TypeOK, StatusFollowsStage, StoreFollowsStatus, ObservedAtTheEnd, Row
<1>7. QED
  BY <1>1, <1>2, <1>3, <1>4, <1>5, <1>6

\* A restart takes the running handlers and leaves the store.
LEMMA RestartKeeps == ASSUME IInv, Restart PROVE IInv'
<1> USE DEF IInv, Restart, Goto, store, input, InFlight
<1>1. TypeOK'
  BY DEF TypeOK, Running, Gone, InboxState
<1>2. StatusFollowsStage'
  BY DEF TypeOK, Running, StatusFollowsStage
<1>3. SeenIsCurrent'
  BY DEF TypeOK, StatusFollowsStage, StoreFollowsStatus, SeenIsCurrent, Stored, InFlight
<1>4. RefusalWasTrue'
  BY DEF TypeOK, StatusFollowsStage, RefusalWasTrue
<1>5. StoreFollowsStatus'
  BY DEF TypeOK, StatusFollowsStage, StoreFollowsStatus, Stored
<1>6. ObservedAtTheEnd'
  BY DEF TypeOK, HookObservation, StatusFollowsStage, StoreFollowsStatus, ObservedAtTheEnd, Row
<1>7. QED
  BY <1>1, <1>2, <1>3, <1>4, <1>5, <1>6

--------------------------------------------------------------------------------

\* IInv is an invariant: it holds initially and every step keeps it.
THEOREM Invariant == Spec => []IInv
<1>1. IInv /\ [Next]_vars => IInv'
  <2> SUFFICES ASSUME IInv, [Next]_vars PROVE IInv'
    OBVIOUS
  <2>1. ASSUME NEW i \in Inboxes, Manage(i) PROVE IInv'
    BY <2>1, ManageKeeps
  <2>2. ASSUME NEW h \in Hooks, Start(h) \/ HandlerStep(h) PROVE IInv'
    <3>1. CASE Start(h)
      BY <3>1, StartKeeps
    <3>2. CASE ResolveInboxIDByToken(h)
      BY <3>2, ResolveKeeps
    <3>3. CASE ValidateCaptureTarget(h)
      BY <3>3, ValidateKeeps
    <3>4. CASE ReadBody(h)
      BY <3>4, ReadBodyKeeps
    <3>5. CASE CaptureRequest(h)
      BY <3>5, CheckKeeps
    <3>6. CASE CreateCapturedRequest(h)
      BY <3>6, InsertKeeps
    <3>7. CASE CreateCapturedRequestFails(h)
      BY <3>7, InsertFailsKeeps
    <3>8. CASE publishCapturedRequest(h)
      BY <3>8, PublishKeeps
    <3>9. CASE RecordHookObservation(h)
      BY <3>9, ObserveKeeps
    <3>10. CASE RecordHookObservationFails(h)
      BY <3>10, ObserveKeeps
    <3>11. CASE publishMonitoringLiveEvent(h)
      BY <3>11, PublishLiveKeeps
    <3>12. CASE Return(h)
      BY <3>12, ReturnKeeps
    <3>13. QED
      BY <2>2, <3>1, <3>2, <3>3, <3>4, <3>5, <3>6, <3>7, <3>8, <3>9, <3>10, <3>11, <3>12 DEF
         HandlerStep
  <2>3. CASE Restart
    BY <2>3, RestartKeeps
  <2>4. CASE UNCHANGED vars
    BY <2>4 DEF vars, store, input, handler, IInv, TypeOK, StatusFollowsStage,
       SeenIsCurrent, RefusalWasTrue, StoreFollowsStatus, ObservedAtTheEnd, Row, Stored,
       InFlight
  <2>5. QED
    BY <2>1, <2>2, <2>3, <2>4 DEF Next
<1>2. QED
  BY InitEstablishes, <1>1, PTL DEF Spec

\* The store and the handlers keep to their types.
THEOREM TypeCorrect == Spec => []TypeOK
<1>1. IInv => TypeOK
  BY DEF IInv
<1>2. QED
  BY <1>1, Invariant, PTL

\* A request is in the store only if its inbox was active at some moment
\* after its body had arrived, whatever PATCH and DELETE ran beside it.
THEOREM StoredWasActiveHolds == Spec => []StoredWasActive
<1>1. IInv => StoredWasActive
  <2> SUFFICES ASSUME IInv, NEW r \in requests
               PROVE  r.inboxID = token[r.id] /\ "active" \in seen[r.id]
    BY DEF StoredWasActive
  <2>1. r.id \in Hooks /\ r = [id |-> r.id, inboxID |-> r.inboxID]
    BY DEF IInv, TypeOK, CapturedRequest
  <2>2. r.inboxID = token[r.id]
    BY DEF IInv, StoreFollowsStatus
  <2>3. Stored(r.id)
    BY <2>1, <2>2 DEF Stored
  <2>4. QED
    BY <2>1, <2>2, <2>3 DEF IInv, SeenIsCurrent
<1>2. QED
  BY <1>1, Invariant, PTL

\* A 404 or a 409 was true at some moment of the call that got it.
THEOREM RefusalWasTrueHolds == Spec => []RefusalWasTrue
<1>1. IInv => RefusalWasTrue
  BY DEF IInv
<1>2. QED
  BY <1>1, Invariant, PTL

\* 204 means written and a 4xx not written, over failures and restarts.
THEOREM StatusTellsStoredHolds == Spec => []StatusTellsStored
<1>1. IInv => StatusTellsStored
  BY DEF IInv, StoreFollowsStatus, StatusTellsStored, NoContent, BadRequest, NotFound,
     Conflict, EntityTooLarge, InternalServerError
<1>2. QED
  BY <1>1, Invariant, PTL

\* A delivery has one row at most, which agrees with its answer and with the
\* store.
THEOREM ObservationAgreesHolds == Spec => []ObservationAgrees
<1>1. IInv => ObservationAgrees
  <2> SUFFICES ASSUME IInv, NEW h \in Hooks
               PROVE  /\ Len(monitoringEvents[h]) <= 1
                      /\ \A i \in DOMAIN monitoringEvents[h] :
                            LET row == monitoringEvents[h][i]
                            IN  /\ row.statusCode = responseStatus[h]
                                /\ row.statusCode = NoContent
                                      => [id |-> h, inboxID |-> row.inboxID] \in requests
    BY DEF ObservationAgrees
  <2>1. CASE monitoringEvents[h] = <<>>
    BY <2>1
  <2>2. CASE monitoringEvents[h] = <<Row(h)>>
    <3>1. Len(monitoringEvents[h]) = 1 /\ DOMAIN monitoringEvents[h] = {1}
      BY <2>2
    <3>2. monitoringEvents[h][1] = Row(h)
      BY <2>2
    <3>3. responseStatus[h] = NoContent => [id |-> h, inboxID |-> obsInboxID[h]] \in requests
      BY DEF IInv, StoreFollowsStatus, Stored
    <3>4. QED
      BY <3>1, <3>2, <3>3 DEF Row
  <2>3. QED
    BY <2>1, <2>2 DEF IInv, ObservedAtTheEnd
<1>2. QED
  BY <1>1, Invariant, PTL

\* With the memory store no write fails: the row of a handler that got past its
\* deferred call is there, and a request kept was answered 204.
MemoryInv ==
    Backend = "memory" =>
       \A h \in Hooks :
          /\ Stored(h) => responseStatus[h] = NoContent
          /\ method[h] = "OPTIONS" => responseStatus[h] = 0 /\ monitoringEvents[h] = <<>>
          /\ pc[h] \in {"publishLive", "return", "dropped"} => monitoringEvents[h] # <<>>
          /\ pc[h] = "done" => method[h] = "OPTIONS" \/ monitoringEvents[h] # <<>>

\* A step of one delivery that is not answered OPTIONS, and that needs no row
\* or has one.
LEMMA MemoryStep ==
    ASSUME MemoryInv, NEW h \in Hooks, Backend = "memory", method' = method,
           \A g \in Hooks \ {h} : /\ pc'[g] = pc[g] /\ responseStatus'[g] = responseStatus[g]
                                  /\ monitoringEvents'[g] = monitoringEvents[g]
                                  /\ Stored(g)' <=> Stored(g),
           method[h] # "OPTIONS",
           Stored(h)' => responseStatus'[h] = NoContent,
           \/ pc'[h] \notin {"publishLive", "return", "dropped", "done"}
           \/ monitoringEvents'[h] # <<>>
    PROVE  MemoryInv'
  BY DEF MemoryInv

\* Every step of a delivery's handler keeps what holds in memory.
LEMMA MemoryHandlerKeeps ==
    ASSUME IInv, MemoryInv, Backend = "memory", NEW h \in Hooks, Start(h) \/ HandlerStep(h)
    PROVE  MemoryInv'
<1> USE DEF Goto, store, input, Respond
<1>1. StoreErrors = {}
  BY DEF StoreErrors
<1>2. /\ pc \in [Hooks -> Running \cup Gone] /\ responseStatus \in [Hooks -> Status]
      /\ monitoringEvents \in [Hooks -> Rows]
  BY DEF IInv, TypeOK
<1>3. CASE Start(h)
  BY <1>2, <1>3 DEF Start, MemoryInv, Stored, IInv, StatusFollowsStage
<1>4. ASSUME ~ Start(h) PROVE pc[h] \in Running /\ method[h] # "OPTIONS"
  <2>1. pc[h] \in Running
    BY <1>4 DEF HandlerStep, ResolveInboxIDByToken, ValidateCaptureTarget, ReadBody,
       CaptureRequest, CreateCapturedRequest, CreateCapturedRequestFails,
       publishCapturedRequest, RecordHookObservation, RecordHookObservationFails,
       publishMonitoringLiveEvent, Return, Running
  <2>2. QED
    BY <2>1 DEF IInv, StatusFollowsStage, Running
<1>5. Stored(h) => responseStatus[h] = NoContent
  BY DEF MemoryInv
<1>6. CASE ResolveInboxIDByToken(h)
  BY <1>2, <1>4, <1>5, <1>6, MemoryStep DEF ResolveInboxIDByToken, Start, Stored
<1>7. CASE ValidateCaptureTarget(h) \/ ReadBody(h) \/ CaptureRequest(h)
  <2>1. pc[h] \in {"validate", "readBody", "check"}
    BY <1>7 DEF ValidateCaptureTarget, ReadBody, CaptureRequest
  <2>2. ~ Stored(h)
    BY <1>5, <2>1 DEF IInv, StatusFollowsStage, NoContent
  <2>3. UNCHANGED <<requests, monitoringEvents, token, method>>
    BY <1>7 DEF ValidateCaptureTarget, ReadBody, CaptureRequest
  <2>4. /\ \A g \in Hooks \ {h} : pc'[g] = pc[g] /\ responseStatus'[g] = responseStatus[g]
        /\ pc'[h] \in {"readBody", "check", "insert", "observe"}
    BY <1>2, <1>7 DEF ValidateCaptureTarget, ReadBody, CaptureRequest
  <2>5. method[h] # "OPTIONS"
    BY <1>4, <2>1 DEF Start
  <2>6. QED
    BY <2>2, <2>3, <2>4, <2>5, MemoryStep DEF Stored
<1>8. CASE CreateCapturedRequest(h)
  BY <1>2, <1>4, <1>8, MemoryStep DEF CreateCapturedRequest, Start, Stored
<1>9. CASE publishCapturedRequest(h)
  BY <1>2, <1>4, <1>5, <1>9, MemoryStep DEF publishCapturedRequest, Start, Stored
<1>10. CASE RecordHookObservation(h)
  <2>1. monitoringEvents'[h] = <<Row(h)>>
    BY <1>2, <1>10, RowIsNew DEF RecordHookObservation
  <2>2. monitoringEvents'[h] # <<>>
    BY <2>1
  <2>3. QED
    BY <1>2, <1>4, <1>5, <1>10, <2>2, MemoryStep DEF RecordHookObservation, Start, Stored
<1>11. CASE publishMonitoringLiveEvent(h) \/ Return(h)
  <2>1. monitoringEvents[h] # <<>> /\ UNCHANGED monitoringEvents
    BY <1>11 DEF publishMonitoringLiveEvent, Return, MemoryInv
  <2>2. QED
    BY <1>2, <1>4, <1>5, <1>11, <2>1, MemoryStep DEF publishMonitoringLiveEvent, Return, Start,
       Stored
<1>12. ~ CreateCapturedRequestFails(h) /\ ~ RecordHookObservationFails(h)
  BY <1>1 DEF CreateCapturedRequestFails, RecordHookObservationFails
<1>13. QED
  BY <1>3, <1>6, <1>7, <1>8, <1>9, <1>10, <1>11, <1>12 DEF HandlerStep

\* With the memory store every delivery that is over has exactly one row,
\* panics included, and the rows with a 204 are those of the requests kept.
THEOREM MemoryCountsEveryHookHolds == Spec => []MemoryCountsEveryHook
<1>1. Init => MemoryInv
  BY DEF Init, MemoryInv, Stored
<1>2. IInv /\ MemoryInv /\ [Next]_vars => MemoryInv'
  <2> SUFFICES ASSUME IInv, MemoryInv, [Next]_vars, Backend = "memory" PROVE MemoryInv'
    BY DEF MemoryInv
  <2>1. CASE UNCHANGED vars \/ \E i \in Inboxes : Manage(i)
    BY <2>1 DEF vars, store, input, handler, Manage, MemoryInv, Stored
  <2>2. ASSUME NEW h \in Hooks, Start(h) \/ HandlerStep(h) PROVE MemoryInv'
    BY <2>2, MemoryHandlerKeeps
  <2>3. ~ Restart
    BY DEF Restart
  <2>4. QED
    BY <2>1, <2>2, <2>3 DEF Next
<1>3. IInv /\ MemoryInv => MemoryCountsEveryHook
  <2> SUFFICES ASSUME IInv, MemoryInv, Backend = "memory", NEW h \in Hooks,
                      pc[h] \in {"done", "dropped"}
               PROVE  IF method[h] = "OPTIONS"
                      THEN monitoringEvents[h] = <<>> /\ ~ Stored(h)
                      ELSE /\ Len(monitoringEvents[h]) = 1
                           /\ Stored(h) <=> monitoringEvents[h][1].statusCode = NoContent
    BY DEF MemoryCountsEveryHook
  <2>1. Stored(h) <=> responseStatus[h] = NoContent
    BY DEF IInv, StoreFollowsStatus, MemoryInv
  <2>2. CASE method[h] = "OPTIONS"
    BY <2>1, <2>2 DEF MemoryInv, NoContent
  <2>3. CASE method[h] # "OPTIONS"
    <3>1. monitoringEvents[h] = <<Row(h)>>
      BY <2>3 DEF MemoryInv, IInv, ObservedAtTheEnd
    <3>2. Len(monitoringEvents[h]) = 1 /\ monitoringEvents[h][1].statusCode = responseStatus[h]
      BY <3>1 DEF Row
    <3>3. QED
      BY <2>1, <2>3, <3>2
  <2>4. QED
    BY <2>2, <2>3
<1>4. QED
  BY <1>1, <1>2, <1>3, Invariant, PTL DEF Spec

\* Once the sender has its answer nothing about the delivery is written.
THEOREM AnswerComesLastHolds == Spec => AnswerComesLast
<1>1. IInv /\ [Next]_vars =>
        [\A h \in Hooks : pc[h] \in {"done", "dropped"} =>
           /\ {r \in requests' : r.id = h} = {r \in requests : r.id = h}
           /\ monitoringEvents'[h] = monitoringEvents[h]]_vars
  <2> SUFFICES ASSUME IInv, Next, NEW h \in Hooks, pc[h] \in {"done", "dropped"}
               PROVE  /\ {r \in requests' : r.id = h} = {r \in requests : r.id = h}
                      /\ monitoringEvents'[h] = monitoringEvents[h]
    OBVIOUS
  <2>1. ASSUME NEW g \in Hooks, CreateCapturedRequest(g) \/ CreateCapturedRequestFails(g)
        PROVE  /\ {r \in requests' : r.id = h} = {r \in requests : r.id = h}
               /\ monitoringEvents' = monitoringEvents
    <3>1. g # h
      BY <2>1 DEF CreateCapturedRequest, CreateCapturedRequestFails
    <3>2. QED
      BY <2>1, <3>1 DEF CreateCapturedRequest, CreateCapturedRequestFails
  <2>2. ASSUME NEW g \in Hooks, RecordHookObservation(g) \/ RecordHookObservationFails(g)
        PROVE  monitoringEvents'[h] = monitoringEvents[h] /\ requests' = requests
    <3>1. g # h
      BY <2>2 DEF RecordHookObservation, RecordHookObservationFails
    <3>2. QED
      BY <2>2, <3>1 DEF RecordHookObservation, RecordHookObservationFails, IInv, TypeOK
  <2>3. CASE UNCHANGED <<requests, monitoringEvents>>
    BY <2>3
  <2>4. QED
    BY <2>1, <2>2, <2>3 DEF Next, Manage, Start, HandlerStep, ResolveInboxIDByToken,
       ValidateCaptureTarget, ReadBody, CaptureRequest, publishCapturedRequest,
       publishMonitoringLiveEvent, Return, Restart, store
<1>2. QED
  BY <1>1, Invariant, PTL DEF Spec, AnswerComesLast

--------------------------------------------------------------------------------
\* The handler implements HookContract.

\* The handler begins where the contract does.
LEMMA ContractInitHolds == Init => Contract!ContractInit
  BY DEF Init, Contract!ContractInit, verdictOf, NoContent, NotFound, Conflict, BadRequest,
     EntityTooLarge, InternalServerError

\* A step that keeps every verdict, the store and the told ones is a stutter.
LEMMA SameVerdicts ==
    ASSUME IInv, NEW h \in Hooks,
           \/ Start(h) \/ ResolveInboxIDByToken(h) \/ publishCapturedRequest(h)
           \/ RecordHookObservation(h) \/ RecordHookObservationFails(h)
           \/ publishMonitoringLiveEvent(h)
    PROVE  UNCHANGED Contract!contractVars
<1>1. UNCHANGED <<inboxes, token, requests, method, responseStatus>>
  BY DEF Start, ResolveInboxIDByToken, publishCapturedRequest, RecordHookObservation,
     RecordHookObservationFails, publishMonitoringLiveEvent, store, input
<1>2. \A g \in Hooks : verdictOf(g)' = verdictOf(g)
  BY <1>1 DEF Start, ResolveInboxIDByToken, publishCapturedRequest, RecordHookObservation,
     RecordHookObservationFails, publishMonitoringLiveEvent, Goto, verdictOf, IInv, TypeOK,
     StatusFollowsStage
<1>3. {g \in Hooks : pc'[g] = "done" /\ method'[g] # "OPTIONS"}
        = {g \in Hooks : pc[g] = "done" /\ method[g] # "OPTIONS"}
  BY <1>1 DEF Start, ResolveInboxIDByToken, publishCapturedRequest, RecordHookObservation,
     RecordHookObservationFails, publishMonitoringLiveEvent, Goto, IInv, TypeOK
<1>4. QED
  BY <1>1, <1>2, <1>3 DEF Contract!contractVars

\* A management call is the contract's step of an inbox, or changes nothing.
LEMMA ManageMaps ==
    ASSUME IInv, NEW i \in Inboxes, Manage(i)
    PROVE  Contract!ContractNext \/ UNCHANGED Contract!contractVars
<1>1. UNCHANGED <<requests, token, method, pc, responseStatus>>
  BY DEF Manage, input, handler
<1>2. \A g \in Hooks : verdictOf(g)' = verdictOf(g)
  BY <1>1 DEF verdictOf
<1>3. CASE inboxes' = inboxes
  BY <1>1, <1>2, <1>3 DEF Contract!contractVars
<1>4. CASE inboxes' # inboxes
  <2>1. PICK s \in InboxState : /\ <<inboxes[i], s>> \in Contract!Lifecycle
                               /\ inboxes' = [inboxes EXCEPT ![i] = s]
    BY <1>4 DEF IInv, TypeOK, Manage, CreateInbox, UpdateInbox, SoftDeleteInbox, InboxState,
       Live, Contract!Lifecycle
  <2>2. Contract!Manage(i)
    BY <1>1, <1>2, <2>1 DEF Contract!Manage, Contract!InboxState, InboxState
  <2>3. QED
    BY <2>2 DEF Contract!ContractNext
<1>5. QED
  BY <1>3, <1>4

\* The steps that refuse a delivery, or accept it, decide on what they see.
LEMMA DecideMaps ==
    ASSUME IInv, NEW h \in Hooks,
           ValidateCaptureTarget(h) \/ ReadBody(h) \/ CaptureRequest(h)
    PROVE  Contract!ContractNext \/ UNCHANGED Contract!contractVars
<1>1. UNCHANGED <<inboxes, requests, token, method>>
  BY DEF ValidateCaptureTarget, ReadBody, CaptureRequest, store, input
<1>2. \A g \in Hooks : g # h => verdictOf(g)' = verdictOf(g)
  BY DEF ValidateCaptureTarget, ReadBody, CaptureRequest, Respond, Goto, verdictOf, IInv,
     TypeOK
<1>3. {g \in Hooks : pc'[g] = "done" /\ method'[g] # "OPTIONS"}
        = {g \in Hooks : pc[g] = "done" /\ method[g] # "OPTIONS"}
  BY <1>1 DEF ValidateCaptureTarget, ReadBody, CaptureRequest, Respond, Goto, IInv, TypeOK
<1>4. verdictOf(h) = "none"
  BY DEF ValidateCaptureTarget, ReadBody, CaptureRequest, IInv, StatusFollowsStage,
     verdictOf, NoContent, NotFound, Conflict, BadRequest, EntityTooLarge,
     InternalServerError
<1>5. \/ verdictOf(h)' = "none"
      \/ /\ verdictOf(h)' \in {"accepted"} \cup Contract!Refusal
         /\ Contract!Allows(inboxes[token[h]], verdictOf(h)')
  <2> USE DEF Respond, Goto, IInv, TypeOK, StatusFollowsStage, verdictOf, Contract!Refusal,
          Contract!Allows, NoContent, NotFound, Conflict, BadRequest, EntityTooLarge,
          InternalServerError
  <2>1. CASE ValidateCaptureTarget(h)
    BY <2>1, Lookup DEF ValidateCaptureTarget
  <2>2. CASE ReadBody(h)
    BY <2>2 DEF ReadBody
  <2>3. CASE CaptureRequest(h)
    <3>1. statusCodeFromServiceError("error") = InternalServerError
      BY DEF statusCodeFromServiceError
    <3>2. \/ inboxes[token[h]] = "active" /\ pc' = [pc EXCEPT ![h] = "insert"]
             /\ UNCHANGED responseStatus
          \/ \E code \in {NotFound, Conflict, InternalServerError} :
                /\ responseStatus' = [responseStatus EXCEPT ![h] = code]
                /\ pc' = [pc EXCEPT ![h] = "observe"]
                /\ code = NotFound => inboxes[token[h]] \in {"absent", "deleted"}
                /\ code = Conflict => inboxes[token[h]] = "disabled"
      BY <2>3, <3>1, Lookup DEF CaptureRequest
    <3>3. pc[h] = "check" /\ responseStatus[h] = 0
      BY <2>3 DEF CaptureRequest
    <3>4. QED
      BY <3>2, <3>3
  <2>4. QED
    BY <2>1, <2>2, <2>3
<1>6. CASE verdictOf(h)' = "none"
  BY <1>1, <1>2, <1>3, <1>4, <1>6 DEF Contract!contractVars
<1>7. CASE /\ verdictOf(h)' \in {"accepted"} \cup Contract!Refusal
           /\ Contract!Allows(inboxes[token[h]], verdictOf(h)')
  <2>1. Contract!Decide(h)
    BY <1>1, <1>2, <1>3, <1>4, <1>7 DEF Contract!Decide
  <2>2. QED
    BY <2>1 DEF Contract!ContractNext
<1>8. QED
  BY <1>5, <1>6, <1>7

\* The insert, failing or not, is a step of the contract.
LEMMA WriteMaps ==
    ASSUME IInv, NEW h \in Hooks, CreateCapturedRequest(h) \/ CreateCapturedRequestFails(h)
    PROVE  Contract!ContractNext
<1>1. UNCHANGED <<inboxes, token, method>>
  BY DEF CreateCapturedRequest, CreateCapturedRequestFails, input
<1>2. \A g \in Hooks : g # h => verdictOf(g)' = verdictOf(g)
  BY DEF CreateCapturedRequest, CreateCapturedRequestFails, Respond, Goto, verdictOf, IInv,
     TypeOK
<1>3. {g \in Hooks : pc'[g] = "done" /\ method'[g] # "OPTIONS"}
        = {g \in Hooks : pc[g] = "done" /\ method[g] # "OPTIONS"}
  BY <1>1 DEF CreateCapturedRequest, CreateCapturedRequestFails, Respond, Goto, IInv, TypeOK
<1>4. responseStatus[h] = 0 /\ pc[h] = "insert" /\ ~ Stored(h)
  BY DEF CreateCapturedRequest, CreateCapturedRequestFails, IInv, StatusFollowsStage,
     StoreFollowsStatus, NoContent, InternalServerError
<1>5. verdictOf(h) = "accepted"
  BY <1>4 DEF verdictOf
<1>6. \/ /\ requests' = requests \cup {[id |-> h, inboxID |-> token[h]]}
         /\ verdictOf(h)' = "accepted"
      \/ /\ requests' \in {requests, requests \cup {[id |-> h, inboxID |-> token[h]]}}
         /\ verdictOf(h)' = "internal_error"
  BY DEF CreateCapturedRequest, CreateCapturedRequestFails, statusCodeFromServiceError,
     Respond, verdictOf, IInv, TypeOK, NoContent, NotFound, Conflict, BadRequest,
     EntityTooLarge, InternalServerError
<1>7. Contract!Write(h)
  <2> DEFINE verdict == [g \in Hooks |-> verdictOf(g)]
  <2>1. ~ Contract!Written(h)
    BY <1>4 DEF Contract!Written, Stored
  <2>2. requests' \in {requests, requests \cup {[id |-> h, inboxID |-> token[h]]}}
    BY <1>6
  <2>3. \/ verdict' = [verdict EXCEPT ![h] = "internal_error"]
        \/ requests' # requests /\ verdict' = verdict
    BY <1>2, <1>4, <1>5, <1>6 DEF Stored
  <2>4. QED
    BY <1>1, <1>3, <1>5, <2>1, <2>2, <2>3 DEF Contract!Write
<1>8. QED
  BY <1>7 DEF Contract!ContractNext

\* The return to the sender is the contract's answer, or a stutter.
LEMMA ReturnMaps ==
    ASSUME IInv, NEW h \in Hooks, Return(h)
    PROVE  Contract!ContractNext \/ UNCHANGED Contract!contractVars
<1>1. UNCHANGED <<inboxes, requests, token, method, responseStatus>>
  BY DEF Return, store, input
<1>2. pc[h] = "return" /\ responseStatus[h] # 0 /\ method[h] # "OPTIONS"
  BY DEF Return, IInv, StatusFollowsStage
<1>3. \A g \in Hooks : verdictOf(g)' = verdictOf(g)
  BY <1>1, <1>2 DEF Return, Goto, verdictOf, IInv, TypeOK
<1>4. CASE panicking[h]
  <2>1. {g \in Hooks : pc'[g] = "done" /\ method'[g] # "OPTIONS"}
          = {g \in Hooks : pc[g] = "done" /\ method[g] # "OPTIONS"}
    BY <1>1, <1>2, <1>4 DEF Return, Goto, IInv, TypeOK
  <2>2. QED
    BY <1>1, <1>3, <2>1 DEF Contract!contractVars
<1>5. CASE ~ panicking[h]
  <2>1. {g \in Hooks : pc'[g] = "done" /\ method'[g] # "OPTIONS"}
          = {g \in Hooks : pc[g] = "done" /\ method[g] # "OPTIONS"} \cup {h}
    BY <1>1, <1>2, <1>5 DEF Return, Goto, IInv, TypeOK
  <2>2. verdictOf(h) \notin {"none", "lost"}
    BY <1>2 DEF verdictOf, IInv, TypeOK, Status
  <2>3. verdictOf(h) = "accepted" => Contract!Written(h)
    BY <1>2 DEF verdictOf, IInv, TypeOK, StoreFollowsStatus, Stored, Contract!Written
  <2>4. Contract!Tell(h)
    BY <1>1, <1>2, <1>3, <2>1, <2>2, <2>3 DEF Contract!Tell
  <2>5. QED
    BY <2>4 DEF Contract!ContractNext
<1>6. QED
  BY <1>4, <1>5

\* A restart is a step of the contract in which the calls under way are dropped.
LEMMA RestartMaps ==
    ASSUME IInv, Restart
    PROVE  Contract!ContractNext
<1> DEFINE S == {g \in Hooks : InFlight(g) /\ responseStatus[g] = 0}
<1>1. UNCHANGED <<inboxes, requests, token, method, responseStatus>>
  BY DEF Restart, store, input
<1>2. \A g \in S : \/ verdictOf(g) = "none"
                   \/ (verdictOf(g) = "accepted" /\ ~ Contract!Written(g))
  BY DEF IInv, StoreFollowsStatus, Stored, Contract!Written, verdictOf, InFlight, Running,
     NoContent, NotFound, Conflict, BadRequest, EntityTooLarge, InternalServerError
<1>3. \A g \in Hooks : verdictOf(g)' = IF g \in S THEN "lost" ELSE verdictOf(g)
  <2> SUFFICES ASSUME NEW g \in Hooks
               PROVE  verdictOf(g)' = IF g \in S THEN "lost" ELSE verdictOf(g)
    OBVIOUS
  <2>1. pc'[g] = IF InFlight(g) THEN "killed" ELSE pc[g]
    BY DEF Restart
  <2>2. CASE g \in S
    BY <1>1, <2>1, <2>2 DEF verdictOf
  <2>3. CASE g \notin S /\ InFlight(g)
    BY <1>1, <2>1, <2>3 DEF verdictOf, IInv, TypeOK
  <2>4. CASE g \notin S /\ ~ InFlight(g)
    BY <1>1, <2>1, <2>4 DEF verdictOf
  <2>5. QED
    BY <2>2, <2>3, <2>4
<1>4. {g \in Hooks : pc'[g] = "done" /\ method'[g] # "OPTIONS"}
        = {g \in Hooks : pc[g] = "done" /\ method[g] # "OPTIONS"}
  BY <1>1 DEF Restart, InFlight, Running
<1>5. Contract!Lose
  <2> DEFINE verdict == [g \in Hooks |-> verdictOf(g)]
  <2>1. S \in SUBSET {g \in Hooks : \/ verdict[g] = "none"
                                    \/ verdict[g] = "accepted" /\ ~ Contract!Written(g)}
    BY <1>2
  <2>2. verdict' = [g \in Hooks |-> IF g \in S THEN "lost" ELSE verdict[g]]
    BY <1>3
  <2>3. QED
    BY <1>1, <1>4, <2>1, <2>2 DEF Contract!Lose
<1>6. QED
  BY <1>5 DEF Contract!ContractNext

\* The handler, seen through its verdict, does what HookContract promises:
\* it decides once on the state of that moment, writes once, tells last.
THEOREM HandlerImplementsContract == Spec => ImplementsContract
<1>1. IInv /\ [Next]_vars => [Contract!ContractNext]_(Contract!contractVars)
  <2> SUFFICES ASSUME IInv, [Next]_vars
               PROVE  Contract!ContractNext \/ UNCHANGED Contract!contractVars
    OBVIOUS
  <2>1. ASSUME NEW i \in Inboxes, Manage(i)
        PROVE  Contract!ContractNext \/ UNCHANGED Contract!contractVars
    BY <2>1, ManageMaps
  <2>2. ASSUME NEW h \in Hooks, Start(h) \/ HandlerStep(h)
        PROVE  Contract!ContractNext \/ UNCHANGED Contract!contractVars
    <3>1. CASE ValidateCaptureTarget(h) \/ ReadBody(h) \/ CaptureRequest(h)
      BY <3>1, DecideMaps
    <3>2. CASE CreateCapturedRequest(h) \/ CreateCapturedRequestFails(h)
      BY <3>2, WriteMaps
    <3>3. CASE Return(h)
      BY <3>3, ReturnMaps
    <3>4. CASE \/ Start(h) \/ ResolveInboxIDByToken(h) \/ publishCapturedRequest(h)
               \/ RecordHookObservation(h) \/ RecordHookObservationFails(h)
               \/ publishMonitoringLiveEvent(h)
      BY <3>4, SameVerdicts
    <3>5. QED
      BY <2>2, <3>1, <3>2, <3>3, <3>4 DEF HandlerStep
  <2>3. CASE Restart
    BY <2>3, RestartMaps
  <2>4. CASE UNCHANGED vars
    BY <2>4 DEF vars, store, input, handler, verdictOf, Contract!contractVars
  <2>5. QED
    BY <2>1, <2>2, <2>3, <2>4 DEF Next
<1>2. QED
  BY ContractInitHolds, Invariant, <1>1, PTL DEF Spec, ImplementsContract, Contract!ContractSpec
================================================================================
