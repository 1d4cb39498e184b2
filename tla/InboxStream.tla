------------------------------ MODULE InboxStream ------------------------------
(***************************************************************************)
(* GET /v1/inboxes/{id}/stream over the broker: handleInboxStream tells    *)
(* the client that it is connected, then subscribes, then loops until the  *)
(* request's context is done.  A topic is an inbox id; a publisher is a    *)
(* delivery that was stored, in publishCapturedRequest.                    *)
(***************************************************************************)
EXTENDS SSEBroker

VARIABLES client,     \* stream -> "waiting", "connected", "refused", "gone"
          handling,   \* stream handler -> "lookup", "flushed", "loop", "over"
          promised    \* history: stream -> events of its inbox published while
                      \* its client was connected

streamVars == <<brokerVars, client, handling, promised>>

\* GetInbox finds the inbox: 200 and ": connected" are flushed.
Connect(s) ==
    /\ handling[s] = "lookup"
    /\ handling' = [handling EXCEPT ![s] = "flushed"]
    /\ client' = [client EXCEPT ![s] = IF @ = "waiting" THEN "connected" ELSE @]
    /\ UNCHANGED <<brokerVars, promised>>

\* GetInbox fails: 404 or 500, and nothing to cancel.
Refuse(s) ==
    /\ handling[s] = "lookup"
    /\ handling' = [handling EXCEPT ![s] = "over"]
    /\ client' = [client EXCEPT ![s] = IF @ = "waiting" THEN "refused" ELSE @]
    /\ UNCHANGED <<brokerVars, promised>>

StartLoop(s) ==
    /\ handling[s] = "flushed"
    /\ Subscribe(s)
    /\ handling' = [handling EXCEPT ![s] = "loop"]
    /\ UNCHANGED <<client, promised>>

TakeEvent(s) ==
    /\ Receive(s)
    /\ UNCHANGED <<client, handling, promised>>

\* The client closes the connection, at any time of its handler.
Hangup(s) ==
    /\ client[s] \in {"waiting", "connected"}
    /\ client' = [client EXCEPT ![s] = "gone"]
    /\ UNCHANGED <<brokerVars, handling, promised>>

\* Mutant: the loop leaves only once its channel is drained.
NoticeDoneWhenDrained(s) ==
    /\ buffer[s] = <<>>
    /\ Disconnect(s)
    /\ client' = [client EXCEPT ![s] = "gone"]
    /\ UNCHANGED <<handling, promised>>

\* Only the loop looks at the context.  It is also done when a write failed,
\* after WriteTimeout.
NoticeDone(s) ==
    /\ Disconnect(s)
    /\ client' = [client EXCEPT ![s] = "gone"]
    /\ UNCHANGED <<handling, promised>>

LeaveLoop(s) ==
    /\ Cancel(s)
    /\ handling' = [handling EXCEPT ![s] = "over"]
    /\ UNCHANGED <<client, promised>>

PublishCaptured(p) ==
    /\ \E t \in Topics :
          /\ PublishTo(p, t)
          /\ promised' = [s \in Streams |->
                IF client[s] = "connected" /\ topic[s] = t THEN promised[s] \cup {p}
                                                           ELSE promised[s]]
    /\ UNCHANGED <<client, handling>>

SendCaptured(p) ==
    /\ SendStep(p)
    /\ UNCHANGED <<client, handling, promised>>

StreamInit ==
    /\ BrokerInit
    /\ client = [s \in Streams |-> "waiting"]
    /\ handling = [s \in Streams |-> "lookup"]
    /\ promised = [s \in Streams |-> {}]

HandlerStep(s) == Connect(s) \/ Refuse(s) \/ StartLoop(s) \/ LeaveLoop(s)

StreamNext ==
    \/ \E s \in Streams : HandlerStep(s) \/ TakeEvent(s) \/ Hangup(s) \/ NoticeDone(s)
    \/ \E p \in Publishers : PublishCaptured(p) \/ SendCaptured(p)

StreamSpec == StreamInit /\ [][StreamNext]_streamVars

\* Handlers that can run are scheduled; select takes a context that stays
\* done sooner or later, even while events keep coming.  No reader is assumed
\* to read.
FairStreamSpec ==
    /\ StreamSpec
    /\ \A p \in Publishers : WF_streamVars(SendCaptured(p))
    /\ \A s \in Streams : /\ WF_streamVars(HandlerStep(s))
                          /\ WF_streamVars(client[s] = "gone" /\ NoticeDone(s))

--------------------------------------------------------------------------------

\* A client that hangs up, before the subscription or after it, leaves
\* nothing behind: from some time on no group has its channel.
HangupFreesTheChannel ==
    \A s \in Streams : client[s] = "gone" ~> [](\A t \in Topics : s \notin Group(t))

\* An event of the inbox that is published while the client is connected is
\* meant for its stream, as TestInboxStreamReceivesCapturedRequest expects of
\* a hook sent after the stream answered 200.
ConnectedClientGetsEvents == \A s \in Streams : promised[s] \subseteq due[s]

\* A hook that was stored is answered: its publisher does not panic, whatever
\* the streams do, as the test expects 204 of a hook with a stream open.
StoredHookIsAnswered == \A p \in Publishers : publisher[p] # "panicked"
================================================================================
