------------------------------- MODULE SSEBroker -------------------------------
(***************************************************************************)
(* The in-process broker behind both event streams.  Stream handlers       *)
(* subscribe a buffered channel to a topic, read it and cancel when their  *)
(* client is gone; hook handlers publish.  Publish copies the channels of  *)
(* the topic under the lock and sends after it released it, so a channel   *)
(* can be closed between the two.                                          *)
(*                                                                         *)
(* A stream is its own channel (a client that comes back is a new stream), *)
(* and a publisher is the payload it sends, once.                          *)
(***************************************************************************)
EXTENDS Naturals, FiniteSets, Sequences, SequencesExt

CONSTANTS Streams,      \* stream handlers, each with its channel
          Publishers,   \* calls of Publish, each with its payload
          Topics,       \* inbox ids and monitoringLiveChannelKey
          BufferSize    \* capacity of a channel

ASSUME BufferAssumption == BufferSize \in Nat \ {0}

VARIABLES subscribers,  \* topic -> set of channels; only topics with an entry
          buffer,       \* channel -> payloads in it
          closed,       \* channel -> closed by its cancel
          stream,       \* stream handler -> "out", "reading", "leaving", "left"
          topic,        \* stream handler -> the topic it is for
          publisher,    \* publisher -> "idle", "sending", "sent", "panicked"
          channels,     \* publisher -> channels it copied and has still to send to
          received,     \* history: stream -> payloads its handler took, in order
          due,          \* history: stream -> payloads copied for it by Publish
          dropped,      \* history: stream -> payloads dropped on a full buffer
          sentBefore    \* history: <<p, q>>: p was sent before q was published

broker == <<subscribers, buffer, closed>>
reader == <<stream, topic, received>>
writer == <<publisher, channels, due, dropped, sentBefore>>
brokerVars == <<broker, reader, writer>>

StreamState == {"out", "reading", "leaving", "left"}
PublisherState == {"idle", "sending", "sent", "panicked"}

\* subscribers[t] as Go reads it: no entry is no channel.
Group(t) == IF t \in DOMAIN subscribers THEN subscribers[t] ELSE {}

--------------------------------------------------------------------------------

\* One critical section: the entry is made when it is missing.
Subscribe(s) ==
    /\ stream[s] = "out"
    /\ subscribers' = [t \in DOMAIN subscribers \cup {topic[s]} |->
                         IF t = topic[s] THEN Group(t) \cup {s} ELSE subscribers[t]]
    /\ stream' = [stream EXCEPT ![s] = "reading"]
    /\ UNCHANGED <<buffer, closed, topic, received, writer>>

\* The loop of the handler takes an event, whatever it does to write it.
Receive(s) ==
    /\ stream[s] = "reading"
    /\ buffer[s] # <<>>
    /\ received' = [received EXCEPT ![s] = Append(@, Head(buffer[s]))]
    /\ buffer' = [buffer EXCEPT ![s] = Tail(@)]
    /\ UNCHANGED <<subscribers, closed, stream, topic, writer>>

\* The request's context is done: the client left, or a write timed out.
Disconnect(s) ==
    /\ stream[s] = "reading"
    /\ stream' = [stream EXCEPT ![s] = "leaving"]
    /\ UNCHANGED <<broker, topic, received, writer>>

\* Mutant: the entry of an empty group stays.
CancelKeepsEntry(s) ==
    /\ stream[s] = "leaving"
    /\ subscribers' = [subscribers EXCEPT ![topic[s]] = @ \ {s}]
    /\ closed' = [closed EXCEPT ![s] = TRUE]
    /\ stream' = [stream EXCEPT ![s] = "left"]
    /\ UNCHANGED <<buffer, topic, received, writer>>

\* The deferred cancel, one critical section: out of the group, closed, and
\* the entry of a group that is empty is deleted.
Cancel(s) ==
    /\ stream[s] = "leaving"
    /\ LET left == Group(topic[s]) \ {s}
           kept == IF left = {} THEN DOMAIN subscribers \ {topic[s]}
                                ELSE DOMAIN subscribers
       IN  subscribers' = [t \in kept |-> IF t = topic[s] THEN left ELSE subscribers[t]]
    /\ closed' = [closed EXCEPT ![s] = TRUE]
    /\ stream' = [stream EXCEPT ![s] = "left"]
    /\ UNCHANGED <<buffer, topic, received, writer>>

\* Publish up to RUnlock: the channels of the topic are copied.
PublishTo(p, t) ==
    /\ publisher[p] = "idle"
    /\ channels' = [channels EXCEPT ![p] = Group(t)]
    /\ publisher' = [publisher EXCEPT ![p] = IF Group(t) = {} THEN "sent" ELSE "sending"]
    /\ due' = [s \in Streams |-> IF s \in Group(t) THEN due[s] \cup {p} ELSE due[s]]
    /\ sentBefore' = sentBefore \cup {<<q, p>> : q \in {r \in Publishers : publisher[r] = "sent"}}
    /\ UNCHANGED <<broker, reader, dropped>>

Publish(p) == \E t \in Topics : PublishTo(p, t)

\* Mutant: the loop returns after its first send.
AfterSendToReturns(p, s) ==
    /\ channels' = [channels EXCEPT ![p] = {}]
    /\ publisher' = [publisher EXCEPT ![p] = "sent"]

\* The end of the loop over the copied channels.
AfterSendTo(p, s) ==
    /\ channels' = [channels EXCEPT ![p] = @ \ {s}]
    /\ publisher' = [publisher EXCEPT ![p] = IF channels[p] = {s} THEN "sent" ELSE @]

\* Mutant: a queue without a bound in place of the buffered channel.
SendUnbounded(p, s) ==
    /\ publisher[p] = "sending"
    /\ s \in channels[p]
    /\ ~ closed[s]
    /\ buffer' = [buffer EXCEPT ![s] = Append(@, p)]
    /\ AfterSendTo(p, s)
    /\ UNCHANGED <<subscribers, closed, reader, due, dropped, sentBefore>>

\* Mutant: the call returns after its first send, the others go on in a
\* goroutine of their own.
SendInBackground(p, s) ==
    /\ s \in channels[p]
    /\ ~ closed[s]
    /\ IF Len(buffer[s]) < BufferSize
       THEN buffer' = [buffer EXCEPT ![s] = Append(@, p)] /\ UNCHANGED dropped
       ELSE dropped' = [dropped EXCEPT ![s] = @ \cup {p}] /\ UNCHANGED buffer
    /\ channels' = [channels EXCEPT ![p] = @ \ {s}]
    /\ publisher' = [publisher EXCEPT ![p] = "sent"]
    /\ UNCHANGED <<subscribers, closed, reader, due, sentBefore>>

\* Mutant: no default branch, the send waits for room.
SendBlocks(p, s) ==
    /\ publisher[p] = "sending"
    /\ s \in channels[p]
    /\ ~ closed[s]
    /\ Len(buffer[s]) < BufferSize
    /\ buffer' = [buffer EXCEPT ![s] = Append(@, p)]
    /\ AfterSendTo(p, s)
    /\ UNCHANGED <<subscribers, closed, reader, due, dropped, sentBefore>>

\* Mutant: a full buffer makes room by giving up its oldest payload.
SendDropsOldest(p, s) ==
    /\ publisher[p] = "sending"
    /\ s \in channels[p]
    /\ ~ closed[s]
    /\ buffer' = [buffer EXCEPT ![s] = Append(IF Len(@) < BufferSize THEN @ ELSE Tail(@), p)]
    /\ AfterSendTo(p, s)
    /\ UNCHANGED <<subscribers, closed, reader, due, dropped, sentBefore>>

\* One turn of the loop, for a channel that is open: the payload is
\* buffered, or dropped when the buffer is full.
Send(p, s) ==
    /\ publisher[p] = "sending"
    /\ s \in channels[p]
    /\ ~ closed[s]
    /\ IF Len(buffer[s]) < BufferSize
       THEN buffer' = [buffer EXCEPT ![s] = Append(@, p)] /\ UNCHANGED dropped
       ELSE dropped' = [dropped EXCEPT ![s] = @ \cup {p}] /\ UNCHANGED buffer
    /\ AfterSendTo(p, s)
    /\ UNCHANGED <<subscribers, closed, reader, due, sentBefore>>

\* A send on a channel that was closed since it was copied panics, and the
\* rest of the channels get nothing.
SendOnClosed(p, s) ==
    /\ publisher[p] = "sending"
    /\ s \in channels[p]
    /\ closed[s]
    /\ publisher' = [publisher EXCEPT ![p] = "panicked"]
    /\ UNCHANGED <<broker, reader, channels, due, dropped, sentBefore>>

SendStep(p) == \E s \in Streams : Send(p, s) \/ SendOnClosed(p, s)

--------------------------------------------------------------------------------

BrokerInit ==
    /\ subscribers = [t \in {} |-> {}]
    /\ buffer = [s \in Streams |-> <<>>]
    /\ closed = [s \in Streams |-> FALSE]
    /\ stream = [s \in Streams |-> "out"]
    /\ topic \in [Streams -> Topics]
    /\ publisher = [p \in Publishers |-> "idle"]
    /\ channels = [p \in Publishers |-> {}]
    /\ received = [s \in Streams |-> <<>>]
    /\ due = [s \in Streams |-> {}]
    /\ dropped = [s \in Streams |-> {}]
    /\ sentBefore = {}

BrokerNext ==
    \/ \E s \in Streams : Subscribe(s) \/ Receive(s) \/ Disconnect(s) \/ Cancel(s)
    \/ \E p \in Publishers : Publish(p) \/ SendStep(p)

BrokerSpec == BrokerInit /\ [][BrokerNext]_brokerVars

--------------------------------------------------------------------------------

BrokerTypeOK ==
    /\ DOMAIN subscribers \subseteq Topics
    /\ \A t \in DOMAIN subscribers : subscribers[t] \subseteq Streams
    /\ \A s \in Streams : Len(buffer[s]) <= BufferSize /\ Range(buffer[s]) \subseteq Publishers
    /\ closed \in [Streams -> BOOLEAN]
    /\ stream \in [Streams -> StreamState]
    /\ topic \in [Streams -> Topics]
    /\ publisher \in [Publishers -> PublisherState]
    /\ channels \in [Publishers -> SUBSET Streams]
    /\ \A s \in Streams : Range(received[s]) \subseteq Publishers
    /\ due \in [Streams -> SUBSET Publishers]
    /\ dropped \in [Streams -> SUBSET Publishers]
    /\ sentBefore \subseteq Publishers \X Publishers

\* The map holds exactly the streams that read or are about to cancel, under
\* their own topic, and no topic without a stream: nothing is left behind by
\* streams that came and went, in whatever order.
GroupsAreTheReaders ==
    /\ \A t \in DOMAIN subscribers : subscribers[t] # {}
    /\ \A s \in Streams, t \in Topics :
          s \in Group(t) <=> stream[s] \in {"reading", "leaving"} /\ topic[s] = t

\* What a stream has in hand, in the order it gets it.
InHand(s) == received[s] \o buffer[s]

\* An event published while a stream was subscribed is in its hands once, or
\* still to be sent, or was dropped on a full buffer, or died with the panic
\* of its publisher: there is no other way to lose or to double one.
EachEventOnce ==
    \A s \in Streams :
       /\ IsInjective(InHand(s))
       /\ Range(InHand(s)) \cap dropped[s] = {}
       /\ \A p \in due[s] :
             \/ p \in Range(InHand(s)) \cup dropped[s]
             \/ s \in channels[p] /\ publisher[p] \in {"sending", "panicked"}

\* A stream hears of two events in the order they were published in, if one
\* Publish had returned before the other was called.
OrderKept ==
    \A s \in Streams : \A i, j \in 1 .. Len(InHand(s)) :
       i < j => <<InHand(s)[j], InHand(s)[i]>> \notin sentBefore

\* A publisher never waits for a reader: its call ends even if no stream
\* ever reads again.
PublishEnds == \A p \in Publishers : publisher[p] = "sending" ~> publisher[p] # "sending"
================================================================================
