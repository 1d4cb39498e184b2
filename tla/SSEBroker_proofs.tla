--------------------------- MODULE SSEBroker_proofs ---------------------------
(***************************************************************************)
(* Proofs about the broker, the inbox streams and the monitoring streams   *)
(* over it.  A stream step is a broker step or changes nothing of the      *)
(* broker, so what is proved of the broker holds of the streams.           *)
(***************************************************************************)
EXTENDS InboxStream, MonitoringStream, FiniteSetTheorems, TLAPS

\* What the proof needs to know of the types.
GroupTypes ==
    /\ DOMAIN subscribers \subseteq Topics
    /\ subscribers = [t \in DOMAIN subscribers |-> subscribers[t]]
    /\ \A t \in DOMAIN subscribers : subscribers[t] \subseteq Streams
    /\ stream \in [Streams -> StreamState]
    /\ topic \in [Streams -> Topics]

\* A stream's channel is closed exactly once it has left: the cancel that
\* takes it out of its group is the only one to close it.
ClosedIsLeft == closed = [s \in Streams |-> stream[s] = "left"]

GInv == GroupTypes /\ GroupsAreTheReaders /\ ClosedIsLeft

\* Before the first stream.
LEMMA GroupInit == BrokerInit => GInv
BY DEF BrokerInit, GInv, GroupTypes, GroupsAreTheReaders, ClosedIsLeft, Group, StreamState

\* A step that leaves the map, the channels' ends and the streams alone.
LEMMA GroupStutter ==
    ASSUME GInv, UNCHANGED <<subscribers, closed, stream, topic>>
    PROVE  GInv'
BY DEF GInv, GroupTypes, GroupsAreTheReaders, ClosedIsLeft, Group

\* Subscribe adds the stream to its topic and to no other.
LEMMA SubscribeKeeps == ASSUME GInv, NEW s \in Streams, Subscribe(s) PROVE GInv'
<1>1. /\ subscribers' = [t \in DOMAIN subscribers \cup {topic[s]} |->
                           IF t = topic[s] THEN Group(t) \cup {s} ELSE subscribers[t]]
      /\ stream' = [stream EXCEPT ![s] = "reading"]
      /\ stream[s] = "out"
      /\ UNCHANGED <<closed, topic>>
  BY DEF Subscribe
<1>2. topic[s] \in Topics
  BY DEF GInv, GroupTypes
<1>3. GroupTypes'
  BY <1>1, <1>2 DEF GInv, GroupTypes, Group, StreamState
<1>4. \A t \in Topics : Group(t)' = IF t = topic[s] THEN Group(t) \cup {s} ELSE Group(t)
  BY <1>1 DEF Group
<1>5. GroupsAreTheReaders'
  <2>1. \A t \in DOMAIN subscribers' : subscribers'[t] # {}
    BY <1>1 DEF GInv, GroupsAreTheReaders
  <2>2. ASSUME NEW r \in Streams, NEW t \in Topics
        PROVE  r \in Group(t)' <=> stream'[r] \in {"reading", "leaving"} /\ topic'[r] = t
    BY <1>1, <1>4 DEF GInv, GroupTypes, GroupsAreTheReaders
  <2>3. QED
    BY <2>1, <2>2 DEF GroupsAreTheReaders
<1>6. ClosedIsLeft'
  BY <1>1 DEF GInv, GroupTypes, ClosedIsLeft
<1>7. QED
  BY <1>3, <1>5, <1>6 DEF GInv

\* A hang-up leaves the map as it is.
LEMMA DisconnectKeeps == ASSUME GInv, NEW s \in Streams, Disconnect(s) PROVE GInv'
<1>1. /\ stream[s] = "reading"
      /\ stream' = [stream EXCEPT ![s] = "leaving"]
      /\ UNCHANGED <<subscribers, closed, topic>>
  BY DEF Disconnect, broker
<1>2. GroupTypes' /\ ClosedIsLeft'
  BY <1>1 DEF GInv, GroupTypes, ClosedIsLeft, StreamState
<1>3. GroupsAreTheReaders'
  BY <1>1 DEF GInv, GroupTypes, GroupsAreTheReaders, Group
<1>4. QED
  BY <1>2, <1>3 DEF GInv

\* Cancel removes the stream, and the topic with its last one.
LEMMA CancelKeeps == ASSUME GInv, NEW s \in Streams, Cancel(s) PROVE GInv'
<1> DEFINE left == Group(topic[s]) \ {s}
           kept == IF left = {} THEN DOMAIN subscribers \ {topic[s]} ELSE DOMAIN subscribers
<1>1. /\ stream[s] = "leaving"
      /\ subscribers' = [t \in kept |-> IF t = topic[s] THEN left ELSE subscribers[t]]
      /\ closed' = [closed EXCEPT ![s] = TRUE]
      /\ stream' = [stream EXCEPT ![s] = "left"]
      /\ UNCHANGED topic
  BY DEF Cancel
<1>2. topic[s] \in Topics /\ kept \subseteq DOMAIN subscribers
  BY DEF GInv, GroupTypes
<1>3. GroupTypes'
  BY <1>1, <1>2 DEF GInv, GroupTypes, Group, StreamState
<1>4. \A t \in Topics : Group(t)' = IF t = topic[s] THEN left ELSE Group(t)
  BY <1>1 DEF Group
<1>5. GroupsAreTheReaders'
  <2>1. \A t \in DOMAIN subscribers' : subscribers'[t] # {}
    BY <1>1 DEF GInv, GroupsAreTheReaders
  <2>2. ASSUME NEW r \in Streams, NEW t \in Topics
        PROVE  r \in Group(t)' <=> stream'[r] \in {"reading", "leaving"} /\ topic'[r] = t
    BY <1>1, <1>4 DEF GInv, GroupTypes, GroupsAreTheReaders
  <2>3. QED
    BY <2>1, <2>2 DEF GroupsAreTheReaders
<1>6. ClosedIsLeft'
  BY <1>1 DEF GInv, GroupTypes, ClosedIsLeft
<1>7. QED
  BY <1>3, <1>5, <1>6 DEF GInv

\* In the broker by itself the map holds the streams that read or are about
\* to cancel, for any number of streams, topics and publishers.
THEOREM BrokerGroups == BrokerSpec => []GInv
<1>1. GInv /\ [BrokerNext]_brokerVars => GInv'
  <2> SUFFICES ASSUME GInv, [BrokerNext]_brokerVars PROVE GInv'
    OBVIOUS
  <2>1. ASSUME NEW s \in Streams, Subscribe(s) \/ Receive(s) \/ Disconnect(s) \/ Cancel(s)
        PROVE  GInv'
    <3>1. CASE Receive(s)
      BY <3>1, GroupStutter DEF Receive
    <3>2. QED
      BY <2>1, <3>1, SubscribeKeeps, DisconnectKeeps, CancelKeeps
  <2>2. ASSUME NEW p \in Publishers, Publish(p) \/ SendStep(p)
        PROVE  GInv'
    <3>1. UNCHANGED <<subscribers, closed, stream, topic>>
      BY <2>2 DEF Publish, PublishTo, SendStep, Send, SendOnClosed, broker, reader
    <3>2. QED
      BY <3>1, GroupStutter
  <2>3. CASE UNCHANGED brokerVars
    BY <2>3, GroupStutter DEF brokerVars, broker, reader
  <2>4. QED
    BY <2>1, <2>2, <2>3 DEF BrokerNext
<1>2. QED
  BY GroupInit, <1>1, PTL DEF BrokerSpec

\* The inbox streams use the broker as it is meant to be used: every step of
\* theirs is a step of the broker or leaves it alone.
THEOREM StreamsUseTheBroker == StreamSpec => BrokerSpec
<1>1. StreamInit => BrokerInit
  BY DEF StreamInit
<1>2. [StreamNext]_streamVars => [BrokerNext]_brokerVars
  <2> SUFFICES ASSUME [StreamNext]_streamVars PROVE BrokerNext \/ UNCHANGED brokerVars
    OBVIOUS
  <2>1. ASSUME NEW s \in Streams,
               HandlerStep(s) \/ TakeEvent(s) \/ Hangup(s) \/ NoticeDone(s)
        PROVE  BrokerNext \/ UNCHANGED brokerVars
    BY <2>1 DEF HandlerStep, Connect, Refuse, StartLoop, LeaveLoop, TakeEvent, Hangup,
                NoticeDone, BrokerNext
  <2>2. ASSUME NEW p \in Publishers, PublishCaptured(p) \/ SendCaptured(p)
        PROVE  BrokerNext \/ UNCHANGED brokerVars
    BY <2>2 DEF PublishCaptured, SendCaptured, Publish, BrokerNext
  <2>3. CASE UNCHANGED streamVars
    BY <2>3 DEF streamVars
  <2>4. QED
    BY <2>1, <2>2, <2>3 DEF StreamNext
<1>3. QED
  BY <1>1, <1>2, PTL DEF StreamSpec, BrokerSpec

\* Under the streams of inboxes, whatever their clients do, the broker's map
\* has exactly the streams that read or are about to cancel.
THEOREM GroupsAreTheReadersHolds == StreamSpec => []GroupsAreTheReaders
<1>1. GInv => GroupsAreTheReaders
  BY DEF GInv
<1>2. QED
  BY BrokerGroups, StreamsUseTheBroker, <1>1, PTL

--------------------------------------------------------------------------------
\* What a stream has in hand only grows at its end, by an event that is on its
\* way and in hand of no one yet.

EventTypes ==
    /\ buffer \in [Streams -> Seq(Publishers)]
    /\ received \in [Streams -> Seq(Publishers)]
    /\ channels \in [Publishers -> SUBSET Streams]
    /\ publisher \in [Publishers -> PublisherState]
    /\ due \in [Streams -> SUBSET Publishers]
    /\ dropped \in [Streams -> SUBSET Publishers]
    /\ sentBefore \subseteq Publishers \X Publishers

Had(s) == Range(InHand(s)) \cup dropped[s]

\* An event that is not published yet is nowhere.
IdleIsNowhere ==
    \A p \in Publishers : publisher[p] = "idle" =>
       \A s \in Streams : p \notin due[s] /\ p \notin Had(s)

\* An event still to be sent to a stream has not got to it.
PendingIsNotHad == \A p \in Publishers : \A s \in channels[p] : p \notin Had(s)

SentIsOver ==
    /\ \A p \in Publishers : publisher[p] = "sent" => channels[p] = {}
    /\ \A e \in sentBefore : publisher[e[1]] = "sent"

EInv ==
    /\ EventTypes
    /\ IdleIsNowhere
    /\ PendingIsNotHad
    /\ SentIsOver
    /\ EachEventOnce
    /\ OrderKept

\* What a stream has had and has before it is a sequence of events.
LEMMA HandType == ASSUME EventTypes, NEW s \in Streams PROVE InHand(s) \in Seq(Publishers)
BY DEF EventTypes, InHand

\* Before the first event.
LEMMA EventInit == BrokerInit => EInv
<1> SUFFICES ASSUME BrokerInit PROVE EInv
  OBVIOUS
<1>1. EventTypes
  BY DEF BrokerInit, EventTypes, PublisherState
<1>2. ASSUME NEW s \in Streams PROVE InHand(s) = <<>> /\ Range(InHand(s)) = {}
  BY DEF BrokerInit, InHand, Range
<1>3. IdleIsNowhere /\ PendingIsNotHad /\ SentIsOver
  BY <1>2 DEF BrokerInit, IdleIsNowhere, PendingIsNotHad, SentIsOver, Had
<1>4. EachEventOnce /\ OrderKept
  BY <1>2 DEF BrokerInit, EachEventOnce, OrderKept, IsInjective
<1>5. QED
  BY <1>1, <1>3, <1>4 DEF EInv

\* Taking the next event from the buffer leaves what is in hand as it was.
LEMMA Shift ==
    ASSUME NEW S, NEW a \in Seq(S), NEW b \in Seq(S), b # <<>>
    PROVE  Append(a, Head(b)) \o Tail(b) = a \o b
<1> DEFINE c == Append(a, Head(b)) \o Tail(b)
           d == a \o b
<1>1. /\ c \in Seq(S) /\ d \in Seq(S)
      /\ Len(c) = Len(a) + Len(b) /\ Len(d) = Len(a) + Len(b)
  OBVIOUS
<1>2. ASSUME NEW i \in 1 .. Len(a) + Len(b) PROVE c[i] = d[i]
  <2>1. CASE i <= Len(a)
    BY <2>1
  <2>2. CASE i = Len(a) + 1
    BY <2>2
  <2>3. CASE i > Len(a) + 1
    BY <2>3
  <2>4. QED
    BY <2>1, <2>2, <2>3
<1>3. QED
  BY <1>1, <1>2

\* A step that keeps every hand and what is said of the events.
LEMMA SameHands ==
    ASSUME EInv, EventTypes', \A s \in Streams : InHand(s)' = InHand(s),
           UNCHANGED <<publisher, channels, due, dropped, sentBefore>>
    PROVE  EInv'
<1>1. \A s \in Streams : Had(s)' = Had(s)
  BY DEF Had
<1>2. IdleIsNowhere' /\ PendingIsNotHad'
  BY <1>1 DEF EInv, EventTypes, IdleIsNowhere, PendingIsNotHad
<1>3. SentIsOver'
  BY DEF EInv, SentIsOver
<1>4. EachEventOnce'
  BY DEF EInv, EachEventOnce
<1>5. OrderKept'
  BY DEF EInv, OrderKept
<1>6. QED
  BY <1>2, <1>3, <1>4, <1>5 DEF EInv

\* A read moves an event from the channel to the client.
LEMMA ReceiveKeeps == ASSUME EInv, NEW s \in Streams, Receive(s) PROVE EInv'
<1>1. /\ buffer[s] \in Seq(Publishers) /\ buffer[s] # <<>>
      /\ received[s] \in Seq(Publishers)
      /\ received' = [received EXCEPT ![s] = Append(@, Head(buffer[s]))]
      /\ buffer' = [buffer EXCEPT ![s] = Tail(@)]
      /\ UNCHANGED <<publisher, channels, due, dropped, sentBefore>>
  BY DEF EInv, EventTypes, Receive, writer
<1>2. EventTypes'
  BY <1>1 DEF EInv, EventTypes
<1>3. Append(received[s], Head(buffer[s])) \o Tail(buffer[s]) = received[s] \o buffer[s]
  BY <1>1, Shift
<1>4. \A r \in Streams : InHand(r)' = InHand(r)
  BY <1>1, <1>3 DEF EInv, EventTypes, InHand
<1>5. QED
  BY <1>1, <1>2, <1>4, SameHands

\* Publish copies the streams there are, and sends nothing yet.
LEMMA PublishKeeps == ASSUME GInv, EInv, NEW p \in Publishers, Publish(p) PROVE EInv'
<1> PICK t \in Topics : PublishTo(p, t)
  BY DEF Publish
<1> DEFINE sentNow == {r \in Publishers : publisher[r] = "sent"}
<1>1. /\ publisher[p] = "idle"
      /\ channels' = [channels EXCEPT ![p] = Group(t)]
      /\ publisher' = [publisher EXCEPT ![p] = IF Group(t) = {} THEN "sent" ELSE "sending"]
      /\ due' = [s \in Streams |-> IF s \in Group(t) THEN due[s] \cup {p} ELSE due[s]]
      /\ sentBefore' = sentBefore \cup {<<q, p>> : q \in sentNow}
      /\ UNCHANGED <<buffer, received, dropped>>
  BY DEF PublishTo, broker, reader
<1>2. Group(t) \subseteq Streams
  BY DEF GInv, GroupTypes, Group
<1>3. EventTypes'
  BY <1>1, <1>2 DEF EInv, EventTypes, PublisherState
<1>4. \A s \in Streams : InHand(s)' = InHand(s) /\ Had(s)' = Had(s) /\ p \notin Had(s)
  BY <1>1 DEF InHand, Had, EInv, IdleIsNowhere
<1>5. IdleIsNowhere' /\ PendingIsNotHad'
  BY <1>1, <1>2, <1>4 DEF EInv, EventTypes, IdleIsNowhere, PendingIsNotHad
<1>6. SentIsOver'
  BY <1>1 DEF EInv, EventTypes, SentIsOver
<1>7. EachEventOnce'
  BY <1>1, <1>2, <1>4 DEF EInv, EventTypes, EachEventOnce
<1>8. OrderKept'
  <2> SUFFICES ASSUME NEW s \in Streams, NEW i \in 1 .. Len(InHand(s)),
                      NEW j \in 1 .. Len(InHand(s)), i < j
               PROVE  <<InHand(s)[j], InHand(s)[i]>> \notin sentBefore'
    BY <1>4 DEF OrderKept
  <2>1. InHand(s)[i] \in Range(InHand(s))
    BY HandType DEF EInv, Range
  <2>2. InHand(s)[i] # p
    BY <2>1, <1>4 DEF Had
  <2>3. <<InHand(s)[j], InHand(s)[i]>> \notin sentBefore
    BY DEF EInv, OrderKept
  <2>4. QED
    BY <2>2, <2>3, <1>1
<1>9. QED
  BY <1>3, <1>5, <1>6, <1>7, <1>8 DEF EInv

\* Appended to the second of two sequences in a row, an event is their last.
LEMMA AppendToEnd ==
    ASSUME NEW S, NEW a \in Seq(S), NEW b \in Seq(S), NEW x \in S
    PROVE  a \o Append(b, x) = Append(a \o b, x)
<1> DEFINE c == a \o Append(b, x)
           d == Append(a \o b, x)
<1>1. /\ c \in Seq(S) /\ d \in Seq(S)
      /\ Len(c) = Len(a) + Len(b) + 1 /\ Len(d) = Len(a) + Len(b) + 1
  OBVIOUS
<1>2. ASSUME NEW i \in 1 .. Len(a) + Len(b) + 1 PROVE c[i] = d[i]
  <2>1. CASE i <= Len(a)
    BY <2>1
  <2>2. CASE i > Len(a) /\ i <= Len(a) + Len(b)
    BY <2>2
  <2>3. CASE i = Len(a) + Len(b) + 1
    BY <2>3
  <2>4. QED
    BY <2>1, <2>2, <2>3
<1>3. QED
  BY <1>1, <1>2

\* A new element at the end of a sequence without repetitions.
LEMMA AppendNew ==
    ASSUME NEW S, NEW h \in Seq(S), NEW x \in S, x \notin Range(h)
    PROVE  /\ Range(Append(h, x)) = Range(h) \cup {x}
           /\ IsInjective(h) => IsInjective(Append(h, x))
<1>1. /\ DOMAIN Append(h, x) = 1 .. Len(h) + 1 /\ DOMAIN h = 1 .. Len(h)
      /\ Len(h) \in Nat
      /\ Append(h, x)[Len(h) + 1] = x
      /\ \A i \in 1 .. Len(h) : Append(h, x)[i] = h[i]
  OBVIOUS
<1>2. \A i \in 1 .. Len(h) : h[i] # x
  BY <1>1 DEF Range
<1>3. \A i \in 1 .. Len(h) + 1 : i \in 1 .. Len(h) \/ i = Len(h) + 1
  BY <1>1
<1>4. Range(Append(h, x)) = Range(h) \cup {x}
  <2>1. Range(Append(h, x)) \subseteq Range(h) \cup {x}
    BY <1>1, <1>3 DEF Range
  <2>2. Range(h) \cup {x} \subseteq Range(Append(h, x))
    <3>1. 1 .. Len(h) \subseteq 1 .. Len(h) + 1 /\ Len(h) + 1 \in 1 .. Len(h) + 1
      BY <1>1
    <3>2. QED
      BY <1>1, <3>1 DEF Range
  <2>3. QED
    BY <2>1, <2>2
<1>5. ASSUME IsInjective(h) PROVE IsInjective(Append(h, x))
  BY <1>1, <1>2, <1>3, <1>5 DEF IsInjective
<1>6. QED
  BY <1>4, <1>5

\* The turns of Publish: the event goes to the end of the channel or is
\* dropped, and is neither in hand nor dropped before.
LEMMA SendKeeps ==
    ASSUME EInv, NEW p \in Publishers, NEW s \in Streams, Send(p, s)
    PROVE  EInv'
<1>1. /\ publisher[p] = "sending" /\ s \in channels[p]
      /\ channels' = [channels EXCEPT ![p] = @ \ {s}]
      /\ publisher' = [publisher EXCEPT ![p] = IF channels[p] = {s} THEN "sent" ELSE @]
      /\ UNCHANGED <<received, due, sentBefore>>
  BY DEF Send, AfterSendTo, reader
<1>2. p \notin Had(s) /\ EventTypes
  BY <1>1 DEF EInv, PendingIsNotHad
<1>3. \/ /\ buffer' = [buffer EXCEPT ![s] = Append(@, p)]
         /\ dropped' = dropped
      \/ /\ dropped' = [dropped EXCEPT ![s] = @ \cup {p}]
         /\ buffer' = buffer
  BY DEF Send
<1>4. EventTypes'
  <2>1. buffer' \in [Streams -> Seq(Publishers)] /\ dropped' \in [Streams -> SUBSET Publishers]
    <3>1. /\ buffer \in [Streams -> Seq(Publishers)]
          /\ dropped \in [Streams -> SUBSET Publishers]
      BY <1>2 DEF EventTypes
    <3>2. /\ Append(buffer[s], p) \in Seq(Publishers)
          /\ dropped[s] \cup {p} \in SUBSET Publishers
      BY <3>1
    <3>3. QED
      BY <1>3, <3>1, <3>2
  <2>2. publisher' \in [Publishers -> PublisherState]
    BY <1>1, <1>2 DEF EventTypes, PublisherState
  <2>3. channels' \in [Publishers -> SUBSET Streams]
    BY <1>1, <1>2 DEF EventTypes
  <2>4. QED
    BY <1>1, <1>2, <2>1, <2>2, <2>3 DEF EventTypes
<1>5. SentIsOver'
  BY <1>1, <1>2 DEF EInv, EventTypes, SentIsOver
<1>6. \A r \in Streams : r # s => InHand(r)' = InHand(r) /\ dropped'[r] = dropped[r]
  BY <1>1, <1>2, <1>3 DEF InHand, EventTypes
<1>7. \/ InHand(s)' = Append(InHand(s), p) /\ dropped'[s] = dropped[s]
      \/ InHand(s)' = InHand(s) /\ dropped'[s] = dropped[s] \cup {p}
  <2>1. CASE /\ buffer' = [buffer EXCEPT ![s] = Append(@, p)]
             /\ dropped' = dropped
    BY <1>1, <1>2, <2>1, AppendToEnd DEF InHand, EventTypes
  <2>2. CASE /\ dropped' = [dropped EXCEPT ![s] = @ \cup {p}]
             /\ buffer' = buffer
    BY <1>1, <1>2, <2>2 DEF InHand, EventTypes
  <2>3. QED
    BY <1>3, <2>1, <2>2
<1>8. InHand(s) \in Seq(Publishers) /\ p \notin Range(InHand(s)) /\ p \notin dropped[s]
  BY <1>2, HandType DEF Had
<1>9. /\ Range(Append(InHand(s), p)) = Range(InHand(s)) \cup {p}
      /\ IsInjective(InHand(s)) => IsInjective(Append(InHand(s), p))
  BY <1>8, AppendNew
<1>10. Had(s)' = Had(s) \cup {p} /\ \A r \in Streams : r # s => Had(r)' = Had(r)
  BY <1>6, <1>7, <1>9 DEF Had
<1>11. IdleIsNowhere' /\ PendingIsNotHad'
  <2>1. \A q \in Publishers : publisher'[q] = "idle" => publisher[q] = "idle" /\ q # p
    BY <1>1, <1>2 DEF EventTypes
  <2>2. IdleIsNowhere'
    BY <1>1, <1>10, <2>1 DEF EInv, IdleIsNowhere
  <2>3. ASSUME NEW q \in Publishers, NEW r \in channels'[q] PROVE q \notin Had(r)'
    <3>1. r \in channels[q] /\ r \in Streams /\ (q = p => r # s)
      BY <1>1, <1>2, <2>3 DEF EventTypes
    <3>2. QED
      BY <3>1, <1>10 DEF EInv, PendingIsNotHad
  <2>4. QED
    BY <2>2, <2>3 DEF PendingIsNotHad
<1>12. EachEventOnce'
  <2> SUFFICES ASSUME NEW r \in Streams
               PROVE  /\ IsInjective(InHand(r)')
                      /\ Range(InHand(r)') \cap dropped'[r] = {}
                      /\ \A q \in due'[r] :
                            \/ q \in Range(InHand(r)') \cup dropped'[r]
                            \/ r \in channels'[q] /\ publisher'[q] \in {"sending", "panicked"}
    BY DEF EachEventOnce
  <2>1. IsInjective(InHand(r)') /\ Range(InHand(r)') \cap dropped'[r] = {}
    <3>1. \A x \in Streams : IsInjective(InHand(x)) /\ Range(InHand(x)) \cap dropped[x] = {}
      BY DEF EInv, EachEventOnce
    <3>2. CASE r # s
      BY <3>1, <3>2, <1>6
    <3>3. CASE r = s /\ InHand(s)' = Append(InHand(s), p) /\ dropped'[s] = dropped[s]
      <4>1. IsInjective(InHand(r)')
        BY <3>1, <3>3, <1>9
      <4>2. Range(InHand(r)') = Range(InHand(s)) \cup {p} /\ dropped'[r] = dropped[s]
        BY <3>3, <1>9
      <4>3. QED
        BY <3>1, <4>1, <4>2, <1>8
    <3>4. CASE r = s /\ InHand(s)' = InHand(s) /\ dropped'[s] = dropped[s] \cup {p}
      BY <3>1, <3>4, <1>8
    <3>5. QED
      BY <3>2, <3>3, <3>4, <1>7
  <2>2. ASSUME NEW q \in due'[r]
        PROVE  \/ q \in Had(r)'
               \/ r \in channels'[q] /\ publisher'[q] \in {"sending", "panicked"}
    <3>1. /\ q \in Publishers /\ q \in due[r]
          /\ \/ q \in Had(r)
             \/ r \in channels[q] /\ publisher[q] \in {"sending", "panicked"}
      BY <1>1, <1>2, <2>2 DEF EInv, EventTypes, EachEventOnce, Had
    <3>2. CASE q \in Had(r)
      BY <3>2, <1>10
    <3>3. CASE q = p /\ r = s
      BY <3>3, <1>10
    <3>4. CASE (q # p \/ r # s) /\ r \in channels[q] /\ publisher[q] \in {"sending", "panicked"}
      BY <3>1, <3>4, <1>1, <1>2 DEF EventTypes
    <3>5. QED
      BY <3>1, <3>2, <3>3, <3>4
  <2>3. QED
    BY <2>1, <2>2 DEF Had
<1>13. OrderKept'
  <2> SUFFICES ASSUME NEW r \in Streams, NEW i \in 1 .. Len(InHand(r)'),
                      NEW j \in 1 .. Len(InHand(r)'), i < j
               PROVE  <<InHand(r)'[j], InHand(r)'[i]>> \notin sentBefore
    BY <1>1 DEF OrderKept
  <2>1. CASE InHand(r)' = InHand(r)
    BY <2>1 DEF EInv, OrderKept
  <2>2. CASE r = s /\ InHand(s)' = Append(InHand(s), p)
    <3>1. Len(InHand(s)') = Len(InHand(s)) + 1 /\ Len(InHand(s)) \in Nat
      BY <2>2, <1>8
    <3>2. CASE j = Len(InHand(s)) + 1
      <4>1. InHand(s)'[j] = p
        BY <2>2, <3>2, <1>8
      <4>2. \A x : <<p, x>> \notin sentBefore
        BY <1>1 DEF EInv, SentIsOver
      <4>3. QED
        BY <2>2, <4>1, <4>2
    <3>3. CASE j # Len(InHand(s)) + 1
      <4>1. i \in 1 .. Len(InHand(s)) /\ j \in 1 .. Len(InHand(s))
        BY <2>2, <3>1, <3>3
      <4>2. InHand(s)'[i] = InHand(s)[i] /\ InHand(s)'[j] = InHand(s)[j]
        BY <2>2, <4>1, <1>8
      <4>3. QED
        BY <2>2, <4>1, <4>2 DEF EInv, OrderKept
    <3>4. QED
      BY <3>2, <3>3
  <2>3. QED
    BY <2>1, <2>2, <1>6, <1>7
<1>14. QED
  BY <1>4, <1>5, <1>11, <1>12, <1>13 DEF EInv

\* A send on a closed channel ends the publisher and hands out nothing.
LEMMA SendOnClosedKeeps ==
    ASSUME EInv, NEW p \in Publishers, NEW s \in Streams, SendOnClosed(p, s)
    PROVE  EInv'
<1>1. /\ publisher[p] = "sending"
      /\ publisher' = [publisher EXCEPT ![p] = "panicked"]
      /\ UNCHANGED <<buffer, received, channels, due, dropped, sentBefore>>
  BY DEF SendOnClosed, broker, reader
<1>2. EventTypes'
  BY <1>1 DEF EInv, EventTypes, PublisherState
<1>3. \A r \in Streams : InHand(r)' = InHand(r) /\ Had(r)' = Had(r)
  BY <1>1 DEF InHand, Had
<1>4. IdleIsNowhere' /\ PendingIsNotHad'
  BY <1>1, <1>3 DEF EInv, EventTypes, IdleIsNowhere, PendingIsNotHad
<1>5. SentIsOver'
  BY <1>1 DEF EInv, EventTypes, SentIsOver
<1>6. EachEventOnce'
  BY <1>1, <1>3 DEF EInv, EventTypes, EachEventOnce
<1>7. OrderKept'
  BY <1>1, <1>3 DEF EInv, OrderKept
<1>8. QED
  BY <1>2, <1>4, <1>5, <1>6, <1>7 DEF EInv

\* Every event the broker publishes is in hand of a subscribed stream once,
\* in order, or accounted for.
THEOREM BrokerEvents == BrokerSpec => []EInv
<1>1. GInv /\ EInv /\ [BrokerNext]_brokerVars => EInv'
  <2> SUFFICES ASSUME GInv, EInv, [BrokerNext]_brokerVars PROVE EInv'
    OBVIOUS
  <2>1. ASSUME UNCHANGED <<buffer, received, publisher, channels, due, dropped, sentBefore>>
        PROVE  EInv'
    <3>1. EventTypes'
      BY <2>1 DEF EInv, EventTypes
    <3>2. \A s \in Streams : InHand(s)' = InHand(s)
      BY <2>1 DEF InHand
    <3>3. QED
      BY <2>1, <3>1, <3>2, SameHands
  <2>2. ASSUME NEW s \in Streams, Subscribe(s) \/ Disconnect(s) \/ Cancel(s)
        PROVE  EInv'
    BY <2>1, <2>2 DEF Subscribe, Disconnect, Cancel, broker, writer
  <2>3. CASE UNCHANGED brokerVars
    BY <2>1, <2>3 DEF brokerVars, broker, reader, writer
  <2>4. QED
    BY <2>2, <2>3, ReceiveKeeps, PublishKeeps, SendKeeps, SendOnClosedKeeps
       DEF BrokerNext, SendStep
<1>2. QED
  BY EventInit, BrokerGroups, <1>1, PTL DEF BrokerSpec

\* No event published while a stream of an inbox was subscribed is doubled,
\* and none is lost but on a full channel or with its publisher.
THEOREM EachEventOnceHolds == StreamSpec => []EachEventOnce
<1>1. EInv => EachEventOnce
  BY DEF EInv
<1>2. QED
  BY BrokerEvents, StreamsUseTheBroker, <1>1, PTL

\* Streams of an inbox hear of hooks in the order these were published in.
THEOREM OrderKeptHolds == StreamSpec => []OrderKept
<1>1. EInv => OrderKept
  BY DEF EInv
<1>2. QED
  BY BrokerEvents, StreamsUseTheBroker, <1>1, PTL

--------------------------------------------------------------------------------
\* The types of the broker and the bound of its channels.

Bounded == \A s \in Streams : Len(buffer[s]) <= BufferSize

\* No step of the broker fills a channel beyond its capacity.
LEMMA BoundedKept ==
    ASSUME EventTypes, Bounded, [BrokerNext]_brokerVars PROVE Bounded'
<1> USE DEF EventTypes, Bounded
<1>1. CASE UNCHANGED buffer
  BY <1>1
<1>2. ASSUME NEW s \in Streams, Receive(s) PROVE Bounded'
  <2>1. /\ buffer' = [buffer EXCEPT ![s] = Tail(@)] /\ buffer[s] \in Seq(Publishers)
        /\ buffer[s] # <<>>
    BY <1>2 DEF Receive
  <2>2. Len(Tail(buffer[s])) <= BufferSize
    <3>1. Len(Tail(buffer[s])) = Len(buffer[s]) - 1 /\ Len(buffer[s]) \in Nat
      BY <2>1
    <3>2. QED
      BY <3>1, BufferAssumption
  <2>3. QED
    BY <2>1, <2>2
<1>3. ASSUME NEW p \in Publishers, NEW s \in Streams, Send(p, s) PROVE Bounded'
  <2>1. CASE Len(buffer[s]) < BufferSize
    <3>1. buffer' = [buffer EXCEPT ![s] = Append(@, p)] /\ buffer[s] \in Seq(Publishers)
      BY <1>3, <2>1 DEF Send
    <3>2. Len(Append(buffer[s], p)) = Len(buffer[s]) + 1 /\ Len(buffer[s]) \in Nat
      BY <3>1
    <3>3. Len(Append(buffer[s], p)) <= BufferSize
      BY <2>1, <3>2, BufferAssumption
    <3>4. QED
      BY <3>1, <3>3
  <2>2. CASE ~ (Len(buffer[s]) < BufferSize)
    BY <1>1, <1>3, <2>2 DEF Send
  <2>3. QED
    BY <2>1, <2>2
<1>4. QED
  BY <1>1, <1>2, <1>3 DEF BrokerNext, brokerVars, broker, Subscribe, Disconnect, Cancel, Publish,
     PublishTo, SendStep, SendOnClosed

\* BrokerTypeOK: a channel never holds more than its capacity, and nothing but
\* what was published.
THEOREM BrokerTypeCorrect == BrokerSpec => []BrokerTypeOK
<1>1. BrokerInit => Bounded
  BY BufferAssumption DEF BrokerInit, Bounded
<1>2. EInv /\ Bounded /\ [BrokerNext]_brokerVars => Bounded'
  BY BoundedKept DEF EInv
<1>3. GInv /\ EInv /\ Bounded => BrokerTypeOK
  <2> SUFFICES ASSUME GInv, EInv, Bounded PROVE BrokerTypeOK
    OBVIOUS
  <2>1. \A s \in Streams : Range(buffer[s]) \subseteq Publishers /\ Range(received[s]) \subseteq Publishers
    BY DEF EInv, EventTypes, Range
  <2>2. closed \in [Streams -> BOOLEAN]
    BY DEF GInv, ClosedIsLeft
  <2>3. QED
    BY <2>1, <2>2 DEF GInv, GroupTypes, EInv, EventTypes, Bounded, BrokerTypeOK
<1>4. QED
  BY <1>1, <1>2, <1>3, BrokerGroups, BrokerEvents, PTL DEF BrokerSpec

--------------------------------------------------------------------------------
\* The monitoring streams.

\* The monitoring streams use the broker as the inbox streams do: every step of
\* theirs is a step of the broker or leaves it alone.
THEOREM LiveUsesTheBroker == LiveSpec => BrokerSpec
<1>1. LiveInit => BrokerInit
  BY DEF LiveInit
<1>2. [LiveNext]_liveVars => [BrokerNext]_brokerVars
  <2> SUFFICES ASSUME [LiveNext]_liveVars PROVE BrokerNext \/ UNCHANGED brokerVars
    OBVIOUS
  <2>1. ASSUME NEW p \in Publishers, PublishLive(p) \/ SendLive(p)
        PROVE  BrokerNext
    BY <2>1 DEF PublishLive, SendLive, BrokerNext
  <2>2. ASSUME NEW s \in Streams,
               \/ SubscribeLive(s) \/ NormalizeQuery(s) \/ SnapshotFails(s)
               \/ ReceiveLive(s) \/ LeaveLive(s) \/ CancelLive(s)
        PROVE  BrokerNext \/ UNCHANGED brokerVars
    BY <2>2 DEF SubscribeLive, NormalizeQuery, SnapshotFails, ReceiveLive, LeaveLive, CancelLive,
       BrokerNext
  <2>3. CASE \/ Tick \/ PurgeEvents \/ UNCHANGED liveVars
             \/ \E p \in Publishers : StartHook(p) \/ RecordObservation(p) \/ RecordObservationFails(p)
             \/ \E s \in Streams : TakeSnapshot(s)
    BY <2>3 DEF Tick, PurgeEvents, StartHook, RecordObservation, RecordObservationFails,
       TakeSnapshot, liveVars
  <2>4. QED
    BY <2>1, <2>2, <2>3 DEF LiveNext
<1>3. QED
  BY <1>1, <1>2, PTL DEF LiveSpec, BrokerSpec

\* The types, and that a stream reads until it is over.
LiveTypes ==
    /\ IsFiniteSet(monitoringEvents) /\ monitoringEvents \subseteq Publishers
    /\ clock \in Nat
    /\ hook \in [Publishers -> {"idle", "started", "recorded", "failed"}]
    /\ observedAt \in [Publishers -> Nat]
    /\ asked \in [Streams -> [from : Int, to : Int]]
    /\ stage \in [Streams -> {"window", "query", "loop", "over"}]
    /\ window \in [Streams -> [from : Int, to : Int]]
    /\ DOMAIN snapshot = Streams
    /\ \A s \in Streams : stage[s] \in {"query", "loop"} => stream[s] = "reading"

\* What is in the store, in a snapshot or published is of a hook that began
\* before now.
HooksArePast ==
    /\ \A p \in Publishers : /\ hook[p] # "idle" => observedAt[p] <= clock
                             /\ publisher[p] # "idle" => hook[p] = "recorded"
    /\ \A p \in monitoringEvents : hook[p] # "idle"
    /\ \A s \in Streams : snapshot[s] \subseteq {p \in Publishers : hook[p] # "idle"}

\* With no window asked for, what was not published to a stream began before
\* the end of its window.
WindowIsLate ==
    \A s \in Streams : stage[s] \in {"query", "loop"} /\ asked[s] = DefaultQuery =>
       \A p \in Publishers : publisher[p] # "idle" /\ p \notin due[s] => observedAt[p] <= window[s].to

LiveInv == LiveTypes /\ HooksArePast /\ WindowIsLate /\ NoGapAfterSnapshot

\* A snapshot that leaves an observation of its window out is full, of none
\* that is older in the order of the store.
LEMMA LeftOutOfNewest ==
    ASSUME LiveTypes, NEW s \in Streams, NEW chosen \in Newest(s),
           NEW p \in monitoringEvents \ chosen, InWindow(p, s)
    PROVE  Cardinality(chosen) = Limit /\ \A e \in chosen : NotNewer(p, e)
<1> DEFINE matching == {e \in monitoringEvents : InWindow(e, s)}
           n == Cardinality(matching)
<1>1. /\ chosen \subseteq matching /\ chosen # matching
      /\ Cardinality(chosen) = Min({Limit, n})
      /\ \A e \in chosen : NotNewer(p, e)
  BY DEF Newest
<1>2. IsFiniteSet(chosen) /\ n \in Nat /\ Cardinality(chosen) < n
  <2>1. IsFiniteSet(matching)
    BY FS_Subset DEF LiveTypes
  <2>2. QED
    BY <1>1, <2>1, FS_Subset, FS_CardinalityType
<1> HIDE DEF n
<1>3. Min({Limit, n}) \in {Limit, n}
  <2>1. \E x \in {Limit, n} : \A y \in {Limit, n} : x <= y
    <3>1. CASE Limit <= n
      BY <1>2, <3>1, LimitAssumption
    <3>2. CASE n <= Limit
      BY <1>2, <3>2, LimitAssumption
    <3>3. QED
      BY <1>2, <3>1, <3>2, LimitAssumption
  <2>2. QED
    BY <2>1 DEF Min
<1>4. QED
  BY <1>1, <1>2, <1>3

\* The order and the window of the store, to the second.
LEMMA StoreIsRightToTheSecond ==
    ASSUME LiveTypes, NEW s \in Streams, NEW p \in Publishers, NEW e \in Publishers
    PROVE  /\ NotNewer(p, e) => NotNewerToTheSecond(p, e)
           /\ ~ InWindow(p, s) => OutsideWindow(p, s)
<1>1. /\ observedAt[p] \in Nat /\ observedAt[e] \in Nat
      /\ window[s].from \in Int /\ window[s].to \in Int
  BY DEF LiveTypes
<1>2. \A a, b \in Int : a \div 2 \in Int /\ (TextBefore(a, b) => a \div 2 <= b \div 2)
                       /\ (~ TextBefore(a, b) => b \div 2 <= a \div 2)
  BY DEF TextBefore
<1>3. NotNewer(p, e) => NotNewerToTheSecond(p, e)
  BY <1>1, <1>2 DEF NotNewer, NotNewerToTheSecond
<1>4. ~ InWindow(p, s) => OutsideWindow(p, s)
  <2>1. CASE backend = "memory"
    BY <1>1, <2>1 DEF InWindow, IsWithin, OutsideWindow
  <2>2. CASE backend # "memory"
    BY <1>1, <1>2, <2>2 DEF InWindow, IsWithin, OutsideWindow
  <2>3. QED
    BY <2>1, <2>2
<1>5. QED
  BY <1>3, <1>4

\* A stream that reads is in the group every observation is published to.
LEMMA PublishedToAll ==
    ASSUME GInv, NEW p \in Publishers, Publish(p), NEW s \in Streams, stream[s] = "reading"
    PROVE  p \in due'[s]
<1>1. PICK t \in Topics : due' = [r \in Streams |-> IF r \in Group(t) THEN due[r] \cup {p} ELSE due[r]]
  BY DEF Publish, PublishTo
<1>2. topic[s] = t
  BY LimitAssumption DEF GInv, GroupTypes
<1>3. s \in Group(t)
  BY <1>2 DEF GInv, GroupsAreTheReaders
<1>4. QED
  BY <1>1, <1>3

\* A step of the broker that takes no stream out of its loop: what is published
\* is due to every stream that reads.
LEMMA LiveBrokerStep ==
    ASSUME LiveInv, UNCHANGED <<backend, clock, recorder, asked, query>>,
           \A s \in Streams : stream[s] = "reading" => stream'[s] = "reading",
           \A s \in Streams : due[s] \subseteq due'[s],
           \A p \in Publishers :
              \/ publisher[p] = "idle" <=> publisher'[p] = "idle"
              \/ /\ hook[p] = "recorded"
                 /\ \A s \in Streams : stream[s] = "reading" => p \in due'[s]
    PROVE  LiveInv'
<1> USE DEF LiveInv, LiveTypes, recorder, query
<1>1. LiveTypes'
  OBVIOUS
<1>2. HooksArePast'
  BY DEF HooksArePast
<1>3. WindowIsLate'
  BY DEF WindowIsLate
<1>4. NoGapAfterSnapshot'
  <2> SUFFICES ASSUME NEW s \in Streams, stage[s] = "loop", NEW p \in monitoringEvents,
                      p \notin due'[s], publisher'[p] # "idle", p \notin snapshot[s]
               PROVE  \/ /\ Cardinality(snapshot[s]) = Limit
                         /\ \A e \in snapshot[s] : NotNewerToTheSecond(p, e)
                      \/ /\ OutsideWindow(p, s)
                         /\ asked[s] = DefaultQuery => observedAt[p] <= window[s].to
    BY DEF NoGapAfterSnapshot, OutsideWindow, NotNewerToTheSecond
  <2>1. p \in Publishers /\ p \notin due[s] /\ publisher[p] # "idle"
    OBVIOUS
  <2>2. QED
    BY <2>1 DEF NoGapAfterSnapshot
<1>5. QED
  BY <1>1, <1>2, <1>3, <1>4

\* A step of the clock, of a hook or of a retention run: what is new in the
\* store is still to be published or never will be.
LEMMA LiveHookStep ==
    ASSUME LiveInv, UNCHANGED <<brokerVars, backend, asked, query>>, LiveTypes', HooksArePast',
           \A p \in monitoringEvents' \ monitoringEvents : publisher[p] = "idle",
           \A p \in Publishers : hook[p] # "idle" => observedAt'[p] = observedAt[p]
    PROVE  LiveInv'
<1> USE DEF LiveInv, query, brokerVars, writer
<1>1. WindowIsLate'
  BY DEF WindowIsLate, HooksArePast
<1>2. NoGapAfterSnapshot'
  <2> SUFFICES ASSUME NEW s \in Streams, stage[s] = "loop", NEW p \in monitoringEvents',
                      p \notin snapshot[s], p \notin due[s], publisher[p] # "idle"
               PROVE  \/ /\ Cardinality(snapshot[s]) = Limit
                         /\ \A e \in snapshot[s] : NotNewerToTheSecond(p, e)'
                      \/ /\ OutsideWindow(p, s)'
                         /\ asked[s] = DefaultQuery => observedAt'[p] <= window[s].to
    BY DEF NoGapAfterSnapshot
  <2>1. p \in monitoringEvents /\ observedAt'[p] = observedAt[p]
    BY DEF HooksArePast, LiveTypes
  <2>2. \A e \in snapshot[s] : observedAt'[e] = observedAt[e]
    BY DEF HooksArePast
  <2>3. \A e \in snapshot[s] : NotNewerToTheSecond(p, e)' <=> NotNewerToTheSecond(p, e)
    BY <2>1, <2>2 DEF NotNewerToTheSecond
  <2>4. OutsideWindow(p, s)' <=> OutsideWindow(p, s)
    BY <2>1 DEF OutsideWindow
  <2>5. QED
    BY <2>1, <2>3, <2>4 DEF NoGapAfterSnapshot
<1>3. QED
  BY <1>1, <1>2

\* The clock, the hooks and the retention runs keep the invariant.
LEMMA LiveHooksKeep ==
    ASSUME LiveInv,
           \/ Tick \/ PurgeEvents
           \/ \E p \in Publishers : StartHook(p) \/ RecordObservation(p) \/ RecordObservationFails(p)
    PROVE  LiveInv'
<1> USE DEF LiveInv, LiveTypes, HooksArePast, query, brokerVars, reader, writer
<1>1. CASE Tick
  <2>1. clock' = clock + 1 /\ UNCHANGED <<brokerVars, backend, recorder, asked, query>>
    BY <1>1 DEF Tick
  <2>2. LiveTypes' /\ HooksArePast'
    BY <2>1 DEF recorder
  <2>3. QED
    BY ONLY <2>1, <2>2, LiveInv, LiveHookStep DEF recorder
<1>2. CASE PurgeEvents
  <2>1. /\ monitoringEvents' \subseteq monitoringEvents
        /\ UNCHANGED <<brokerVars, backend, clock, hook, observedAt, asked, query>>
    BY <1>2 DEF PurgeEvents
  <2>2. LiveTypes' /\ HooksArePast'
    BY <2>1, FS_Subset
  <2>3. QED
    BY ONLY <2>1, <2>2, LiveInv, LiveHookStep
<1>3. ASSUME NEW p \in Publishers, StartHook(p) PROVE LiveInv'
  <2>1. /\ hook[p] = "idle" /\ hook' = [hook EXCEPT ![p] = "started"]
        /\ observedAt' = [observedAt EXCEPT ![p] = clock]
        /\ UNCHANGED <<brokerVars, backend, clock, monitoringEvents, asked, query>>
    BY <1>3 DEF StartHook
  <2>2. LiveTypes' /\ HooksArePast'
    BY <2>1
  <2>3. \A r \in Publishers : hook[r] # "idle" => observedAt'[r] = observedAt[r]
    BY <2>1
  <2>4. QED
    BY ONLY <2>1, <2>2, <2>3, LiveInv, LiveHookStep
<1>4. ASSUME NEW p \in Publishers, RecordObservation(p) \/ RecordObservationFails(p) PROVE LiveInv'
  <2>1. /\ hook[p] = "started" /\ \E end \in {"recorded", "failed"} : hook' = [hook EXCEPT ![p] = end]
        /\ monitoringEvents' \subseteq monitoringEvents \cup {p}
        /\ UNCHANGED <<brokerVars, backend, clock, observedAt, asked, query>>
    BY <1>4 DEF RecordObservation, RecordObservationFails
  <2>2. IsFiniteSet(monitoringEvents')
    BY <2>1, FS_AddElement, FS_Subset
  <2>3. LiveTypes' /\ HooksArePast'
    BY <2>1, <2>2
  <2>4. publisher[p] = "idle"
    BY <2>1
  <2>5. QED
    BY ONLY <2>1, <2>3, <2>4, LiveInv, LiveHookStep
<1>5. QED
  BY <1>1, <1>2, <1>3, <1>4

\* A stream fixes its window: what was published by now and not to it began
\* before now, the end of a window nobody asked for.
LEMMA NormalizeQueryKeeps ==
    ASSUME GInv, LiveInv, NEW s \in Streams, NormalizeQuery(s) PROVE LiveInv'
<1> USE DEF LiveInv, LiveTypes, HooksArePast, recorder, GInv, GroupTypes
<1> DEFINE w == Window(asked[s].from, asked[s].to, clock)
<1>1. w \in [from : Int, to : Int] /\ (asked[s] = DefaultQuery => w.to = clock)
  BY WindowAssumption DEF Window, DefaultQuery, Absent
<1>2. /\ stage[s] = "window" /\ window' = [window EXCEPT ![s] = w]
      /\ UNCHANGED <<backend, clock, recorder, asked, snapshot, due, publisher>>
      /\ \A r \in Streams \ {s} : stage'[r] = stage[r] /\ stream'[r] = stream[r]
      /\ stage' \in [Streams -> {"window", "query", "loop", "over"}]
      /\ stage'[s] # "loop" /\ (stage'[s] = "query" => stream'[s] = "reading")
  BY DEF NormalizeQuery, Disconnect, brokerVars, reader, writer
<1> HIDE DEF w
<1>3. LiveTypes' /\ HooksArePast'
  <2>1. window' \in [Streams -> [from : Int, to : Int]]
    BY <1>1, <1>2
  <2>2. \A r \in Streams : stage'[r] \in {"query", "loop"} => stream'[r] = "reading"
    BY <1>2
  <2>3. LiveTypes'
    BY <1>2, <2>1, <2>2
  <2>4. HooksArePast'
    BY <1>2
  <2>5. QED
    BY ONLY <2>3, <2>4
<1>4. WindowIsLate'
  <2> SUFFICES ASSUME NEW r \in Streams, stage'[r] \in {"query", "loop"}, asked[r] = DefaultQuery,
                      NEW p \in Publishers, publisher[p] # "idle", p \notin due[r]
               PROVE  observedAt[p] <= window'[r].to
    BY <1>2 DEF WindowIsLate
  <2>1. CASE r = s
    BY <1>1, <1>2, <2>1
  <2>2. CASE r # s
    BY <1>2, <2>2 DEF WindowIsLate
  <2>3. QED
    BY <2>1, <2>2
<1>5. NoGapAfterSnapshot'
  BY <1>2 DEF NoGapAfterSnapshot, OutsideWindow, NotNewerToTheSecond
<1>6. QED
  BY <1>3, <1>4, <1>5

\* The snapshot: what it leaves out of the window it is full without.
LEMMA TakeSnapshotKeeps ==
    ASSUME LiveInv, NEW s \in Streams, TakeSnapshot(s) PROVE LiveInv'
<1>1. PICK chosen \in Newest(s) : snapshot' = [snapshot EXCEPT ![s] = chosen]
  BY DEF TakeSnapshot
<1>2. /\ stream[s] = "reading" /\ stage[s] = "query" /\ stage' = [stage EXCEPT ![s] = "loop"]
      /\ UNCHANGED <<brokerVars, backend, clock, recorder, asked, window>>
  BY DEF TakeSnapshot
<1> USE DEF LiveInv, brokerVars, reader, writer, recorder
<1>3. chosen \subseteq monitoringEvents
  BY DEF Newest
<1>4. LiveTypes' /\ HooksArePast'
  BY <1>1, <1>2, <1>3 DEF LiveTypes, HooksArePast
<1>5. WindowIsLate'
  BY <1>2 DEF WindowIsLate, LiveTypes
<1>6. NoGapAfterSnapshot'
  <2> SUFFICES ASSUME NEW r \in Streams, stage'[r] = "loop", NEW p \in monitoringEvents,
                      p \notin snapshot'[r], p \notin due[r], publisher[p] # "idle"
               PROVE  \/ /\ Cardinality(snapshot'[r]) = Limit
                         /\ \A e \in snapshot'[r] : NotNewerToTheSecond(p, e)
                      \/ /\ OutsideWindow(p, r)
                         /\ asked[r] = DefaultQuery => observedAt[p] <= window[r].to
    BY <1>2 DEF NoGapAfterSnapshot, OutsideWindow, NotNewerToTheSecond
  <2>1. CASE r # s
    BY <1>1, <1>2, <2>1 DEF NoGapAfterSnapshot, LiveTypes
  <2>2. CASE r = s
    <3>1. snapshot'[r] = chosen /\ p \in Publishers
      BY <1>1, <2>2 DEF LiveTypes
    <3>2. CASE InWindow(p, s)
      <4>1. Cardinality(chosen) = Limit /\ \A e \in chosen : NotNewer(p, e)
        BY <3>1, <3>2, <2>2, LeftOutOfNewest
      <4>2. \A e \in chosen : NotNewerToTheSecond(p, e)
        BY <1>3, <3>1, <4>1, StoreIsRightToTheSecond DEF LiveTypes
      <4>3. QED
        BY <3>1, <4>1, <4>2
    <3>3. CASE ~ InWindow(p, s)
      <4>1. OutsideWindow(p, s)
        BY <3>1, <3>3, StoreIsRightToTheSecond
      <4>2. asked[s] = DefaultQuery => observedAt[p] <= window[s].to
        BY <1>2, <2>2, <3>1 DEF WindowIsLate
      <4>3. QED
        BY <2>2, <4>1, <4>2
    <3>4. QED
      BY <3>2, <3>3
  <2>3. QED
    BY <2>1, <2>2
<1>7. QED
  BY <1>4, <1>5, <1>6

\* Every step of the monitoring streams keeps the invariant.
LEMMA LiveNextKeeps ==
    ASSUME GInv, EventTypes, LiveInv, [LiveNext]_liveVars PROVE LiveInv'
<1>1. ASSUME NEW p \in Publishers, PublishLive(p) PROVE LiveInv'
  <2>1. /\ UNCHANGED <<backend, clock, recorder, asked, query, stream>>
        /\ \A s \in Streams : due[s] \subseteq due'[s]
        /\ hook[p] = "recorded"
        /\ \A r \in Publishers \ {p} : publisher'[r] = publisher[r]
    BY <1>1 DEF PublishLive, Publish, PublishTo, reader, EventTypes
  <2>2. \A s \in Streams : stream[s] = "reading" => p \in due'[s]
    BY <1>1, PublishedToAll DEF PublishLive
  <2>3. QED
    BY <2>1, <2>2, LiveBrokerStep
<1>2. ASSUME NEW p \in Publishers, SendLive(p) PROVE LiveInv'
  <2>1. /\ UNCHANGED <<backend, clock, recorder, asked, query, stream, due>>
        /\ \A r \in Publishers : publisher[r] = "idle" <=> publisher'[r] = "idle"
    BY <1>2 DEF SendLive, SendStep, Send, SendOnClosed, AfterSendTo, reader, EventTypes
  <2>2. QED
    BY <2>1, LiveBrokerStep
<1>3. ASSUME NEW s \in Streams, SubscribeLive(s) \/ ReceiveLive(s) \/ CancelLive(s)
      PROVE  LiveInv'
  <2>1. /\ UNCHANGED <<backend, clock, recorder, asked, query, due, publisher>>
        /\ \A r \in Streams : stream[r] = "reading" => stream'[r] = "reading"
    BY <1>3 DEF SubscribeLive, ReceiveLive, CancelLive, Subscribe, Receive, Cancel, writer,
       GInv, GroupTypes
  <2>2. QED
    BY <2>1, LiveBrokerStep
<1>4. ASSUME NEW s \in Streams, SnapshotFails(s) \/ LeaveLive(s) PROVE LiveInv'
  <2>1. /\ stage' = [stage EXCEPT ![s] = "over"]
        /\ stream' = [stream EXCEPT ![s] = "leaving"]
        /\ UNCHANGED <<backend, clock, recorder, asked, window, snapshot, due, publisher>>
    BY <1>4 DEF SnapshotFails, LeaveLive, Disconnect, writer
  <2>2. \A r \in Streams : stage'[r] \in {"query", "loop"} => r # s /\ stage'[r] = stage[r]
    BY <2>1 DEF LiveInv, LiveTypes
  <2>3. LiveTypes' /\ HooksArePast'
    BY <2>1, <2>2 DEF LiveInv, LiveTypes, HooksArePast, recorder, GInv, GroupTypes
  <2>4. WindowIsLate' /\ NoGapAfterSnapshot'
    BY <2>1, <2>2 DEF LiveInv, WindowIsLate, NoGapAfterSnapshot, OutsideWindow,
       NotNewerToTheSecond, recorder
  <2>5. QED
    BY <2>3, <2>4 DEF LiveInv
<1>5. CASE UNCHANGED liveVars
  <2>1. UNCHANGED <<backend, clock, recorder, asked, query, stream, due, publisher>>
    BY <1>5 DEF liveVars, brokerVars, reader, writer
  <2>2. QED
    BY <2>1, LiveBrokerStep
<1>6. QED
  BY <1>1, <1>2, <1>3, <1>4, <1>5, LiveHooksKeep, NormalizeQueryKeeps, TakeSnapshotKeeps DEF LiveNext

\* No gap between the snapshot a monitoring stream starts with and the events
\* it is sent afterwards: it subscribes before it fixes its window, and fixes
\* its window before it reads the store.
THEOREM NoGapAfterSnapshotHolds == LiveSpec => []NoGapAfterSnapshot
<1>1. LiveInit => LiveInv
  <2> SUFFICES ASSUME LiveInit PROVE LiveInv
    OBVIOUS
  <2>1. IsFiniteSet({})
    BY FS_EmptySet
  <2>2. LiveTypes
    BY <2>1, LimitAssumption DEF LiveInit, LiveTypes, DefaultQuery, Absent
  <2>3. HooksArePast
    BY DEF LiveInit, BrokerInit, HooksArePast
  <2>4. WindowIsLate /\ NoGapAfterSnapshot
    BY DEF LiveInit, WindowIsLate, NoGapAfterSnapshot
  <2>5. QED
    BY <2>2, <2>3, <2>4 DEF LiveInv
<1>2. GInv /\ EInv /\ LiveInv /\ [LiveNext]_liveVars => LiveInv'
  BY LiveNextKeeps DEF EInv
<1>3. LiveInv => NoGapAfterSnapshot
  BY DEF LiveInv
<1>4. QED
  BY <1>1, <1>2, <1>3, LiveUsesTheBroker, BrokerGroups, BrokerEvents, PTL DEF LiveSpec
================================================================================
