\* Two clients that come and go while two hooks are captured, over one or two
\* inboxes; buffers of one are full, drained and closed in every order.
CONSTANTS
    Streams = {s1, s2}
    Publishers = {p1, p2}
    Topics = {a, b}
    BufferSize = 1
SPECIFICATION FairStreamSpec
INVARIANTS
    BrokerTypeOK
    GroupsAreTheReaders
    EachEventOnce
    OrderKept
PROPERTIES
    PublishEnds
    HangupFreesTheChannel
CHECK_DEADLOCK FALSE
