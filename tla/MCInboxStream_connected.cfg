\* One client connects while a hook is captured.
CONSTANTS
    Streams = {s1}
    Publishers = {p1}
    Topics = {a}
    BufferSize = 1
SPECIFICATION StreamSpec
INVARIANTS
    ConnectedClientGetsEvents
CHECK_DEADLOCK FALSE
