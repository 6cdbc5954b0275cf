CONSTANTS
    Capacity = 1
    TailBytes = 1
    MaxQueue = 1
    MaxChunk = 1
    MaxEnd = 3
    MaxConns = 2
SPECIFICATION Spec
INVARIANTS
    LastOffsetIsScreenEnd
CHECK_DEADLOCK FALSE
