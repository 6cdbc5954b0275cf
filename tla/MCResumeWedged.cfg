CONSTANTS
    Capacity = 2
    TailBytes = 1
    MaxQueue = 1
    MaxChunk = 1
    MaxEnd = 3
    MaxConns = 2
SPECIFICATION Spec
INVARIANTS
    NotWedged
CHECK_DEADLOCK FALSE
