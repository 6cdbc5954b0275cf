CONSTANTS
    Capacity = 1
    TailBytes = 1
    MaxQueue = 2
    MaxChunk = 1
    MaxEnd = 3
    MaxConns = 2
SPECIFICATION Spec
INVARIANTS
    TypeOK
    OffsetsWithinStream
    ScreenIsTheStream
CONSTRAINT Judged
CHECK_DEADLOCK FALSE
