CONSTANTS
    Capacity = 2
    TailBytes = 1
    MaxQueue = 1
    MaxChunk = 2
    MaxEnd = 3
    MaxConns = 1
SPECIFICATION FairSpec
INVARIANTS
    NoGapBehindReplay
PROPERTIES
    ConnectionsEnd
    CatchesUp
CHECK_DEADLOCK FALSE
