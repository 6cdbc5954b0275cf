CONSTANTS
    MaxBytes = 2
    MaxChunk = 3
    MaxEnd = 7
SPECIFICATION FairSpec
INVARIANTS
    TypeOK
    NothingSkipped
    FrameOffsetTruthful
    ReportedOnceDead
    SleepsOnlyIdle
PROPERTIES
    ImplementsPromise
    QueueIsDrained
    RunReturns
    OverflowReported
