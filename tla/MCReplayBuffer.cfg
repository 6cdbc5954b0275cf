CONSTANTS
    Capacity = 3
    MaxChunk = 4
    MaxEnd = 7
SPECIFICATION Spec
INVARIANTS
    TypeOK
    ResumeIsExact
    RepaintIsTruthful
PROPERTIES
    ImplementsWindow
CHECK_DEADLOCK FALSE
