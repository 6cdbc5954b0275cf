SPECIFICATION Spec
CONSTANTS
    Sessions = {s1, s2}
    None = None
    MaxHellos = 2
    Sizes <- MCSizes
INVARIANTS
    TypeOK
    NoListenerLeft
    CloseIsMarked
    WelcomedIsAttached
PROPERTIES
    HandlerEnds
