SPECIFICATION Spec
CONSTANTS
    PongTimeout = 2
    MaxConns = 2
    MaxPings = 2
    MaxSessions = 2
INVARIANTS
    TypeOK
    StoredIsCurrent
PROPERTIES
    ForcedCloseIsDue
    BlackholeIsNoticed
    Reconnects
