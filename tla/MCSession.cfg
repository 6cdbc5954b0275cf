CONSTANTS
    Sessions = {s1}
    Listeners = {l1, l2, l3}
    NoSession = NoSession
    IdleGrace = 2
    CloseGrace = 1
SPECIFICATION FairSpec
INVARIANTS
    TypeOK
    IdleIffUnattached
    ExitToldOnce
    NobodyForgotten
PROPERTIES
    NoEarlyKill
    ExitIsTold
    NoOrphans
