CONSTANTS
    Sessions = {s1}
    Listeners = {l1, l2}
    NoSession = NoSession
    IdleGrace = 2
    CloseGrace = 1
SPECIFICATION Spec
PROPERTIES
    CloseGraceSticks
