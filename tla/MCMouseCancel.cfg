CONSTANTS
    MaxX = 1
    MaxY = 2
    Cols = 2
    Rows = 2
    MaxFingers = 2
SPECIFICATION Spec
PROPERTIES
    CancelReleases
