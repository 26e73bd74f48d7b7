SPECIFICATION Spec
CONSTANTS
    d1       = d1
    d2       = d2
    Data    <- MCData
    Absent   = Absent
    Empty    = Empty
    Torn     = Torn
    MaxCalls = 2
    MaxBoots = 1
CHECK_DEADLOCK FALSE
INVARIANT SavedWhenTrue
