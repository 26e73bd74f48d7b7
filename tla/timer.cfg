SPECIFICATION Spec
CONSTANTS
    QueueSize = 2
    MaxCalls  = 5
CHECK_DEADLOCK FALSE
INVARIANT OneTimer
INVARIANT StopSilences
PROPERTY StopDrains
