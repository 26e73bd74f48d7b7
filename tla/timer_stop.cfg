SPECIFICATION Safety
CONSTANTS
    QueueSize = 2
    MaxCalls  = 4
CHECK_DEADLOCK FALSE
PROPERTY StopReleasesDefined
