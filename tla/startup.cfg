SPECIFICATION Spec
CONSTANTS
    QueueSize   = 2
    MaxRequests = 3
CHECK_DEADLOCK FALSE
INVARIANT PipesBeforeReaders
INVARIANT CompleteStart
INVARIANT ConnectedCoreOn
PROPERTY RequestsReturn
INVARIANT RequestKept
