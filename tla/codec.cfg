SPECIFICATION Spec
CONSTANTS
    Bytes       <- MCBytes
    CommandMax  = 2
    TxSize      = 3
    RxSize      = 4
    AnswerMax   = 4
    SegmentMax  = 4
    MaxCommands = 2
CHECK_DEADLOCK FALSE
INVARIANT TypeOK
INVARIANT AnswerIntact
INVARIANT NothingLeaks
