SPECIFICATION Spec
CONSTANTS
    own       = own
    other     = other
    Slots    <- MCSlots
    CardSlot  = own
    NoSlot    = NoSlot
    MaxApdu   = 2
    QueueSize = 2
    Eager     = TRUE
INVARIANT OneRequest
INVARIANT ResponseMatches
INVARIANT MainNeverBlocks
PROPERTY ImplementsService
INVARIANT NoCircularWait
PROPERTY RequestAdvances
PROPERTY AnswerHeld
