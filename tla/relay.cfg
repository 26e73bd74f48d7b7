SPECIFICATION Spec
CONSTANTS
    own       = own
    other     = other
    Slots    <- MCSlots
    CardSlot  = own
    NoSlot    = NoSlot
    MaxApdu   = 2
    QueueSize = 3
    Eager     = FALSE
INVARIANT TypeOK
INVARIANT AttachedCoreOn
INVARIANT AnnouncedWhenOn
INVARIANT AnswersPowered
INVARIANT PoweredToldAtr
INVARIANT ReadyConnectQuiet
PROPERTY StateLadder
PROPERTY HandlerReturns
PROPERTY StopCompletes
PROPERTY PoweredApduAnswered
