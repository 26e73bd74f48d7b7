SPECIFICATION Spec
CONSTANTS
    a         = a
    b         = b
    Names    <- MCNames
    Data     <- MCData
    MaxSize   = 4
    MaxLength = 5
    Chunk     = 2
    NoByte    = NoByte
    MaxCalls  = 3
CHECK_DEADLOCK FALSE
INVARIANT TypeOK
PROPERTY ImplementsFile
PROPERTY ReadReturns
