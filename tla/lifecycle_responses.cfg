SPECIFICATION Safety
CONSTANTS
    MaxCommands = 3
    MaxBoots    = 1
CHECK_DEADLOCK FALSE
INVARIANT OneFinalResponse
