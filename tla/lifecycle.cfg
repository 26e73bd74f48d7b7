SPECIFICATION Spec
CONSTANTS
    MaxCommands = 4
    MaxBoots    = 2
CHECK_DEADLOCK FALSE
INVARIANT SessionsAlternate
INVARIANT SessionFollowsFlag
 
INVARIANT EraseStops
INVARIANT LeaksBounded
PROPERTY ImplementsSwitch
