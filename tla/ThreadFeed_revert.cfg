SPECIFICATION Spec
CONSTANTS
    MaxTurns = 2
    MaxEvents = 2
    MaxDrops = 0
INVARIANTS RevertsAlike
CHECK_DEADLOCK FALSE
