SPECIFICATION Spec
CONSTANTS
    MaxTurns = 2
    MaxEvents = 5
    MaxDrops = 1
INVARIANTS DiffersOnlyAtSeam
PROPERTIES NothingDisappears
CHECK_DEADLOCK FALSE
VIEW view
