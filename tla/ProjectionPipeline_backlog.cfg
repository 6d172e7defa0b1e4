SPECIFICATION Spec
CONSTANTS
    Projectors = 3
    Limit = 3
    PageSize = 2
    MaxEvents = 5
    MaxCrashes = 3
INVARIANTS LevelWhenServing
CHECK_DEADLOCK FALSE
