SPECIFICATION FairSpec
CONSTANTS
    Projectors = 3
    Limit = 5
    PageSize = 3
    MaxEvents = 9
    MaxCrashes = 3
INVARIANTS AppliedOnceInOrder LevelWithinLimit
PROPERTIES Serves
CHECK_DEADLOCK FALSE
