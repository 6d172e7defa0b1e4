SPECIFICATION FairSpec
CONSTANTS
  MaxTurns = 2
  MaxNumber = 3
  MaxReports = 1
  MaxReverts = 1
  MaxFailures = 1
INVARIANTS TypeOK CountsDistinct RefHoldsTurn
PROPERTIES PlaceholdersReplaced
CHECK_DEADLOCK FALSE
