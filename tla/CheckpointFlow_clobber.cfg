SPECIFICATION FairSpec
CONSTANTS
  MaxTurns = 2
  MaxNumber = 3
  MaxReports = 1
  MaxReverts = 0
  MaxFailures = 0
PROPERTIES RealStays
CHECK_DEADLOCK FALSE
