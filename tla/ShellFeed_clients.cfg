SPECIFICATION FairSpec
CONSTANTS
    r1 = r1
    r2 = r2
    Rows = {r1, r2}
    Stamps = {1, 2}
    Batches <- ShellBatches
    MaxEvents = 3
    MaxDrops = 1
    MaxFailures = 1
INVARIANTS TypeOK StaleOnlyByLoss NeverOlder
PROPERTIES SnapshotRepairs CatchesUp
CHECK_DEADLOCK FALSE
