SPECIFICATION FairSpec
CONSTANTS
    x1 = x1
    x2 = x2
    d1 = d1
    d2 = d2
    Items = {x1, x2}
    Waiters = {d1, d2}
    MaxEnqueues = 4
INVARIANTS TypeOK CountIsBacklog
PROPERTIES ImplementsWorkQueue ItemsProcessed DrainsReturn
CHECK_DEADLOCK FALSE
