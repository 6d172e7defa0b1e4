SPECIFICATION FairSpec
CONSTANTS
    k1 = k1
    k2 = k2
    Keys = {k1, k2}
    NoKey = NoKey
    MaxEnqueues = 3
INVARIANTS TypeOK NoLostWakeup ValuesConserved
PROPERTIES ImplementsCoalescingQueue ValuesAttempted DrainsReturn
CHECK_DEADLOCK FALSE
