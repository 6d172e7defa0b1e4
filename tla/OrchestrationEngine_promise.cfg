SPECIFICATION FairSpec
CONSTANTS
    p1 = p1
    t1 = t1
    t2 = t2
    c1 = c1
    c2 = c2
    c3 = c3
    Projects = {p1}
    Threads = {t1}
    NoProject = NoProject
    CommandIds = {c1, c2, c3}
    Commands <- LifecycleCommands
    Faults <- RecordedRefusals
    MaxCalls = 3
    MaxFaults = 2
    MaxCrashes = 1
PROPERTIES ImplementsCommandLog ImplementsEventStream CallsAnswered
CHECK_DEADLOCK FALSE
