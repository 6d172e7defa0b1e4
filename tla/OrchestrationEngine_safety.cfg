SPECIFICATION Spec
CONSTANTS
    p1 = p1
    t1 = t1
    t2 = t2
    c1 = c1
    c2 = c2
    c3 = c3
    Projects = {p1}
    Threads = {t1}
    NoProject = NoProject
    CommandIds = {c1, c2, c3}
    Commands <- LifecycleCommands
    Faults <- AllFaults
    MaxCalls = 4
    MaxFaults = 2
    MaxCrashes = 1
SYMMETRY IdSymmetry
INVARIANTS TypeOK AppliedOnce ReadModelIsStored TablesAreReplay SerialExecution HotStreamExact AnswersAreDurable NobodyForgotten
CHECK_DEADLOCK FALSE
