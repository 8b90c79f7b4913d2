CONSTANTS
    t1 = t1
    t2 = t2
    t3 = t3
    p1 = p1
    p2 = p2
    f1 = f1
    f2 = f2
    pathA = pathA
    upperA = upperA
    pathB = pathB
    None = None
    Fdids = {f1, f2}
    Paths = {pathA, upperA, pathB}
    Lower <- FoldCase
    Threads = {t1, t2, t3}
    Procs = {p1, p2}
    ProcOf <- TwoProcesses
    Worlds <- AllWorlds
    MaxCalls = 3
    MaxFaults = 1
    MaxKills = 1
SPECIFICATION Spec
SYMMETRY Symmetry
INVARIANTS TypeOK AnswersHaveASource KnownIsFound IndexesMirror RememberedIsPersisted
PROPERTIES ImplementsBook MemoryStands
CHECK_DEADLOCK FALSE
