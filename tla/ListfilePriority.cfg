CONSTANTS
    t1 = t1
    t2 = t2
    t3 = t3
    p1 = p1
    p2 = p2
    f1 = f1
    f2 = f2
    pathA = pathA
    upperA = upperA
    pathB = pathB
    None = None
    Fdids = {f1, f2}
    Paths = {pathA, upperA, pathB}
    Lower <- FoldCase
    Threads = {t1}
    Procs = {p1}
    ProcOf <- OneThread
    Worlds <- Conflicts
    MaxCalls = 3
    MaxFaults = 0
    MaxKills = 0
SPECIFICATION Spec
INVARIANTS LocalEntriesArePreferred
CHECK_DEADLOCK FALSE
