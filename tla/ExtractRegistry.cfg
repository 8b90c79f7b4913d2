CONSTANTS
    t1 = t1
    t2 = t2
    t3 = t3
    p1 = p1
    p2 = p2
    Threads = {t1, t2}
    Procs = {p1}
    ProcOf <- OneProcess
    LastBuild = 2
    Content <- PlainContents
    MayRevert = TRUE
    MaxCalls = 2
    MaxPatches = 2
    MaxFaults = 0
    MaxKills = 0
    Components = {"/", "s", "c", "data", "products", "wow", "b1", "b2", "m", ".."}
    Special = {"/", ".."}
    Products = {"wow"}
    BuildKeys = {"b1", "b2"}
    SourceRoot <- Absolute
    SharedRoot <- AbsoluteShared
SPECIFICATION Spec
INVARIANTS UndisturbedIsExact
CHECK_DEADLOCK FALSE
