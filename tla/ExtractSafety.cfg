CONSTANTS
    t1 = t1
    t2 = t2
    t3 = t3
    p1 = p1
    p2 = p2
    Threads = {t1, t2, t3}
    Procs = {p1, p2}
    ProcOf <- TwoProcesses
    LastBuild = 2
    Content <- Contents
    MayRevert = FALSE
    MaxCalls = 2
    MaxPatches = 1
    MaxFaults = 1
    MaxKills = 1
    Components = {"/", "s", "c", "data", "products", "wow", "b1", "b2", "m", ".."}
    Special = {"/", ".."}
    Products = {"wow"}
    BuildKeys = {"b1", "b2"}
    SourceRoot <- Absolute
    SharedRoot <- AbsoluteShared
SPECIFICATION Spec
SYMMETRY Symmetry
INVARIANTS TypeOK NeverOlderThanLabel ReadsAreCurrent UndisturbedIsExact QualifiedIsDecoded VisibleIsWhole OneInitializerPerKey
PROPERTIES CellsAreFinal ImplementsShelf
CHECK_DEADLOCK FALSE
