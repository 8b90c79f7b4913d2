CONSTANTS
    t1 = t1
    t2 = t2
    t3 = t3
    p1 = p1
    p2 = p2
    Threads = {t1, t2}
    Procs = {p1}
    ProcOf <- OneProcess
    LastBuild = 2
    Content <- LostContents
    MayRevert = FALSE
    MaxCalls = 2
    MaxPatches = 1
    MaxFaults = 1
    MaxKills = 0
    Components = {"/", "s", "c", "data", "products", "wow", "b1", "b2", "m", ".."}
    Special = {"/", ".."}
    Products = {"wow"}
    BuildKeys = {"b1", "b2"}
    SourceRoot <- Nearby
    SharedRoot <- AbsoluteShared
SPECIFICATION FairSpec
PROPERTIES CallsReturn
CHECK_DEADLOCK FALSE
