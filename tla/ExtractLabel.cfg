CONSTANTS
    t1 = t1
    t2 = t2
    t3 = t3
    p1 = p1
    p2 = p2
    Threads = {t1}
    Procs = {p1}
    ProcOf <- OneThread
    LastBuild = 2
    Content <- PlainContents
    MayRevert = FALSE
    MaxCalls = 1
    MaxPatches = 1
    MaxFaults = 0
    MaxKills = 0
    Components = {"/", "s", "c", "data", "products", "wow", "b1", "b2", "m", ".."}
    Special = {"/", ".."}
    Products = {"wow"}
    BuildKeys = {"b1", "b2"}
    SourceRoot <- Absolute
    SharedRoot <- Absolute
SPECIFICATION Spec
INVARIANTS LabelMatchesBytes
CHECK_DEADLOCK FALSE
