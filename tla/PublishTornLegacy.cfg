CONSTANTS
    p1 = p1
    p2 = p2
    Procs = {p1, p2}
    Legacy <- TornCommit
    MaxKills = 1
    MaxFaults = 0
    StatMayFail = FALSE
SPECIFICATION Spec
INVARIANTS LoadedIsCommitted
CHECK_DEADLOCK FALSE
