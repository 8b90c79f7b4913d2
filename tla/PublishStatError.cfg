CONSTANTS
    p1 = p1
    p2 = p2
    Procs = {p1, p2}
    Legacy <- KilledInPlace
    MaxKills = 0
    MaxFaults = 0
    StatMayFail = TRUE
SPECIFICATION Spec
PROPERTIES PublishedIsImmutable
CHECK_DEADLOCK FALSE
