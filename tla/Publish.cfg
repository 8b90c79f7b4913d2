CONSTANTS
    p1 = p1
    p2 = p2
    p3 = p3
    Procs = {p1, p2, p3}
    Legacy <- KilledInPlace
    MaxKills = 1
    MaxFaults = 1
    StatMayFail = FALSE
SPECIFICATION FairSpec
INVARIANTS TypeOK OneBuilder NeverIncomplete RefreshedIsComplete OnlyOwnFaultsFail
PROPERTIES Implements CallsReturn
CHECK_DEADLOCK FALSE
