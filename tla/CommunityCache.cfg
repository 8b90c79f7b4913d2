CONSTANTS
    p1 = p1
    p2 = p2
    Procs = {p1, p2}
    LastVersion = 3
    LastSecond = 3
    MaxCalls = 3
    MaxFaults = 1
    MaxKills = 1
SPECIFICATION FairSpec
INVARIANTS TypeOK FreshIsCurrent OpenedIsCurrent
PROPERTIES ImplementsTable QueriesReturn
CHECK_DEADLOCK FALSE
