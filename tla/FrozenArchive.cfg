CONSTANTS
    i1 = i1
    i2 = i2
    t1 = t1
    t2 = t2
    n1 = n1
    n2 = n2
    v1 = v1
    v2 = v2
    Importers = {i1, i2}
    Threads = {t1, t2}
    Names = {n1, n2}
    Values = {v1, v2}
    Additions <- MCAdditions
    MaxWork = 3
    MaxChanges = 1
SPECIFICATION FairSpec
INVARIANTS TypeOK AccessIsLocal ConfirmedIsFinal DenialsAreCounted ReadersHoldImports
PROPERTIES ImplementsLedger ExtractedMissesReport ImportsReturn
CHECK_DEADLOCK FALSE
