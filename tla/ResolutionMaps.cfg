CONSTANTS
    id1 = id1
    id2 = id2
    a = a
    b = b
    k = k
    l = l
    None = None
    Fdids = {id1, id2}
    ContentKeys = {a, b}
    EncodingKeys = {k, l}
    Files <- MCFiles
SPECIFICATION Spec
INVARIANTS LastVisibleRecordWins RowsFollowLastRecord LookupsAgree
CHECK_DEADLOCK FALSE
