\* Three test requests may race after one put.
CONSTANTS
    r1 = r1
    r2 = r2
    r3 = r3
    r4 = r4
    id1 = id1
    id2 = id2
    bad = bad
    n1 = n1
    n2 = n2
    Requests <- MCRequests4
    Ids = {id1, bad}
    ValidIds = {id1}
    Steps = {0, 1}
    Scripts <- MCScripts
    Names = {n1, n2}
    TTL = 1
    MaxLog = 2
    MaxClock = 3
    NoName = NoName
    NoId = NoId
    NoEntry = NoEntry
    Malformed = Malformed
SPECIFICATION Spec
INVARIANT
    LogInArrivalOrder
CHECK_DEADLOCK FALSE
