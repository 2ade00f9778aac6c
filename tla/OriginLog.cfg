\* Two test ids and one the origin rejects, two scripts, four requests, and a clock
\* that runs past two sweeps.
CONSTANTS
    r1 = r1
    r2 = r2
    r3 = r3
    r4 = r4
    id1 = id1
    id2 = id2
    bad = bad
    n1 = n1
    n2 = n2
    Requests <- MCRequests4
    Ids = {id1, id2, bad}
    ValidIds = {id1, id2}
    Steps = {0}
    Scripts <- MCScripts
    Names = {n1, n2}
    TTL = 1
    MaxLog = 2
    MaxClock = 5
    NoName = NoName
    NoId = NoId
    NoEntry = NoEntry
    Malformed = Malformed
SYMMETRY MCSymmetry
SPECIFICATION Spec
INVARIANTS
    SeqsNameOneRequest
    NoRequestLost
    OneScriptPerLog
    RetentionBound
PROPERTIES
    AnsweredIsVisible
    FreshScriptSurvives
CHECK_DEADLOCK FALSE
