\* A test of a wait and a request; the proxy forwards once; another client's
\* upload may sweep the script away; the run may be canceled at any moment.
CONSTANTS
    put = put
    get = get
    del = del
    oput = oput
    f1 = f1
    id1 = id1
    id2 = id2
    n1 = n1
    Requests <- MCOneForwardOneOther
    Ids = {id1, id2}
    ValidIds = {id1, id2}
    Steps = {0, 1, 2}
    Scripts <- MCScripts
    Names = {n1}
    TTL = 1
    MaxLog = 2
    MaxClock = 4
    NoName = NoName
    NoId = NoId
    NoEntry = NoEntry
    Malformed = Malformed
    Plan <- MCWaitFirst
    TestId = id1
    OtherId = id2
    RunScript <- MCScript
    PutReq = put
    LogReq = get
    DelReq = del
    OtherReqs = {oput}
SPECIFICATION RunSpec
INVARIANTS
    JudgedOnEvidence
    DeletedStaysDeleted
PROPERTIES
    CanceledIsError
    ExerciseReturns
CHECK_DEADLOCK FALSE
