SPECIFICATION FairSpec
CONSTANTS
    d1 = d1
    d2 = d2
    r1 = r1
    r2 = r2
    r3 = r3
    c1 = c1
    c2 = c2
    Caller = {d1, d2}
    Req = {r1, r2, r3}
    Conn = {c1, c2}
    MaxProc = 1
    MaxRequestsPerProc = 2
    MaxIdleProc = 1
    HupIn <- Either
    SigpipeIgnored <- Either
    Faults <- EveryFault
    NoConn = NoConn
    NoReq = NoReq
    Torn = Torn
INVARIANTS
    TypeOK
    Owned
    ReplyMatches
    BusyBound
    DrainedOnDelete
PROPERTIES
    Settles
    DestructorEnds
    WorkersEnd
CHECK_DEADLOCK FALSE
