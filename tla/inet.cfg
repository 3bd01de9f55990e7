SPECIFICATION FairSpec
CONSTANTS
    k1 = k1
    k2 = k2
    k3 = k3
    c1 = c1
    c2 = c2
    c3 = c3
    Client = {k1, k2, k3}
    Conn = {c1, c2, c3}
    ArgMinIdle = 0
    ArgMaxIdle = 0
    ArgMaxProc = 2
    MaxRequestsPerProc = 2
    Faults <- EveryFault
    FaultBound = 2
    Listen = Listen
    NoConn = NoConn
    NoClient = NoClient
INVARIANTS
    TypeOK
    Books
PROPERTIES
    AllServed
    StopEnds
CHECK_DEADLOCK FALSE
