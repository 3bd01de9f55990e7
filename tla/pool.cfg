SPECIFICATION FairSpec
CONSTANTS
    c1 = c1
    c2 = c2
    p1 = p1
    p2 = p2
    t1 = t1
    t2 = t2
    Thread = {t1, t2}
    Conn = {c1, c2}
    Pid = {p1, p2}
    MaxRequestsPerProc = 2
    MaxIdleProc = 1
    Wanted = {1}
    Faults <- EveryFault
    SigpipeIgnored = FALSE
    SaRestart = TRUE
    RequestBound = 9
    NoThread = NoThread
    NoConn = NoConn
    NoPid = NoPid
    ForkError = ForkError
INVARIANTS
    TypeOK
    LeaseExclusive
    PidPairing
    Limits
    NoLeak
PROPERTIES
    GetReturns
    ManagerFollowsApp
    LendingSpec
CHECK_DEADLOCK FALSE
