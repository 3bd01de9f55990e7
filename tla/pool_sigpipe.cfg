SPECIFICATION FairSpec
CONSTANTS
    t1 = t1
    t2 = t2
    c1 = c1
    c2 = c2
    p1 = p1
    p2 = p2
    Thread = {t1, t2}
    Conn = {c1, c2}
    Pid = {p1, p2}
    MaxRequestsPerProc = 2
    MaxIdleProc = 1
    Wanted = {1}
    Faults = {"app_exit"}
    SigpipeIgnored = TRUE
    SaRestart = TRUE
    RequestBound = 9
    NoThread = NoThread
    NoConn = NoConn
    NoPid = NoPid
    ForkError = ForkError
PROPERTY ManagerFollowsApp
CHECK_DEADLOCK FALSE
