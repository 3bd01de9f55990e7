SPECIFICATION FairSpec
CONSTANTS
    d1 = d1
    r1 = r1
    c1 = c1
    Caller = {d1}
    Req = {r1}
    Conn = {c1}
    MaxProc = 1
    MaxRequestsPerProc = 2
    MaxIdleProc = 1
    HupIn = {TRUE}
    SigpipeIgnored = {FALSE}
    Faults = {"worker_exit"}
    NoConn = NoConn
    NoReq = NoReq
    Torn = Torn
INVARIANT ReplyOrError
CHECK_DEADLOCK FALSE
