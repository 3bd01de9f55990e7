SPECIFICATION Spec
CONSTANTS
    w1 = w1
    w2 = w2
    Proc = {w1, w2}
    ArgMinIdle = 0
    ArgMaxIdle = 0
    ArgMaxProc = 2
    MaxRequestsPerProc = 3
    LockKind = "file"
    ArgThreads = 2
    Faults <- EveryFault
    ConnectBound = 3
    DeathBound = 1
    NoProc = NoProc
INVARIANT LastWord
CHECK_DEADLOCK FALSE
