SPECIFICATION FairSpec
CONSTANTS
    w1 = w1
    w2 = w2
    w3 = w3
    Proc = {w1, w2, w3}
    ArgMinIdle = 0
    ArgMaxIdle = 0
    ArgMaxProc = 2
    MaxRequestsPerProc = 2
    LockKind = "file"
    Faults <- EveryFault
    ConnectBound = 3
    DeathBound = 1
    NoProc = NoProc
INVARIANTS
    TypeOK
    CountExact
    Workforce
    IdleHonest
PROPERTIES
    AllAccepted
CHECK_DEADLOCK FALSE
