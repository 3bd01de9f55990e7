SPECIFICATION FairSpec
CONSTANTS
    d1 = d1
    s1 = s1
    s2 = s2
    s3 = s3
    j1 = j1
    j2 = j2
    j3 = j3
    Caller = {d1}
    Slot = {s1, s2, s3}
    Job = {j1, j2, j3}
    MaxThreads = 2
    CreateFails = FALSE
    TotalBound = 9
    NoCaller = NoCaller
    NoSlot = NoSlot
    NoJob = NoJob
INVARIANT LoneSafe
PROPERTIES CallReturns JobsFinish DeleteEnds JobPoolSpec
CHECK_DEADLOCK FALSE
