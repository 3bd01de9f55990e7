SPECIFICATION Spec
CONSTANTS
    d1 = d1
    d2 = d2
    s1 = s1
    s2 = s2
    s3 = s3
    j1 = j1
    j2 = j2
    j3 = j3
    Caller = {d1, d2}
    Slot = {s1, s2, s3}
    Job = {j1, j2, j3}
    MaxThreads = 2
    CreateFails = TRUE
    TotalBound = 4
    NoCaller = NoCaller
    NoSlot = NoSlot
    NoJob = NoJob
SYMMETRY Symmetry
INVARIANTS TypeOK JobOnce FullSound DestructorSafe
CHECK_DEADLOCK FALSE
