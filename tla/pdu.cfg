SPECIFICATION FairSpec
CONSTANTS
    HeadSize = 3
    DataSize <- Sizes
    Room = 4
    SizeValues = 16
    IntrBound = 2
INVARIANTS
    Framed
PROPERTIES
    Returns
CHECK_DEADLOCK FALSE
