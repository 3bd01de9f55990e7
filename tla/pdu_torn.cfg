SPECIFICATION Spec
CONSTANTS
    HeadSize = 3
    DataSize <- Sizes
    Room = 4
    SizeValues = 16
    IntrBound = 0
INVARIANTS
    PositiveWhole
CHECK_DEADLOCK FALSE
