CONSTANTS
    Blocks = {b1, b2, b3, b4}
    NULL = NULL
    MayFreeFirst = FALSE
    MayReuse = FALSE
SPECIFICATION Spec
INVARIANTS TypeOK NoFreedAccess TracksAtMostTwo
PROPERTY ClearEnds
CHECK_DEADLOCK FALSE
