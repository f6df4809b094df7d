CONSTANTS
    Blocks = {b1, b2, b3, b4, b5, b6, b7}
    NULL = NULL
    Capacity = 1
    Header = 1
    StreamRoom = 13
    NodeRoom = 2
    MaxTokens = 5
    MaxText = 5
    MaxNodes = 2
SPECIFICATION Spec
SYMMETRY Symmetry
INVARIANTS TypeOK NothingDangles NothingLeaks ShutdownReleases StreamCost StreamFits
PROPERTY ImplementsMalloc
CHECK_DEADLOCK FALSE
