CONSTANTS
    Heads = {h1, h2}
    Nodes = {h1, h2, m1, m2, m3, m4}
    NULL = NULL
    KeepHeads = TRUE
SPECIFICATION Spec
INVARIANTS TypeOK Circular OneHead
PROPERTIES ImplementsLists CallsDoAsNamed ClearEnds
CHECK_DEADLOCK FALSE
