CONSTANTS
    Head = 8
    Size = 12
    Sizes = {1, 3, 4}
    Alignments = {1, 4, 8}
    Limit = 22
SPECIFICATION Spec
INVARIANTS TypeOK Disjoint InBuffer
CHECK_DEADLOCK FALSE
