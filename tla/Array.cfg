CONSTANTS
    Values = {a, b}
    Junk = Junk
    Capacity = 2
    Counts = {0, 1, 2}
    MaxLength = 7
SPECIFICATION Spec
INVARIANTS TypeOK
PROPERTY ImplementsSequence
CHECK_DEADLOCK FALSE
