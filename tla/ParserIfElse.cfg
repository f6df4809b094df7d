CONSTANTS
    Depth = 45
    Height = 30
    Inputs <- IfElseInputs
SPECIFICATION Spec
INVARIANTS AlternativeKeepsBlock
CHECK_DEADLOCK FALSE
