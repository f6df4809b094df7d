CONSTANTS
    Depth = 45
    Height = 30
    Inputs <- NegateInputs
SPECIFICATION Spec
INVARIANTS NegateHasOperand
CHECK_DEADLOCK FALSE
