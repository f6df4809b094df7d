CONSTANTS
    Depth = 45
    Height = 30
    Inputs <- LogicalInputs
SPECIFICATION Spec
INVARIANTS LogicalOperatorsParse
CHECK_DEADLOCK FALSE
