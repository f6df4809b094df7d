CONSTANTS
    Depth = 45
    Height = 30
    Inputs <- ProgramInputs
SPECIFICATION Spec
INVARIANTS TypeOK StackSuffices JumpsPlaced PrintReadsWhatWasWritten StopsAtEof OnlyLeadingAssignFaults
INVARIANTS BalancedOnAccept OperandsKept ExprMatchesGrammar
CHECK_DEADLOCK FALSE
