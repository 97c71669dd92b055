CONSTANTS
    Conditions <- MCVariableConditions
    Depth <- MCDepth
    Statements <- VariableIfs
    Values <- BooleanValues
    JumpSpan = 65536

SPECIFICATION Spec
CHECK_DEADLOCK FALSE

INVARIANTS
    TrueReachesTheExpression
