CONSTANTS
    Conditions <- MCConditions
    Depth <- MCDepth
    Statements <- SoundStatements
    Values <- MCValues
    JumpSpan = 65536

SPECIFICATION Spec
CHECK_DEADLOCK FALSE

INVARIANTS
    LandsOnInstruction
    BodyHasItsCondition
    ShortCircuits
