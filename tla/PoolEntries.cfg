CONSTANTS
    Types <- AllTypes
    IndexSpan = 36
    LdcSpan = 30
    MaxCount = 35
    Garbage = {0, 30}
    NodesOf <- TreeOf

SPECIFICATION Spec
CHECK_DEADLOCK FALSE

INVARIANTS
    SlotsDisjoint
    ReferencesResolve
    LoadsNameTheirConstant
    OnlyHiddenMiss
