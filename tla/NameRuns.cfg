SPECIFICATION Spec
CONSTANTS
    Programs <- MCPrograms
    DefaultImports <- MCDefaultImports
    Talmud <- MCTalmud
    Aliases <- MCAliases
INVARIANTS
    BindingsAlive
    MeaningKept
    BlamedForLaterFiles
PROPERTIES
    SourceMembersKept
