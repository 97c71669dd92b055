SPECIFICATION Spec
CONSTANTS
    File <- MCFile
    Class <- MCClass
    DeclId <- MCDeclId
    Name <- MCName
    Notation <- MCNotation
    Widens <- MCWidens
    Programs <- AllPrograms
    Bereshit = "Bereshit"
    MainName = "main"
    StringArray = "String[]"
    External = "external"
    NoFile = "no file"
    NoClass = "no class"
    NoDecl = 0
INVARIANTS
    ExternalContractKept
    SignatureFound
    LostOnlyByCollision
    BoundToNearest
    BereshitIsMain
PROPERTIES
    BlameHasCause
    AnswersUnlessCyclicOrColliding
