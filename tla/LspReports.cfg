SPECIFICATION Spec
CONSTANTS
    unused = unused
    missing = missing
    lexical = lexical
    syntax = syntax
    symbol = symbol
    member = member
    body = body
    Diag <- MCDiag
    Warnings <- MCWarnings
    Startup <- MCStartup
    Docs <- MCDocs
    HeaderBlocks <- MCHeaderBlocks
    MaxRequests = 3
    NoFile = NoFile
INVARIANTS
    FileIdsValid
    ForeignHasCause
    CompleteReport
PROPERTIES
    EveryRequestDisposed
CHECK_DEADLOCK TRUE
