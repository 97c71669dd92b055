CONSTANTS
    Corpora <- MCCorpora
    IntSpan = 65536
SPECIFICATION Spec
INVARIANTS
    SourceKept
    EndNoticed
    NumbersTrue
PROPERTIES
    MovesOn
