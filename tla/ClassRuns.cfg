CONSTANTS
    Classes <- MCClasses
    Tokens <- MCTokens
    Cuts <- MCCuts
    Stale <- MCStale
SPECIFICATION Spec
INVARIANTS
    ReadsWhatWasDeclared
    FormatKept
