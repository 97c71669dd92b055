CONSTANTS
    p1 = p1
    p2 = p2
    none = none
    NoPath = none
    Proc = {p1, p2}
    Commands <- MCCommands
    Kind <- MCKind
    Contents <- MCContents
    SourceFiles <- MCSourceFiles
    Program <- MCProgram
    Holds <- MCHolds
    Entries <- MCEntries
    JarNames <- MCJarNames
    Modules <- MCModules
    JarTool <- MCJarTool
    DefaultJre = "jre"
    DefaultTalmud = "talmud"
    Before <- MCBefore
    Unreliable <- MCUnreliable
SPECIFICATION Spec
INVARIANTS
    CleanExit
    JarIsOwn
PROPERTIES
    KeepsContract
