CONSTANTS
    a = a
    b = b
    doc = doc
    Paths <- MCPaths
    Owned <- MCOwned
    MaxEdits = 2
SPECIFICATION Spec
INVARIANTS
    TypeOK
    OthersUntouched
    FailureLeavesTree
    NothingLost
    QuietRunFormats
