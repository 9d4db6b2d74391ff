CONSTANTS
    a = a
    b = b
    doc = doc
    Paths <- MCPaths
    Owned <- MCOwned
    MaxEdits = 2
SPECIFICATION Spec
INVARIANTS
    EditsPreserved
