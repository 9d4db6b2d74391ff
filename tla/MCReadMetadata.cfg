CONSTANTS
    Files <- MCFiles
    LimitSets <- MCLimitSets
    ChunkBytes = 4
    GrowBytes = 3
SPECIFICATION Spec
INVARIANTS
    TypeOK
    WholeBlock
    FindsFirstExif
    CancelLatency
PROPERTIES
    ImplementsContract
    Returns
