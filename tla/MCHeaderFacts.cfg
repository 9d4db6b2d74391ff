CONSTANTS
    Files <- MCFiles
    LimitSets <- MCLimitSets
    Bounds <- MCBounds
SPECIFICATION Spec
INVARIANTS
    SameHeaderFacts
