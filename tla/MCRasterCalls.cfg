CONSTANTS
    Files <- MCFiles
    LimitSets <- MCLimitSets
    Bounds <- MCBounds
SPECIFICATION Spec
INVARIANTS
    TypeOK
    SuccessWithinLimits
    PromisedSize
    InspectForetellsDecode
    CancelLatency
PROPERTIES
    ImplementsContract
    Returns
