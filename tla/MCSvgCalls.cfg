CONSTANTS
    Documents <- MCDocuments
    Bounds <- MCBounds
    OutputBudgets <- MCOutputBudgets
SPECIFICATION Spec
INVARIANTS
    TypeOK
    RendererSeesOnlySafe
    NoFileFallback
    ReasonIsFirstUnsafe
    ImageFits
    CancelLatency
PROPERTIES
    ImplementsContract
    Returns
