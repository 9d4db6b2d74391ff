CONSTANTS
    Budgets <- MCBudgets
    BufferSize = 3
    MaxContent = 7
SPECIFICATION Spec
INVARIANTS
    TypeOK
    WithinBudget
    WholeDocument
    RefusalJustified
    CancelLatency
PROPERTIES
    ImplementsContract
    Returns
