CONSTANTS
    Payloads <- MCPayloads
    LengthBits = 16
SPECIFICATION Spec
INVARIANTS
    TypeOK
    PositionWhole
    BestEffort
