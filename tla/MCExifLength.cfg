CONSTANTS
    Payloads <- MCPayloads
    LengthBits = 3
SPECIFICATION Spec
INVARIANTS
    NeverTruncated
