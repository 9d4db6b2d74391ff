CONSTANTS
    Extents <- MCExtents
SPECIFICATION Spec
INVARIANTS
    TypeOK
    FitsAndNeverUpscales
    AspectKept
    DecodersAgree
