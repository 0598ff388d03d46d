SPECIFICATION Spec
CONSTANTS
    Char <- Symbols
    NONE = NONE
    Inputs <- All
    Numbers <- Read
INVARIANTS
    Fits
    UnitsRight
    ReportsRight
CHECK_DEADLOCK FALSE
