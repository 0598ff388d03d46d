SPECIFICATION Spec
CONSTANTS
    Char <- Symbols
    NONE = NONE
    Inputs <- Percent
    Numbers <- Read
INVARIANTS
    PercentKept
CHECK_DEADLOCK FALSE
