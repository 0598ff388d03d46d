SPECIFICATION Spec
CONSTANTS
    Pid = {p1, p2, p3}
    Caller = {c1}
    NULL = NULL
    Settings <- StrayExits
SYMMETRY Symmetry
INVARIANT
    StopSticks
