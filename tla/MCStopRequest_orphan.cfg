SPECIFICATION FairSpec
CONSTANTS
    Proc = {p1, p2}
    Stopper = {s1}
    Sem = {w1}
    NULL = NULL
    Cooperative = {p1}
    Patient = {}
    NoGrace = {p2}
    KillHolder = TRUE
PROPERTY
    StopCompletes
CHECK_DEADLOCK FALSE
