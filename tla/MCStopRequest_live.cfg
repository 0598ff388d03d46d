SPECIFICATION FairSpec
CONSTANTS
    Proc = {p1, p2}
    Stopper = {s1}
    Sem = {w1}
    NULL = NULL
    Cooperative = {p1}
    Patient = {p1}
    NoGrace = {}
    KillHolder = FALSE
PROPERTIES
    StopCompletes
    RequestHeard
    ContractFair
\* Every process may end and no stop need follow.
CHECK_DEADLOCK FALSE
