SPECIFICATION Spec
CONSTANTS
    Proc = {p1, p2}
    Stopper = {s1, s2}
    Sem = {w1, w2}
    NULL = NULL
    Cooperative = {p1}
    Patient = {}
    NoGrace = {p2}
    KillHolder = TRUE
SYMMETRY Symmetry
INVARIANTS
    IInv
    EntryWatched
    RequestSticks
    NoLostWakeup
    PostsOnlyLive
\* Every process may end and no stop need follow.
CHECK_DEADLOCK FALSE
