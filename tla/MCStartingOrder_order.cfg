SPECIFICATION FairSpec
CONSTANTS
    Unit = {u1, u2, u3}
    Deps <- AllGraphs
    Older = 1
INVARIANTS
    PassInv
    Converges
    DependenciesFirst
    OrderIsLeast
PROPERTY
    Terminates
\* Resolving ends once the registry is sorted.
CHECK_DEADLOCK FALSE
