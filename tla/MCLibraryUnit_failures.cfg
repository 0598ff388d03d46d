SPECIFICATION Spec
CONSTANTS
    u1 = u1
    u2 = u2
    u3 = u3
    u4 = u4
    paired = paired
    plain = plain
    partial = partial
    Unit = {u1, u2, u3, u4}
    Module = {paired, plain, partial}
    exec <- Exec
    Paired = {paired}
    Partial = {partial}
    Value = {v1, v2}
    NULL = NULL
    Template = {u1, u3}
    Fails = {"refresh", "enable", "disable", "unload", "start", "stop"}
INVARIANTS
    FlagInv
    StatusTrue
PROPERTIES
    FreshValue
    OthersKeepRunning
