SPECIFICATION Spec
CONSTANTS
    cardA = cardA
    cardB = cardB
    empty = empty
    f1 = f1
    f2 = f2
    a1 = a1
    a2 = a2
    b1 = b1
    r1 = r1
    r2 = r2
    r3 = r3
    Root = Root
    Firmware = Firmware
    unitsIn <- Units
    templatesIn <- Templates
    rulesIn <- Rules
    requires <- Requires
    Broken = {f1}
    Stubborn = {a2}
    Mount = {cardA, cardB, Root, empty}
    prefix <- Prefix
    Called = {b1}
    Overlap = {"mount", "call"}
    MaxLoads = 3
INVARIANTS
    TypeOK
    UniqueNames
    RulesFollowDirs
    Tracked
    RunsOnce
    AllStarted
    NoDangling
PROPERTY
    DependencyOrder
