SPECIFICATION FairSpec
CONSTANTS
    tty1 = tty1
    card = card
    tty = tty
    mount = mount
    getty = getty
    log = log
    show = show
    tidy = tidy
    Device = {tty1, card}
    Mounts = {card}
    class <- Class
    Value = {v1}
    Boot = Boot
    NULL = NULL
    Template = {getty, log, show, tidy}
    source <- Source
    ruleSets <- RuleSets
    MaxLoads = 1
    brings <- Brings
    Broken = {show}
    OneShot = {tidy}
    Overlap = {}
INVARIANTS
    TypeOK
    NothingMissed
    GoneIsGone
    RemovalWaits
    OneProcess
PROPERTY
    RemovalCompletes
