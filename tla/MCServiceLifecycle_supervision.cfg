SPECIFICATION FairSpec
CONSTANTS
    Pid = {p1, p2, p3}
    Caller = {c1}
    NULL = NULL
    Settings <- Supervision
INVARIANTS
    TypeOK
    StatusTrue
    Supervised
    StopSticks
PROPERTIES
    AnswersTrue
    RestartHonoured
