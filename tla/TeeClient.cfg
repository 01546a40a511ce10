CONSTANTS
    t1 = t1
    t2 = t2
    Task = {t1, t2}
    NoTask = NoTask
    Id = {s1, s2}
    NULL = NULL
    Program <- MCProgram
    HeaderLen = 1
    ArgLen <- MCArgLen
    Align = 2
    WindowSize = 10
    ShmLimit = 2
SPECIFICATION Spec
INVARIANTS
    TypeOK
    OwnAnswer
    NoOverrun
    AreasInWindow
    Returned
    OneApplication
PROPERTIES
    TaskFinishes
