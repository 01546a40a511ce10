CONSTANTS
    t1 = t1
    t2 = t2
    Task = {t1, t2}
    NoTask = NoTask
    Id = {s1, s2}
    NULL = NULL
    Program <- MCProgramD
    HeaderLen = 1
    ArgLen <- MCArgLen
    Align = 2
    WindowSize = 10
    ShmLimit = 2
SPECIFICATION Spec
INVARIANTS
    OpenSuccessIsSession
