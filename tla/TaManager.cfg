CONSTANTS
    Block = {b1, b2, b3, b4, b5, b6}
    NULL = NULL
    hello = hello
    aes = aes
    hotp = hotp
    bare = bare
    nobody = nobody
    Uuid <- MCUuid
    PseudoTA <- MCPseudoTA
    UserTA <- MCUserTA
    StatefulTA <- MCStatefulTA
    NoOpenTA <- MCNoOpenTA
    WildIds = FALSE
SYMMETRY BlockSymmetry
SPECIFICATION Spec
INVARIANTS
    TypeOK
    HeapAccounts
    OneCtxPerSession
    OwnSessionData
    RunningIsCurrent
    NoFault
PROPERTIES
    EndsOnlyByClose
    OpenAnswerIsFresh
    ImplementsService
