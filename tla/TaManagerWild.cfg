CONSTANTS
    Block = {b1, b2, b3, b4, b5}
    NULL = NULL
    hello = hello
    aes = aes
    hotp = hotp
    bare = bare
    nobody = nobody
    Uuid <- MCUuid
    PseudoTA <- MCPseudoTA
    UserTA <- MCUserTA
    StatefulTA <- MCStatefulTA
    NoOpenTA <- MCNoOpenTA
    WildIds = TRUE
SYMMETRY BlockSymmetry
SPECIFICATION Spec
PROPERTIES
    ImplementsService
