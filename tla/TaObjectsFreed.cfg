SPECIFICATION Spec
CONSTANTS
    b1 = b1
    b2 = b2
    b3 = b3
    p1 = p1
    p2 = p2
    NULL = NULL
    ListHead = ListHead
    Block <- MCBlock
    Op <- MCOp
    FreesKeys = TRUE
    Shortage = TRUE
    MaxElems = 2
SYMMETRY Symmetry
INVARIANT KeysClaimed
PROPERTY ObjectsEndWithOwner
