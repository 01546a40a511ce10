CONSTANTS
  Block = {b1, b2, b3, b4}
  NULL = NULL
  ListHead = ListHead
  Keys = {k1, k2, k3}
  NoKey = NoKey
  Others = {"ta2"}
  Shortage = TRUE
SPECIFICATION Spec
SYMMETRY Symmetric
INVARIANTS
  TypeOK
  ListIsStore
PROPERTY
  ImplementsKeyStore
