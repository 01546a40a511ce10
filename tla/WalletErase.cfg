CONSTANTS
  Block = {b1, b2, b3}
  NULL = NULL
  ListHead = ListHead
  Keys = {k1, k2}
  NoKey = NoKey
  Others = {}
  Shortage = FALSE
SPECIFICATION Spec
PROPERTY
  EraseErases
