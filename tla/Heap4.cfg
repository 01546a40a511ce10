CONSTANTS
  Base = 3
  Total = 28
  Align = 2
  StructSize = 2
  Word = 64
  Lengths = {0, 1, 3, 5, 13, 17, 40}
  Hints = {"zero", "invalid"}
SPECIFICATION Spec
INVARIANTS
  TypeOK
  EachByteInOneBlock
  Coalesced
  FreeBytesExact
PROPERTIES
  ImplementsAllocator
