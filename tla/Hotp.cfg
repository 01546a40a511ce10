CONSTANTS
  t1 = t1
  t2 = t2
  t3 = t3
  Tasks <- MCTasks
  KeyOf <- MCKeyOf
  NoTask = NoTask
  Keys = {"k1", "k2"}
  Unfit = {"short"}
  NoKey = "nokey"
  Supported = {"CTR", "HMAC", "SHA"}
  BlockSize = 2
  MaxChunk = 4
  Base = 2
  Width = 2
  NCodes = 5
SPECIFICATION Spec
INVARIANTS
  TypeOK
  CounterCounts
  OwnCodes
