CONSTANTS
  Keys = {"k1", "dummy"}
  Unfit = {"long"}
  NoKey = "nokey"
  Supported = {"ECB", "CTR", "CTS", "XTS", "HMAC", "SHA"}
  BlockSize = 3
  MaxChunk = 8
  MaxData = 15
  DummyKey = "dummy"
SPECIFICATION Spec
INVARIANTS
  TypeOK
  StreamInOrder
  OneKey
  BufferHolds
  FeedingSucceeds
  AesClientServed
