SPECIFICATION Spec
CONSTANTS
  Byte = {0, 1}
  Zero = 0
  kCheapPrepend = 2
  kInitialSize = 2
  ExtraSize = 2
  MaxChunk = 3
  MaxSize = 7
INVARIANTS
  NoAssertFails
  TypeOK
PROPERTY
  ImplementsByteQueue
