SPECIFICATION Spec
CONSTANTS
  Payload = {65, 66}
  MaxLength = 3
  MaxChunk = 4
  MaxChunks = 3
  MaxTail = 1
INVARIANTS
  TypeOK
  EveryArrayHasOneOwner
  FloodsAreReported
PROPERTIES
  SplitsTheStream
CHECK_DEADLOCK FALSE
