SPECIFICATION Spec
CONSTANTS
  Names <- NamesDef
  HashOf <- HashDef
  PutNames <- PutNamesDef
  RankOf <- RankDef
  Chunks <- ChunksDef
  StringChunks <- StringChunksDef
  MaxString = 2
  MaxNumber = 2
  MaxVals = 3
  MaxHeight = 2
  DoubleDigits = 3
  DBL_DIG = 2
  MaxWork = 12
CHECK_DEADLOCK FALSE
INVARIANTS
  TypeOK
  RefExact
  StackChain
  ObjectsSound
  EqualExact
  RoundTrip
PROPERTIES
  FinishVerdict
