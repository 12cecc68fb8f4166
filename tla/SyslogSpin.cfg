SPECIFICATION FairSpec
CONSTANTS
  MaxTime = 3
  MaxLen = 2
  ChunkSize = 2
  PoolSize = 2
  NoEntry = NoEntry
PROPERTIES
  BatchAlwaysEnds
