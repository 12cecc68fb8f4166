SPECIFICATION FairSpec
CONSTANTS
  MaxTime = 3
  MaxLen = 4
  ChunkSize = 2
  PoolSize = 2
  NoEntry = NoEntry
INVARIANTS
  TypeOK
  PositionCovers
  LeftOutAtBoundary
  PositionNotRaced
PROPERTIES
  PositionForward
  BatchEnds
