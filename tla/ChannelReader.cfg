SPECIFICATION FairSpec
CONSTANTS
  MaxRead = 2
  IgnoreOlder = 0
  RecordsCap = 1
  NoPosition = NoPosition
  MaxEvents = 3
  MaxTime = 2
  MaxLag = 1
  MaxFaults = 1
  MaxCrashes = 1
INVARIANTS
  TypeOK
  NothingSkipped
PROPERTIES
  SentInOrder
  EventuallyRead
CHECK_DEADLOCK FALSE
