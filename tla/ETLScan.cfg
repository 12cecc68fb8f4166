SPECIFICATION FairSpec
CONSTANTS
  MaxRead = 2
  RecordsCap = 1
  NoPosition = NoPosition
  MaxEvents = 3
  MaxTime = 2
  MaxLag = 1
  MaxCrashes = 1
INVARIANTS
  TypeOK
  NothingSkipped
PROPERTIES
  ResendsOnlyTies
  PositionForward
  EventuallyGiven
