SPECIFICATION Spec
CONSTANTS
  MaxRead = 2
  RecordsCap = 1
  NoPosition = NoPosition
  MaxEvents = 3
  MaxTime = 2
  MaxLag = 2
  MaxCrashes = 1
PROPERTIES
  SentOnce
