SPECIFICATION Spec
CONSTANTS
  Threads = 2
  MaxCount = 3
  EtlCap = 1
  XmlCap = 2
  EventsCap = 1
  None = None
  MaxFiles = 4
  MaxJobs = 1
  MaxCrashes = 0
  MaxFaults = 0
INVARIANTS
  TurnComes
CHECK_DEADLOCK FALSE
