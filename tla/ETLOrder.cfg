SPECIFICATION Spec
CONSTANTS
  Threads = 1
  MaxCount = 2
  EtlCap = 2
  XmlCap = 2
  EventsCap = 2
  None = None
  MaxFiles = 2
  MaxJobs = 1
  MaxCrashes = 0
  MaxFaults = 0
INVARIANTS
  OrderKept
CHECK_DEADLOCK FALSE
