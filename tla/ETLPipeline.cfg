SPECIFICATION FairSpec
CONSTANTS
  Threads = 2
  MaxCount = 0
  EtlCap = 1
  XmlCap = 1
  EventsCap = 1
  None = None
  MaxFiles = 3
  MaxJobs = 2
  MaxCrashes = 1
  MaxFaults = 1
INVARIANTS
  TypeOK
  CountAccounts
  NoOrphan
  OvertakesOnlySending
  CopyKept
PROPERTIES
  LeavesList
CHECK_DEADLOCK FALSE
