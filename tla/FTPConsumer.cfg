SPECIFICATION FairSpec
CONSTANTS
  Consumers = {f1, f2}
  Keep = 2
  MaxRecords = 1
  MaxLong = 1
  MaxFaults = 1
INVARIANTS
  TypeOK
  RecordKept
PROPERTIES
  ArchiveUploaded
CHECK_DEADLOCK FALSE
