SPECIFICATION FairSpec
CONSTANTS
  Names = {n1, n2}
  Positions = {p1}
  Callers = {c1, c2}
  NoState = NoState
  NoFile = NoFile
  Torn = Torn
  MaxUpdates = 2
  SaveCap = 1
  MaxLog = 4
  MaxFaults = 1
INVARIANTS
  TypeOK
  FileIsPrefix
  MemoryIsPrefix
  DirtyCount
  LossWindow
  FinalFlush
PROPERTIES
  ImplementsDurableLog
  EventuallyDurable
  ShutdownReturns
  CallsReturn
