SPECIFICATION Spec
CONSTANTS
  Names = {n1}
  Positions = {p1}
  Callers = {c1, c2}
  NoState = NoState
  NoFile = NoFile
  Torn = Torn
  MaxUpdates = 1
  SaveCap = 1
  MaxLog = 3
  MaxFaults = 1
SYMMETRY Symmetry
INVARIANTS
  ShutdownFlushesAll
