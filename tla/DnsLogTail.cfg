SPECIFICATION FairSpec
CONSTANTS
  Jobs = {j1, j2}
  NoJob = NoJob
  MaxRead = 2
  PacketsCap = 1
  RecordsCap = 1
  MaxPackets = 3
  Consumers = {syslog, ftp}
  Nil = Nil
INVARIANTS
  TypeOK
  EachPacketOnce
PROPERTIES
  ImplementsFanOut
  PacketsHandled
CHECK_DEADLOCK FALSE
