SPECIFICATION SessionSpec
CONSTANTS
  Pids = {1}
  OtherPids = {}
  UnsetPids = {9}
  FdLimit = 4
  PipeCap = 2
  AtomicWrite = 1
  ReadCap = 2
  CR <- MCCR
  LF <- MCLF
  Query <- MCQuery
  Bytes <- MCBytes
  Messages <- MCMessages
  MaxWrites = 0
  MaxAyt = 3
  StatusPeriod = 2
  PingPeriod = 1
  SockCap = 2
  InCap = 3
  MaxTyped = 2
INVARIANTS
  KeysInOrder
PROPERTIES
  GoneClientReleasesServer
CHECK_DEADLOCK FALSE
