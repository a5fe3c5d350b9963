SPECIFICATION SessionSpec
CONSTANTS
  Pids = {1}
  OtherPids = {}
  UnsetPids = {9}
  FdLimit = 4
  PipeCap = 5
  AtomicWrite = 1
  ReadCap = 2
  CR <- MCCR
  LF <- MCLF
  Query <- MCQuery
  Bytes <- MCBytes
  Messages <- MCMessages
  MaxWrites = 0
  MaxAyt = 3
  StatusPeriod = 2
  PingPeriod = 1
  SockCap = 3
  InCap = 4
  MaxTyped = 2
INVARIANT
  InputTransferred
CHECK_DEADLOCK FALSE
