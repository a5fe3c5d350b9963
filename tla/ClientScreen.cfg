SPECIFICATION SessionSpec
CONSTANTS
  Pids = {1}
  OtherPids = {}
  UnsetPids = {9}
  FdLimit = 4
  PipeCap = 2
  AtomicWrite = 1
  ReadCap = 2
  CR <- MCCR
  LF <- MCLF
  Query <- MCQuery
  Bytes <- MCBytes
  Messages <- MCMessages
  MaxWrites = 2
  MaxAyt = 3
  StatusPeriod = 2
  PingPeriod = 1
  SockCap = 3
  InCap = 2
  MaxTyped = 0
INVARIANTS
  SessionTypeOK
  ScreenWhole
CHECK_DEADLOCK FALSE
