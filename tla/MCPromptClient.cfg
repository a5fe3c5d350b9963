SPECIFICATION PromptSpec
CONSTANTS
  Pids = {1}
  OtherPids = {}
  UnsetPids = {9}
  FdLimit = 4
  PipeCap = 2
  AtomicWrite = 1
  ReadCap = 2
  CR <- MCCR
  LF <- MCLF
  Query <- MCQuery
  Bytes <- MCBytes
  Messages <- MCMessages
  MaxWrites = 1
  MaxAyt = 4
  Prompt = 2
  StatusPeriod = 2
  PingPeriod = 1
  SockCap = 3
  InCap = 3
  MaxTyped = 1
INVARIANTS
  PromptClientKept
CHECK_DEADLOCK FALSE
