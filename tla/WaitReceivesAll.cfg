SPECIFICATION Spec
CONSTANTS
  Pids = {1, 2}
  OtherPids = {2}
  UnsetPids = {0, 1, 9}
  FdLimit = 10
  PipeCap = 2
  AtomicWrite = 1
  ReadCap = 1
  CR = "CR"
  LF = "LF"
  Query = "?"
  Bytes = {"k", "CR", "LF", "?"}
  Messages <- MCMessages
  MaxWrites = 2
INVARIANT
  WaitReceivesAll
CHECK_DEADLOCK FALSE
