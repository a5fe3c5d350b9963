SPECIFICATION MessagesSpec
CONSTANTS
  Objects = {m1, m2, m3}
  Blocks = {b1, b2, b3}
  NULL = NULL
  MaxLen = 2
  Numbers = {0, 128, 383}
  Vectors <- MCVectors
INVARIANTS
  MessagesTypeOK
  BlocksOwnedOnce
PROPERTIES
  MessagesAreValues
CHECK_DEADLOCK FALSE
