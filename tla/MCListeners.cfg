SPECIFICATION ListenersSpec
CONSTANTS
  MaxReports = 2
  MaxListeners = 3
  Minima = {0, 2}
INVARIANTS
  ListenersTypeOK
  HeardByThoseRegistered
  PrintedOnce
  MessagesInOrder
PROPERTIES
  CallsReturn
CHECK_DEADLOCK FALSE
