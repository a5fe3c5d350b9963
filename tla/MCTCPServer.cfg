SPECIFICATION ServerSpec
CONSTANTS
  Clients = {c1, c2, c3}
  NoClient = NoClient
  MaxFds = 8
  Backlog = 1
INVARIANTS
  ServerTypeOK
  ServesItsPort
  DescriptorLeft
  EventsInOrder
  ShutdownHeard
PROPERTIES
  OneClientAtATime
  WaitingClientServed
CHECK_DEADLOCK FALSE
