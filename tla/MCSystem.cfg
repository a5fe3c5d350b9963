SPECIFICATION SystemSpec
CONSTANTS
  Clients = {c1, c2}
  NoClient = NoClient
  MaxFds = 8
  Backlog = 1
INVARIANTS
  SystemTypeOK
  OneProgram
PROPERTIES
  SystemAccepts
  ConnectionsReleased
  ClientsServedInTurn
CHECK_DEADLOCK FALSE
