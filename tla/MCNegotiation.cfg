SPECIFICATION NegotiationSpec
CONSTANTS
  Letters = {"v", "t", "q"}
  Keys = {"q"}
  Limit = 2
  MaxTyped = 1
  Name <- MCName
INVARIANTS
  NegotiationTypeOK
  TypeIsClients
  RequestedOnce
  PromptClientNamed
PROPERTY
  NegotiationEnds
CHECK_DEADLOCK FALSE
