SPECIFICATION RendererSpec
CONSTANTS
  MaxDepth = 3
  UserKeys = {"up", "down", "enter"}
  PipeCap = 5
  AtomicWrite = 3
  MaxInputs = 4
INVARIANTS
  RendererTypeOK
  MenuFollowsKeys
  OverflowNeedsChoices
PROPERTIES
  WalksThroughMenus
  InputIsRead
CHECK_DEADLOCK FALSE
