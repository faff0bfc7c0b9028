SPECIFICATION AllSpec
CONSTANTS
  Tabs = {"t1", "t2"}
  ConnStates = {"connected", "disconnected"}
  MaxNonce = 1
  MaxGeneration = 2
  MaxQueue = 1
CHECK_DEADLOCK FALSE
INVARIANTS
  LayoutIsSound
  RestartKeepsLayout
  DropAsShown
PROPERTIES
  FocusFollowsClosing
  
