\* Three panes in a window of two sizes.
SPECIFICATION Spec
CONSTANTS
  None = None
  MaxPane = 3
  MaxVisiblePanes = 3
  WindowSizes <- MCSizes
  Amounts = {2}
INVARIANTS
  LayoutIsPartition
  RemovalUndoesSplit
  DirectionsFollowGeometry
  
CHECK_DEADLOCK FALSE
