\* A window of two panes, of which one may be zoomed.
SPECIFICATION Spec
CONSTANTS
  None = None
  p1 = p1
  p2 = p2
  Panes = {p1, p2}
  Width = 3
  Arrangements <- SplitAndZoomed
  Scenarios <- Typing
  MaxTyped = 4
  PrintedCells = {0, 1}
  WideOutput = FALSE
INVARIANTS
  ScreenShowsComposition
  NoSecretShown
  CacheIsWhatWasSent
  FrontendFollowsLayout
  PredictionHasFocus
CHECK_DEADLOCK FALSE
