\* One client of a window of two panes: hand-offs, output, history, failures.
SPECIFICATION Spec
CONSTANTS
  None = None
  p1 = p1
  p2 = p2
  p3 = p3
  Panes = {p1, p2}
  Conns = {k1}
  Rows = {1, 2}
  Views <- SplitViews
  SessionOf <- OneSession
  Budgets <- Scenarios
INVARIANTS
  LeaseHasOneOwner
  BuffersAccountedFor
  ChainUnbroken
  PictureFollowsPane
\* What comes from outside is used up.
CHECK_DEADLOCK FALSE
