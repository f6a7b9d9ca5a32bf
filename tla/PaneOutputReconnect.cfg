\* A client that moves between two panes and reconnects, under the fairness of the goroutines.
SPECIFICATION FairSpec
CONSTANTS
  None = None
  p1 = p1
  p2 = p2
  p3 = p3
  Panes = {p1, p2}
  Conns = {k1, k2}
  Rows = {1}
  Views <- LoneViews
  SessionOf <- OneSession
  Budgets <- Reconnections
INVARIANTS
  VisiblePaneHasLease
PROPERTIES
  HandoffCompletes
  DeadLeaseIsDropped
\* What comes from outside is used up.
CHECK_DEADLOCK FALSE
