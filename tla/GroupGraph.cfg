\* A session and its mirror, two clients, three windows, three panes.
SPECIFICATION Spec
CONSTANTS
  None = None
  s1 = s1
  s2 = s2
  Base = s1
  Sessions = {s1, s2}
  Clients = {c1, c2}
  MaxWindow = 3
  MaxPane = 3
  KillPanes = {1}
  MaxVisiblePanes = 2
SYMMETRY Symmetry
INVARIANTS
  GroupSeesOneGraph
  ClientShowsItsLease

  
CHECK_DEADLOCK FALSE
