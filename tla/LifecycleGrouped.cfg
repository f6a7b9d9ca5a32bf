\* A session and its mirror sharing two windows.
SPECIFICATION Spec
CONSTANTS
  None = None
  Clients = {c1, c2}
  Conns = {k1, k2}
  s1 = s1
  s2 = s2
  s3 = s3
  w1 = w1
  w2 = w2
  Sessions = {s1, s2}
  Windows = {w1, w2}
  WindowsOf <- GroupedWindows
  MaxGrants = 1
  MaxRevision = 2
  MaxMail = 1
SYMMETRY GroupedSymmetry
INVARIANTS
  AssignmentAgrees
  ConnectionsTakeTurns
\* Every connection may have come and gone.
CHECK_DEADLOCK FALSE
