\* One session of two windows: two clients take it over, resume and select, under the
\* fairness of the goroutines.
SPECIFICATION FirstWindowSpec
CONSTANTS
  None = None
  Clients = {c1, c2}
  Conns = {k1, k2}
  s1 = s1
  s2 = s2
  s3 = s3
  w1 = w1
  w2 = w2
  Sessions = {s1}
  Windows = {w1, w2}
  WindowsOf <- OneSession
  MaxGrants = 1
  MaxRevision = 3
  MaxMail = 1
INVARIANTS
  SettledViewIsCanonical
PROPERTIES
  AdmissionIsDecided
  TerminalClientLeaves
\* Every connection may have come and gone.
CHECK_DEADLOCK FALSE
