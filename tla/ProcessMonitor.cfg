\* A pane or two, a group of two sessions and a session that is restored; queues of one.
SPECIFICATION FairSpec
CONSTANTS
  None = None
  s1 = s1
  s2 = s2
  s3 = s3
  p1 = p1
  p2 = p2
  Panes = {p1, p2}
  Sessions = {s1, s2, s3}
  GroupOf <- TwoAndOne
  Programs = {vi, ls}
  Transient = {ls}
  Shell = Shell
  MailboxSize = 1
  RequestsSize = 1
  Retries = 2
  StableSamples = 2
  Scenarios <- Passing
INVARIANTS
  HintsStayPossible
PROPERTIES
  NamesSettle
  UnwatchesArrive
\* The system may come to rest.
CHECK_DEADLOCK FALSE
