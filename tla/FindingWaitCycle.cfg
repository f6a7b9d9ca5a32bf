\* A session is restored while the monitor delivers.
SPECIFICATION Spec
CONSTANTS
  None = None
  s1 = s1
  s2 = s2
  s3 = s3
  p1 = p1
  p2 = p2
  Panes = {p1, p2}
  Sessions = {s1, s2, s3}
  GroupOf <- TwoAndOne
  Programs = {vi, ls}
  Transient = {ls}
  Shell = Shell
  MailboxSize = 1
  RequestsSize = 1
  Retries = 2
  StableSamples = 2
  Scenarios <- Cycle
INVARIANTS
  NoWaitCycle
CHECK_DEADLOCK FALSE
