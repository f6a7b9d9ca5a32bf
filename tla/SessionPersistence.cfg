\* Two sessions of a lifetime, two lifetimes, a failing file operation.
SPECIFICATION Spec
CONSTANTS
  None = None
  Names = {n1, n2}
  MaxSession = 2
  MaxWindow = 3
  MaxContent = 2
  MaxLifetimes = 2
  MaxChanges = 6
  MaxFailures = 1
INVARIANTS
  DiskIsSound
PROPERTIES
  FlushKeepsAFile
  RestoreRebuildsPlan
  EverySaveIsTaken
\* The bounds on sessions and lifetimes may be reached.
CHECK_DEADLOCK FALSE
