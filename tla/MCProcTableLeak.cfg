CONSTANTS
  Procs = {p1, p2, p3}
  First = p1
  MaxNumProcesses = 3
  Frames = {0, 1, 2, 3}
  NumPages = 1
  ExitStatuses <- OwnStatus
  None = None
SPECIFICATION FairProcSpec
PROPERTY IdsReused
CHECK_DEADLOCK FALSE
