CONSTANTS
  Procs = {p1, p2, p3, p4}
  First = p1
  MaxNumProcesses = 3
  Frames = {0, 1, 2, 3, 4}
  NumPages = 2
  ExitStatuses <- OwnStatus
  None = None
SPECIFICATION FairProcSpec
INVARIANTS
  EntryKept
  ChildrenExact
  JoinExact
  FramesExact
PROPERTY JoinReturns
CHECK_DEADLOCK FALSE
