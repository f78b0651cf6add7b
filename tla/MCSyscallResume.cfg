CONSTANTS
  Procs = {1, 2, 3}
  First = 1
  NumPhysPages = 4
  NumPages = 2
  LoadedPages = {1}
  ReadOnlyPages = {1}
  Values = {0, 1}
  Files = {1}
  MaxOpenFiles = 2
  MaxSteps = 4
SPECIFICATION ProgramSpec
INVARIANT ResumesAfterSyscall
CHECK_DEADLOCK FALSE
