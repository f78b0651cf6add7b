CONSTANTS
  Threads = {main, t1, t2}
  Main = main
  NoThread = NoThread
  Sems = {s1, s2}
  NoSem = NoSem
  InitialValue <- LockAndEvent
  MaxValue = 2
SPECIFICATION FairSemSpec
INVARIANT NoLostWakeup
PROPERTIES
  ImplementsSemaphore
  SemaphoreLive
  ReadyRuns
