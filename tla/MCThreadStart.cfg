CONSTANTS
  Threads = {main, t1, t2}
  Main = main
  NoThread = NoThread
  NotYet = NotYet
  Scratch = Scratch
SPECIFICATION StartSpec
INVARIANT CallsOwnFunction
