CONSTANTS
  Threads = {t1, t2, t3}
  NoThread = NoThread
  Lock = lock
  Items = {i1, i2, i3}
  NoItem = NoItem
SPECIFICATION FairListSpec
INVARIANTS
  LockExact
  WaiterExact
  NoLostSignal
PROPERTIES
  ItemsAreRemoved
CHECK_DEADLOCK FALSE
