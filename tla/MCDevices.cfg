CONSTANTS
  Callers = {t1, t2}
  Data = {d}
  Blank = blank
  SectorsPerTrack = 2
  NumTracks = 2
  RotationTime = 2
  SeekTime = 1
  MaxDiskTicks = 8
  Readers = {r1, r2}
  Writers = {w1, w2}
  ReadLength = 2
  WriteLength = 1
  MaxTyped = 2
  Hosts = {0, 1}
  host0 = host0
  host1 = host1
  Clients <- MCClients
  NoMessage = NoMessage
  NoClient = NoClient
  MaxRetries = 3
  disk = disk
  console = console
  Devices = {disk, console}
  Timer = timer
  Delay <- MCDelay
  TimerDelays = {3, 4}
  SystemTick = 2
  UserTick = 1
  MaxTicks = 12
SPECIFICATION DeviceSpec
INVARIANTS
  HeadPassed
  ConsoleExact
  OneCopy
  ClockExact
PROPERTIES
  ImplementsDisk
  ConsoleServes
  TestsEnd
  InScheduledOrder
CHECK_DEADLOCK FALSE
