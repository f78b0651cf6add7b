CONSTANTS
  Users = {u1}
  Names = {a, b, c}
  NoName = NoName
  NumDirEntries = 3
  Straddle = 1
  FreeSectors = 4
  NumDirect = 1
  MaxOpen = 2
  Garbage <- MCGarbage
  Threads = {t1, t2}
  FileLength = 3
  SectorSize = 2
  MaxBytes = 3
  MaxCalls = 2
  CommandLines <- MCCommandLines
  NachosNames = {"a", "b"}
  NoFile = NoFile
  UnixFiles <- MCUnixFiles
  Room = 7
  TransferSize = 2
SPECIFICATION FilesSpec
SYMMETRY NameSymmetry
INVARIANTS
  FilesIntact
  NoSectorLost
  CreatedFound
  FileExact
  AliveWhenUsed
  TransferExact
CHECK_DEADLOCK FALSE
