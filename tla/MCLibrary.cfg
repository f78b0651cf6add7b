CONSTANTS
  ListItems = {1, 2, 3, 4}
  Priority <- MCPriority
  NumCells = 5
  Keys = {0, 1, 2, 3, 4, 5}
  Hash <- MCHash
  InitialBuckets = 2
  ResizeRatio = 1
  IncreaseSizeBy = 2
  NumBits = 5
  BitsInWord = 2
  ByteBits = 2
  NumGPRegs = 5
  PageSize = 8
  NumPhysPages = 2
  PageTable <- MCPageTable
  Codes <- MCCodes
  Operands = {0, 1, 8, 127, 128, 255}
  Immediates = {0, 1, 8, 15}
  Fields = {0, 1, 2, 16, 17}
  Destinations = {0, 2, 3}
SPECIFICATION LibrarySpec
INVARIANTS
  SanityChecked
  BitmapExact
PROPERTIES
  ImplementsList
  ArithmeticExact
  Restartable
  StoreExact
CHECK_DEADLOCK FALSE
