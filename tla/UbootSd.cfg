SPECIFICATION SampleSpec
CONSTANTS
  MemAddr = 0
  MemEnd = 2
  MemAlt = 6
  Top = 8
  Chunk = 3
  Images <- MCImages
  Zero = Zero
  Own = Own
  Junk = Junk
  Kinds = {"V1", "V2", "HC"}
  Boards = {TRUE, FALSE}
  MaxBusy = 1
  FileSector = 7
  Sectors = 18
  BlockSize = 8
  Layouts <- MCLayouts
  MaxBlockCnt = 2
  MaxFaults = 2
  Clock = 50000000
  BusWidth = 4
  Unit = 128
INVARIANTS
  Loaded
  OwnKept
  ReadOk
  Settled
PROPERTIES
  Loads
  Boots
  UbootEnds
