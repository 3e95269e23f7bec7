SPECIFICATION FairSpec
CONSTANTS
  FifoSize = 8
  BlockWords = 4
  Blocks = 2
  BurstMax = 3
  MaxResp = 3
  Watchdog = TRUE
INVARIANTS
  TypeOK
  ReadIntegrity
  WriteIntegrity
  DmaInBuffer
  HeadIsOut
PROPERTIES
  TransferEnds
  Refines
