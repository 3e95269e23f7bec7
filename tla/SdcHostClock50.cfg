SPECIFICATION FairSpec
CONSTANTS
  Bufs = {b1, b2}
  NoBuf = NoBuf
  InitDelay = 2
  Clock = 50000000
  XferBlocks = 8
  DataCmdFaults = {}
  DataFaults = {"CCRCE"}
PROPERTIES
  RequestEnds
