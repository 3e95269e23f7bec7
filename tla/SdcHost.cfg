SPECIFICATION FairSpec
CONSTANTS
  Bufs = {b1, b2}
  NoBuf = NoBuf
  InitDelay = 2
  Clock = 25000000
  XferBlocks = 8
  DataCmdFaults = {"mute", "bad"}
  DataFaults = {"CFE", "CCRCE"}
INVARIANTS
  BufferOwned
  RequestSound
  DataStatusFresh
  CmdStatusFresh
  OneCommand
PROPERTIES
  RequestEnds
