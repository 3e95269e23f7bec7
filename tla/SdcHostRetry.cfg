SPECIFICATION FairSpec
CONSTANTS
  Bufs = {b1, b2}
  NoBuf = NoBuf
  InitDelay = 2
  Clock = 25000000
  XferBlocks = 8
  DataCmdFaults = {"mute", "bad"}
  DataFaults = {"CCRCE"}
INVARIANTS
  RequestIntegrity
