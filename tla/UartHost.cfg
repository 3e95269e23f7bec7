SPECIFICATION FairSpec
CONSTANTS
  Slots = 4
  MaxChars = 5
  MaxXmit = 5
  ConsoleChars = 2
  DrainInCall = 2
INVARIANTS
  TypeOK
  Armed
  StopKept
PROPERTIES
  NoDrop
  TxFlows
  ConsoleEnds
