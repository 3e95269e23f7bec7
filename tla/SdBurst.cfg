SPECIFICATION Spec
CONSTANTS
  Fifo = 8
  Page = 16
  Cap = 6
  Memory = 32
INVARIANTS
  TypeOK
  BurstInPage
  BurstCovered
  LastBeatMarked
PROPERTIES
  BurstMaximal
