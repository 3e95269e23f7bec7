SPECIFICATION FairSpec
CONSTANTS
  Ring = 4
  CloseQueued = FALSE
INVARIANTS
  TypeOK
  RingsOwned
PROPERTIES
  Flows
