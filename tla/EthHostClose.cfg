SPECIFICATION FairSpec
CONSTANTS
  Ring = 4
  CloseQueued = TRUE
PROPERTIES
  CloseEnds
CHECK_DEADLOCK FALSE
