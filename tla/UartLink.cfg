SPECIFICATION FairSpec
CONSTANTS
  Slots = 4
  Bits = 3
  PhaseMax = 5
  Data <- MCData
  Urgent <- MCUrgent
PROPERTIES
  Refines
  FlowConverges
