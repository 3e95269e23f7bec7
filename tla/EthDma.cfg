SPECIFICATION FairSpec
CONSTANTS
  Word = 4
  Units = {1, 4}
  Fifo = 4
  Page = 16
  Adrs = {0, 1, 3, 10}
  Sizes = {5, 8, 14, 15}
  Frames = {5, 6, 8, 13, 15, 20}
INVARIANTS
  TxIntegrity
  RxIntegrity
  BusSafe
PROPERTIES
  Ends
