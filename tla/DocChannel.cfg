SPECIFICATION FairSpec
CONSTANTS
  None = None
  MaxThreads = 2
  MaxBurn = 1
PROPERTIES
  DocChannel
CHECK_DEADLOCK FALSE
