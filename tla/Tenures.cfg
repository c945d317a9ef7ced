SPECIFICATION FairSpec
CONSTANTS
  None = None
  MaxThreads = 3
  MaxBurn = 1
INVARIANTS
  OneMiner
  ListenerIsHeard
PROPERTIES
  StopEnds
CHECK_DEADLOCK FALSE
