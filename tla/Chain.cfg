SPECIFICATION FairSpec
CONSTANTS
  None = None
  root = root
  blkA = blkA
  blkB = blkB
  blkC = blkC
  blkD = blkD
  blkE = blkE
  Blocks = {blkA, blkB, blkC, blkD, blkE}
  Genesis = root
  Parent <- Parents
  Height <- Heights
  Burn <- Burns
  View <- Views
  Cycle <- Cycles
  Prepare = {1}
  FirstBurn = 1
  MaxBurn = 2
  MaxTroubles = 2
INVARIANTS
  TypeOK
  ProcessedIsCommitted
  OrphansAreFounded
PROPERTIES
  TipFallsOnlyWhenStale
  AnnouncedIsProcessed
  
  StopIsHeard
CHECK_DEADLOCK FALSE
