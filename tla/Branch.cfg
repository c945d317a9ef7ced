SPECIFICATION Spec
CONSTANTS
  None = None
  h = h
  g = g
  p = p
  blk1 = blk1
  blk2 = blk2
  blk3 = blk3
  ten1 = ten1
  ten2 = ten2
  ten3 = ten3
  Signers = {h, p}
  Honest = {h}
  Units <- Ten
  Holder <- BothNeeded
  Blocks = {blk1, blk2, blk3}
  Tenures = {ten1, ten2, ten3}
  Height <- AllAtOne
  Tenure <- ThreeTenures
  PrevTenure <- NoBlock
  Parent <- NoBlock
  PendingLimit = 1
  Reorgs <- SecondReorgsFirst
  PeerVotes = {"pc"}
  Events = {"burn", "prune"}
INVARIANTS
  NoDoubleSign
PROPERTIES
  FrozenSignsNothing
