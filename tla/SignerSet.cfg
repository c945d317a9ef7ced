SPECIFICATION Spec
SYMMETRY SetSymmetry
CONSTANTS
  None = None
  h = h
  g = g
  p = p
  blk1 = blk1
  blk2 = blk2
  blk3 = blk3
  ten1 = ten1
  ten2 = ten2
  ten3 = ten3
  Signers = {h, g, p}
  Honest = {h, g}
  Units <- Ten
  Holder <- TwoHonest
  Blocks = {blk2, blk3}
  Tenures = {ten1}
  Height <- AllAtOne
  Tenure <- OneTenure
  PrevTenure <- NoBlock
  Parent <- NoBlock
  PendingLimit = 1
  Reorgs = {}
  PeerVotes = {"pc"}
  Events = {}
INVARIANTS
  Agreement
  SignatureNeedsPreCommits
