SPECIFICATION Spec
CONSTANTS
  None = None
  h = h
  g = g
  p = p
  blk1 = blk1
  blk2 = blk2
  blk3 = blk3
  ten1 = ten1
  ten2 = ten2
  ten3 = ten3
  Signers = {h, p}
  Honest = {h}
  Units <- Ten
  Holder <- BothNeeded
  Blocks = {blk2}
  Tenures = {ten1}
  Height <- AllAtOne
  Tenure <- OneTenure
  PrevTenure <- NoBlock
  Parent <- NoBlock
  PendingLimit = 1
  Reorgs = {}
  PeerVotes = {"pc", "sig", "rej"}
  Events = {"expire", "timeout", "invalid", "wait", "error", "views", "crash", "burn", "retire"}
INVARIANTS
  SentSignatureIsRecorded
  AcceptedOnEvidence
  ValidatingIsUndecided
  OneVotePerSigner
  PostedHasQuorum
PROPERTIES
  NeverContradictsSignature
