SPECIFICATION FairSpec
CONSTANTS
  None = None
  s1 = s1
  s2 = s2
  s3 = s3
  b1 = b1
  b2 = b2
  x1 = x1
  Signers = {s1, s2, s3}
  Units <- Ten
  Holder <- Unequal
  Blocks = {b1}
  Txids = {x1}
  ConfigSteps <- Steps
  RetryTimeout = 1
  MaxElapsed = 2
  MaxOwed = 1
  MaxTroubles = 2
  Answers <- Varied
  WeightCap = 20
INVARIANTS
  SignaturesSuffice
  RejectionIsFounded
  
PROPERTIES
  CollectedIsReturned
  AbortStops
CHECK_DEADLOCK FALSE
