SPECIFICATION FairSpec
CONSTANTS
  Signers = {"s1", "s2", "s3"}
  Honest = {"s1", "s2"}
  Units = {1, 2, 3}
  Holder <- OneEach
  LastBurn = 2
  BurnHeight <- Growing
  Prior <- Chained
  MaxBlocks = 3
  PeerViews <- OtherViews
  MaySign = {"s1"}
  MayIdle = {2}
  MayFail = {"s2"}
  MaxFaults = 1

  
PROPERTIES
  BurnViewNeverFalls
  PendingSettles
  
CHECK_DEADLOCK FALSE
