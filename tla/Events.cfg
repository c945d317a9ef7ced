SPECIFICATION FairSpec
CONSTANTS
  None = None
  Main = Main
  c1 = c1
  c2 = c2
  o1 = o1
  o2 = o2
  Callers = {c1, c2}
  Waiting = {c2}
  Observers = {o1, o2}
  Impatient = {o2}
  Lookup <- Interests
  Configs = {{o1, o2}, {o2}}
  QueueSize = 2
  MaxEvents = 3
  MaxRestarts = 1
INVARIANTS
  NeverPanics
  NothingIsLost
  FirstDeliveriesInOrder
  QueueIsBounded
PROPERTIES
  AllEventuallyDelivered
  CallersGoOn
CHECK_DEADLOCK FALSE
