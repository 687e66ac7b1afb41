SPECIFICATION FairSpec
CONSTANTS
  Pushers = {c1, c2}
  Poppers = {p1, p2}
  Cap = 2
  NoThread = NoThread
  MaxPushes = 5
INVARIANTS
  SlotsAccounted
  UnclaimedIntact
  ReturnsClaimOrLater
PROPERTIES
  EveryItemClaimed
\* At the bound MaxPushes all threads wait on their semaphores.
CHECK_DEADLOCK FALSE
