SPECIFICATION FairSpec
CONSTANTS
  Pool = {t1, t2}
  Root = root
  Callbacks = {cb}
  Fibers = {}
  MaxAgain = 0
PROPERTIES
  StopStopsTheScheduler
CHECK_DEADLOCK FALSE
