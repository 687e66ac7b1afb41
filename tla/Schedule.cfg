SPECIFICATION FairSpec
CONSTANTS
  Pool = {t1, t2}
  Root = root
  Callbacks = {cb}
  Fibers = {fiber}
  MaxAgain = 1
INVARIANTS
  TypeOK
  FiberOnOneThread
  SleeperIsTickled
PROPERTIES
  ScheduledTasksRun
  StopEndsIfNoneSleeps
\* The scheduler waits for ever when nothing more is scheduled.
CHECK_DEADLOCK FALSE
