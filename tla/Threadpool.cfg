SPECIFICATION FairSpec
CONSTANTS
  Workers = {w1, w2, w3}
  NumTasks = 3
INVARIANTS
  TasksRunOnce
  OneTaskAfterQuit
PROPERTIES
  QuitWithTasksLeftEnds
\* The program ends, crashes, or hangs in its destructor.
CHECK_DEADLOCK FALSE
