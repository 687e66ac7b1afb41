SPECIFICATION FairSpec
CONSTANTS
  Pushers = {c1, c2}
  Poppers = {p1, p2}
  Tasks = {x, y}
  NoTask = NoTask
  Cap = 2
INVARIANTS
  TypeOK
  WaitersCounted
  NoLostWakeup
PROPERTIES
  ImplementsFIFO
  SleepersWake
