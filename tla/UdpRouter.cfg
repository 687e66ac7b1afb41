SPECIFICATION RouterFairSpec
CONSTANTS
  Clients = {c1, c2}
  Server = srv
  MaxTalks = 1
  MaxFaults = 1
INVARIANTS
  LeaversErased
PROPERTIES
  QuitEnds
\* Clients that have quit have ended.
CHECK_DEADLOCK FALSE
