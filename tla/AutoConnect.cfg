SPECIFICATION FairSpec
CONSTANTS
  Tries = 10
  Reads = 5
  Conns = {1, 2}
  MaxWaiting = 3
INVARIANTS
  OneConnection
PROPERTIES
  KeepsTalking
\* A client that has given up has ended.
CHECK_DEADLOCK FALSE
