SPECIFICATION ProcessFairSpec
CONSTANTS
  N = 4
  NumWorks = 3
  MaxSends = 7
  PipeCap = 2
  MaxFailures = 1
INVARIANTS
  CodesDoneInOrder
  NoChildLeft
PROPERTIES
  DestructorEnds
\* The program ends; with a failed fork it may wait for ever.
CHECK_DEADLOCK FALSE
