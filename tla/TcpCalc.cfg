SPECIFICATION FairSpec
CONSTANTS
  Clients = {c1, c2}
  MaxRequests = 3
  MaxDescriptors = 2
INVARIANTS
  TypeOK
  FramingHolds
PROPERTIES
  RequestsAnswered
\* Clients may leave and the server may die.
CHECK_DEADLOCK FALSE
