SPECIFICATION FairSpec
CONSTANTS
  Kinds = {"select", "epoll", "echo", "inet", "http"}
  Clients = {c1, c2, c3}
  Fds = {4, 5}
  MaxChunks = 1
  None = None
INVARIANTS
  TypeOK
  ConnectionsWatched
PROPERTIES
  ClientsServed
\* Clients stop sending, and the process may die.
CHECK_DEADLOCK FALSE
