SPECIFICATION FairSpec
CONSTANTS
  home = home
  lost = lost
  odd = odd
  page404 = page404
  Files = {home, odd, page404}
  Typed = {home, lost, page404}
  NotFound = page404
  NaN = NaN
  Requests <- MCRequests
  Fds = {5}
  Listener = 3
  AnswerSize = 2
  SendBuffer = 1
  MaxRequests = 2
  MaxClients = 2
INVARIANTS
  TypeOK
  AnswersInStep
  NoEdgeLost
PROPERTIES
  ClosedForAReason
  AnswersSent
\* The clients come to an end; a signal, a deleted Connect or a request ends the process.
CHECK_DEADLOCK FALSE
