SPECIFICATION FairSpec
CONSTANTS
  c1 = c1
  c2 = c2
  c3 = c3
  c4 = c4
  c5 = c5
  Conns <- MCConns
  INVALID_SOCKET = INVALID_SOCKET
  THREADS = 2
  PER_THREAD = 2
  ClientsFail = FALSE
  Preempt <- AtTail
CHECK_DEADLOCK FALSE
PROPERTIES
  AssignedIsAnswered
