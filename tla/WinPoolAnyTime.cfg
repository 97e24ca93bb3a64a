SPECIFICATION Spec
CONSTANTS
  c1 = c1
  c2 = c2
  c3 = c3
  c4 = c4
  c5 = c5
  Conns <- MCConns
  INVALID_SOCKET = INVALID_SOCKET
  THREADS = 2
  PER_THREAD = 2
  ClientsFail = TRUE
  Preempt <- AnyTime
SYMMETRY Symmetry
CHECK_DEADLOCK FALSE
INVARIANTS
  TypeOK
  PermitsBacked
  ExclusiveService
  TerminatesWhenDone
