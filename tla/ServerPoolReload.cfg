SPECIFICATION Spec
CONSTANTS
  c1 = c1
  c2 = c2
  c3 = c3
  Conns <- MCConns
  NoFd = NoFd
  Garbage = Garbage
  MAX_ACCEPT = 3
  MAX_THREADS_NUM = 3
  MAX_PORT_NUMBER = 2
  StartThreads = 2
  StartPort = 1
  ConfigFiles <- MCConfigFiles
  MaxSighups = 2
  ResizeAt <- SafeResize
  RebindAt <- SafeRebind
SYMMETRY Symmetry
CHECK_DEADLOCK FALSE
INVARIANTS
  TypeOK
  PermitsCountFreeSlots
  NoConnectionDropped
  NoUndefinedAccess
  ListenPortAgrees
PROPERTIES
  ImplementsService
