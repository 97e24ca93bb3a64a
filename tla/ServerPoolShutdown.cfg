SPECIFICATION FairSpec
CONSTANTS
  c1 = c1
  c2 = c2
  c3 = c3
  Conns <- MCConns
  NoFd = NoFd
  Garbage = Garbage
  MAX_ACCEPT = 2
  MAX_THREADS_NUM = 2
  MAX_PORT_NUMBER = 1
  StartThreads = 2
  StartPort = 1
  ConfigFiles <- MCConfigFiles
  MaxSighups = 0
  ResizeAt <- Nowhere
  RebindAt <- Nowhere
CHECK_DEADLOCK FALSE
PROPERTIES
  TerminatesAfterMaxAccept
