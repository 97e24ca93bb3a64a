SPECIFICATION FairSpec
CONSTANTS
  Platforms <- AllPlatforms
  Requests <- Both
  Sizes <- Files
  Buffer = 2
  Piece = 1
  Mishaps <- AllMishaps
CHECK_DEADLOCK FALSE
INVARIANTS
  TypeOK
  AckMeansComplete
  RequestsLogged
PROPERTIES
  UndisturbedDownloadSaved
  TransferEnds
