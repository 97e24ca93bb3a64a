SPECIFICATION FairSpec
CONSTANTS
  Platforms <- LinuxOnly
  Requests <- Downloads
  Sizes <- DownloadFiles
  Buffer = 2
  Piece = 1
  Mishaps <- Merges
CHECK_DEADLOCK FALSE
PROPERTIES
  DownloadSaved
