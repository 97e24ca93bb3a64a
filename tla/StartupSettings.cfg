SPECIFICATION FairSpec
CONSTANTS
  Programs <- AllPrograms
  Lines <- SomeLines
  Files <- SomeFiles
  Number <- Numerals
  Hosts <- Addresses
  LogNames <- Logs
  Readable <- Paths
CHECK_DEADLOCK FALSE
INVARIANTS
  TypeOK
  ServerAsAsked
  ClientAsAsked
PROPERTIES
  GoodLineStarts
