SPECIFICATION FairSpec
CONSTANTS
  Platforms <- AllPlatforms
  Requests <- Both
  Outputs <- SomeOutputs
  Buffer = 4
  MayDie = TRUE
CHECK_DEADLOCK FALSE
INVARIANTS
  TypeOK
  PrintedInOrder
  DoneMeansAll
  OrdinaryOutputIsHarmless
PROPERTIES
  ShortOutputIsSeen
  ClientEnds
