SPECIFICATION FairSpec
CONSTANTS
  Bits <- MCBits
  Generated <- LinuxTokens
  Randoms <- MCRandoms
  RejectsZero = TRUE
  MayDie = TRUE
CHECK_DEADLOCK FALSE
INVARIANTS
  TypeOK
  AcceptsOnlyRightPassphrase
  RejectsOnlyWrongPassphrase
  ClientAgrees
PROPERTIES
  HandshakeEnds
