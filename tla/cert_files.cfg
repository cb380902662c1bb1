SPECIFICATION FairSpec
CHECK_DEADLOCK FALSE
CONSTANTS
  Controllers = {c1, c2}
  Modes = {"plain", "file", "http"}
  MaxCerts = 3
  MaxKeys = 2
  MaxCrashes = 1
  MaxMoves = 1
INVARIANTS
  TypeOK
  PairFits
  AccountFits
PROPERTIES
  EventuallyRenewed
