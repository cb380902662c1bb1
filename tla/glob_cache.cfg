SPECIFICATION FairSpec
CONSTANTS
  None = None
  Nodes = {n1, n2}
  IPs = {a1, a2, a3}
  Limit = 2
  Expiry = 2
  Calls = {k1, k2}
  Channel = 2
  MaxConns = 3
INVARIANTS
  TypeOK
  NeverOverfull
PROPERTIES
  DroppedOnlyByRace
  FullExpires
