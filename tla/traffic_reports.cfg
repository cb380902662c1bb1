SPECIFICATION FairSpec
CONSTANTS
  None = None
  Tags = {t1, t2}
  Ids = {i1, i2}
  Retries = 1
  Faults = {"send", "reply", "refuse", "answer"}
  MaxBytes = 2
  MaxBilled = 2
  MaxMoves = 1
INVARIANTS
  TypeOK
  EveryByteAccounted
PROPERTIES
  NeverOverbilled
  EventuallyBilled
