SPECIFICATION FairSpec
CONSTANTS
  None = None
  Verdicts = {"free", "limited", "reject"}
  Outs = {o1, o2}
  MaxChunks = 3
  Deadline = 2
CHECK_DEADLOCK FALSE
INVARIANTS
  TypeOK
  StreamKept
PROPERTIES
  LinkSettles
