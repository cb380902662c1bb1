SPECIFICATION Spec
CONSTANTS
  None = None
  Verdicts = {"limited"}
  Outs = {o1}
  MaxChunks = 2
  Deadline = 2
INVARIANTS
  CachedReaderKeeps
