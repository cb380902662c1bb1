SPECIFICATION FairSpec
CONSTANTS
  None = None
  Gens = {g1, g2}
  Tasks = {t1, t2}
  Keys = {k}
  Values = {v1, v2}
  Debounce = 1
  MaxEvents = 1
INVARIANTS
  TypeOK
  OneServer
  IdleServes
PROPERTIES
  ClosedStaysClosed
  ReloadsWhatItRead
  ReloadEnds
