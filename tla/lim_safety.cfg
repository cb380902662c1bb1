SPECIFICATION Spec
CONSTANTS
  None = None
  Users = {u1}
  IPs = {i1, i2, i3, i4}
  Conns = {c1, c2}
  Lists <- ListsLimited
  NodeRates = {1}
  MaxIPLimit = 1
  GlobalOn = TRUE
SYMMETRY Symmetry
INVARIANTS
  TypeOK
  OnlineBound
  AdmittedAreOnline
  LimitedLinksFlow
  ReportIsComplete
