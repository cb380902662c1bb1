SPECIFICATION Spec
CONSTANTS
  None = None
  Users = {u1}
  IPs = {i1, i2, i3, i4}
  Conns = {c1}
  Lists <- ListsOne
  NodeRates = {1}
  MaxIPLimit = 1
  GlobalOn = FALSE
SYMMETRY Symmetry
PROPERTY
  AdmittedBelowLimit
