SPECIFICATION Spec
CONSTANTS
  Paths = {k1, k2, k3}
  NoPath = NoPath
SYMMETRY Symmetry
INVARIANTS ProxyAlwaysKnown
CHECK_DEADLOCK FALSE
