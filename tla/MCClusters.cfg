SPECIFICATION Spec
CONSTANTS
  Paths = {k1, k2, k3, k4, k5}
  NoPath = NoPath
SYMMETRY Symmetry
INVARIANTS TypeOK OneFetchPerPath S3TargetsOncePerPath ProxyKnownIfApart
CHECK_DEADLOCK FALSE
