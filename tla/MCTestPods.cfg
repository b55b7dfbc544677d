SPECIFICATION Spec
CONSTANTS
  Runs = {r1, r2, r3}
  Slots = {p1}
  Nobody = Nobody
SYMMETRY Symmetry
INVARIANTS TypeOK HeldIsOwn OnlyOwnPodsDeleted NameIsExclusive LeftoverAccounted
CHECK_DEADLOCK FALSE
