SPECIFICATION Spec
CONSTANTS
  Runs = {r1}
  Slots = {1}
  Nobody = Nobody
  Worlds <- AllWorlds
INVARIANTS BothRoutesProbed
CHECK_DEADLOCK FALSE
