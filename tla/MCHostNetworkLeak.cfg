SPECIFICATION Spec
CONSTANTS
  Runs = {r1}
  Slots <- HostPods
  Nobody = Nobody
  Worlds <- AllWorlds
INVARIANTS NothingLeftBehind
CHECK_DEADLOCK FALSE
