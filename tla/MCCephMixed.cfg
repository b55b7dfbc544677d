SPECIFICATION Spec
CONSTANTS
  Runs = {r1}
  Slots <- CephPods
  Nobody = Nobody
  Worlds <- AllWorlds
INVARIANTS HostNetworkTested
CHECK_DEADLOCK FALSE
