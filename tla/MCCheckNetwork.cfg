SPECIFICATION FairSpec
CONSTANTS
  k1 = k1
  k2 = k2
  k3 = k3
  Paths = {k1, k2, k3}
  NoPath = NoPath
  Configs <- SomeConfigs
  Worlds <- SomeWorlds
INVARIANTS TypeOK ExitZeroIsTrue InterruptReachesExit
PROPERTIES Exits
CHECK_DEADLOCK FALSE
