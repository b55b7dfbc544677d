SPECIFICATION FairSpec
CONSTANTS
  Runs = {r1}
  Slots <- CephPods
  Nobody = Nobody
  Worlds <- AllWorlds
INVARIANTS TypeOK CleanReportIsTrue EveryDaemonAccounted
PROPERTIES ImplementsTestPods Terminates
CHECK_DEADLOCK FALSE
