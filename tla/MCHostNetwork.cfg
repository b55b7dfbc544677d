SPECIFICATION FairSpec
CONSTANTS
  Runs = {r1}
  Slots <- HostPods
  Nobody = Nobody
  Worlds <- AllWorlds
INVARIANTS TypeOK CleanReportIsTrue LeftoversOfFailedDeploy ProbesAllOrNone
PROPERTIES ImplementsTestPods Terminates
CHECK_DEADLOCK FALSE
