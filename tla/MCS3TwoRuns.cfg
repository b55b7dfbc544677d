SPECIFICATION FairSpec
CONSTANTS
  Runs = {r1, r2}
  Slots = {1}
  Nobody = Nobody
  Worlds <- OneWorld
PROPERTIES ProbesFromOwnPod ImplementsTestPods Terminates NamesReleased
CHECK_DEADLOCK FALSE
