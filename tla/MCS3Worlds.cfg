SPECIFICATION Spec
CONSTANTS
  Runs = {r1}
  Slots = {1, 2}
  Nobody = Nobody
  Worlds <- AllWorlds
INVARIANTS TypeOK CleanReportIsTrue EveryTargetAccounted NothingLeftBehind
CHECK_DEADLOCK FALSE
