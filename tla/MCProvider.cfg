SPECIFICATION FairSpec
CONSTANTS
  Runs = {r1}
  Slots = {"c1", "c2"}
  Nobody = Nobody
  Host <- HostOf
  Worlds <- AllWorlds
  Labels = {"api", "c", "com", "lb", "m1", "clusterset", "local"}
  Widths = {3}
  Spellings = {"short", "long"}
INVARIANTS TypeOK CleanDirectionIsTrue NoSilentDirection NoProxyVerdictsAreExact EveryEndpointAccounted OnePodAtATime
PROPERTIES ImplementsTestPods Terminates
CHECK_DEADLOCK FALSE
