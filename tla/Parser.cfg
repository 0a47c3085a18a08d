CONSTANTS
  Radix = 2
  Types = {"data", "heartbeat"}
  Contents = {0, 1}
  Bodies <- MCBodies
  SendMax = 3
SPECIFICATION FairSpec
INVARIANTS TypeOK PackagesIntact NothingHeldBack
PROPERTIES ImplementsChannel EverySentIsCalled
CHECK_DEADLOCK FALSE
