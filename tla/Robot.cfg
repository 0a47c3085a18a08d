CONSTANTS
  None = None
  Promises <- MCPromises
  GroupSize = 3
  MaxOwed = 0
  Faults = {"refused", "lost", "kick", "bad", "delta", "script"}
SPECIFICATION FairSpec
INVARIANTS TypeOK OneCallAtATime LoggedInFirst RightServer NoPromiseForgotten LoginErrorsTaken
PROPERTIES GoesOn
CHECK_DEADLOCK FALSE
