SPECIFICATION FairSpec
CONSTANTS
  Size <- DefaultSize
  Fresh <- DefaultFresh
  MaxUpdates = 2
  Good = {1, 2}
  MaxAttempts = 3
  StartLimit = 5
  MaxFaults = 2
  MaxLosses = 5
CHECK_DEADLOCK FALSE
INVARIANTS
  TypeOK
  WayBack
  NothingLost
  UndoneWhole
PROPERTIES
  BadBuildLeft
