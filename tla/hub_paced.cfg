SPECIFICATION FairSpec
CONSTANTS
  Callers = {c1}
  Nodes = {"hall", "room"}
  Route <- ListAndGroup
  SplitDeviceTargets = TRUE
  MaxInFlight = 1
  DispatchTimeout = 1
  TimeoutCooldown = 1
  TimeoutScope = "hub"
  RateLimited = TRUE
  Capacity = 3
  RefillPerTick = 2
  GroupCost = 3
  DeviceCost = 2
  NoNode = NoNode
  MaxCalls = 2
INVARIANTS
  PacingHonoured
PROPERTIES
  Settles
