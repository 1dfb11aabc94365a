SPECIFICATION Spec
CONSTANTS
  Callers = {c1, c2}
  Nodes = {"hall", "room", "alias"}
  Route <- OverlappingLists
  SplitDeviceTargets = FALSE
  MaxInFlight = 2
  DispatchTimeout = 1
  TimeoutCooldown = 2
  TimeoutScope = "target"
  RateLimited = FALSE
  Capacity = 1
  RefillPerTick = 1
  GroupCost = 1
  DeviceCost = 1
  NoNode = NoNode
  MaxCalls = 3
SYMMETRY CallerSymmetry
INVARIANTS
  TypeOK
  MailboxConsistent
  EventsPair
  InFlightExact
  ZombieHoldsCooldown
  NoLostWakeup
PROPERTIES
  KeepsMailbox
