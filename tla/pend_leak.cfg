SPECIFICATION PSpec
CONSTANTS
  Calls = {1}
  Commands = {1}
  CommandsOf <- OneCommandEach
  Report = Report
  EventCapacity = 2
  EarlyCapacity = 1
  MaxStreams = 1
  MaxReports = 0
  Nodes = {"room", "lamp"}
  Parent <- InRoom
  Target <- OwnTarget
  Items = {i1}
  RoomOf <- OnRoom
  Nobody = Nobody
  MaxTicks = 1
CHECK_DEADLOCK FALSE
INVARIANTS
  NoLeakedMark
