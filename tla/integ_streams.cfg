SPECIFICATION FairSpec
CONSTANTS
  Calls = {"room", "lamp"}
  Commands = {1, 2, 3}
  CommandsOf <- RoomAndLamp
  Report = Report
  EventCapacity = 2
  EarlyCapacity = 1
  MaxStreams = 3
  MaxReports = 1
CHECK_DEADLOCK FALSE
INVARIANTS
  TypeOK
  TablesAgree
  MarksRight
  NoneStranded
PROPERTIES
  Settled
  KeepsPromise
