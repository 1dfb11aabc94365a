SPECIFICATION Spec
CONSTANTS
  Rooms = {"hall"}
  Sensors = {door}
  TargetsOf <- EveryRoom
  Inputs = {"pressOn", "contactOff", "setOn", "setOff"}
  Timeout <- Three
  Warning = 2
  MaxGap = 2
  MaxThreads = 2
  MaxSwitches = 2
CHECK_DEADLOCK FALSE
INVARIANTS
  DimMeansOffSoon
