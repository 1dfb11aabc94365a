SPECIFICATION Spec
CONSTANTS
  Rooms = {"hall"}
  Sensors = {door}
  TargetsOf <- EveryRoom
  Inputs = {"pressOn", "pressKeep", "contactOff", "setOff", "setMood"}
  Timeout <- Three
  Warning = 2
  MaxGap = 2
  MaxThreads = 2
  MaxSwitches = 1
CHECK_DEADLOCK FALSE
INVARIANTS
  TypeOK
  TimersAgree
  RoomAgrees
  NeverOverdue
PROPERTIES
  SceneUndisturbed
  WarnedFirst
