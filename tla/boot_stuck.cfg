SPECIFICATION FairSpec
CONSTANTS
  Versions = {"v1", "v2", "v3"}
  Good = {"v1", "v3"}
  Factory = "v1"
  Migrating = {"v2", "v3"}
  None = None
  Bad = Bad
  ApplyWhilePending = FALSE
  MaxMigrationReboots = 2
  MaxTears = 1
  MaxFaults = 1
PROPERTIES
  BadCandidateLeft
