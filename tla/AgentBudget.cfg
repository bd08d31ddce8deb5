SPECIFICATION FairSpec
CONSTANTS
  NKeys = 2
  NDevices = 2
  NIps = 2
  MaxMutations = 1
  ReadOnly = FALSE
  AllowPruneEmpty = TRUE
  NActions = 0
  ActTypes = {"sync"}
  WithPsk = {1, 2}
  MaxEdits = 3
  MaxFaults = 0
  MaxCrashes = 0
PROPERTIES
  SuspendedIsRemoved
