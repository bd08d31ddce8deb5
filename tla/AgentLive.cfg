SPECIFICATION FairSpec
CONSTANTS
  NKeys = 2
  NDevices = 2
  NIps = 2
  MaxMutations = 4
  ReadOnly = FALSE
  AllowPruneEmpty = FALSE
  NActions = 1
  ActTypes = {"restart_service"}
  WithPsk = {2}
  MaxEdits = 3
  MaxFaults = 1
  MaxCrashes = 0
PROPERTIES
  OrphanIsRemoved
  AddressSettles
