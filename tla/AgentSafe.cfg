SPECIFICATION Spec
CONSTANTS
  NKeys = 2
  NDevices = 2
  NIps = 2
  MaxMutations = 2
  ReadOnly = FALSE
  AllowPruneEmpty = TRUE
  NActions = 1
  ActTypes = {"sync", "drain"}
  WithPsk = {1}
  MaxEdits = 3
  MaxFaults = 1
  MaxCrashes = 1
INVARIANTS
  TypeOK
PROPERTIES
  RemovalJustified
  PurgedStaysOut
  QueueRefined
