SPECIFICATION FairRSpec
CONSTANTS
  NCalls = 2
  NSubs = 1
  NIps = 2
  NKeys = 1
  SubOf <- OneSub
  KindOf <- LastIsAdmin
  KeyOf <- NoKeys
  Docker = TRUE
  Fallback = TRUE
  BlindAdds = TRUE
  WithPatch = FALSE
  MaxLimit = 2
  MaxEdits = 1
  RemoveOrphans = TRUE
  NodeFaults = TRUE
  MaxFaults = 1
PROPERTIES
  DevicesComeUp
  OrphansAreRemoved
