SPECIFICATION MCSpec
CONSTANTS
  NCalls = 3
  NSubs = 1
  NIps = 2
  NKeys = 1
  SubOf <- OneSub
  KindOf <- OneOfEach
  KeyOf <- KeyForUsers
  Docker = TRUE
  Fallback = FALSE
  BlindAdds = TRUE
  WithPatch = TRUE
  MaxLimit = 2
  MaxEdits = 2
  NOps = 2
  MaxKey = 2
  NLinks = 1
  PruneOrphans = TRUE
  MaxOpFaults = 2
  Hosts = {"h1", "h2"}
  NodeKeys = 2
  NIssues = 1
  MaxRotations = 2
  MaxObfFaults = 1
INVARIANTS
  ConfigHasKey
PROPERTIES
  RequestsEnd
  ServedHasKey
  DeviceSettles
  KeyIsCurrent
  NodeFollowsRow
CHECK_DEADLOCK FALSE
