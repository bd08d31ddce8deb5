SPECIFICATION RSpec
CONSTANTS
  NCalls = 3
  NSubs = 1
  NIps = 3
  NKeys = 1
  SubOf <- OneSub
  KindOf <- LastIsAdmin
  KeyOf <- NoKeys
  Docker = TRUE
  Fallback = TRUE
  BlindAdds = FALSE
  WithPatch = FALSE
  MaxLimit = 2
  MaxEdits = 1
  RemoveOrphans = FALSE
  NodeFaults = FALSE
  MaxFaults = 1
INVARIANTS
  UniqueAddress
  AppliedIsOnNode
PROPERTIES
  Entitled
