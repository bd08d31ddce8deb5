SPECIFICATION Spec
CONSTANTS
  NCalls = 2
  NSubs = 2
  NIps = 3
  NKeys = 1
  SubOf <- EachItsSub
  KindOf <- AllUser
  KeyOf <- NoKeys
  Docker = FALSE
  Fallback = FALSE
  BlindAdds = FALSE
  WithPatch = FALSE
  MaxLimit = 1
  MaxEdits = 0
INVARIANTS
  UniqueAddress
CHECK_DEADLOCK FALSE
