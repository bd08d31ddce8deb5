SPECIFICATION ObfFairSpec
CONSTANTS
  NIssues = 1
  MaxRotations = 1
  MaxObfFaults = 0
PROPERTIES
  RotationReachesNode
CHECK_DEADLOCK FALSE
