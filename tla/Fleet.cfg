SPECIFICATION MCSpec
CONSTANTS
  NActions = 3
  MaxCrashes = 2
  NNodes = 2
  Devs = {"d1", "d2", "d3"}
  Enterprise = {"d3"}
  OverLimit = {"d1"}
  Cap <- SmallAndLarge
  HighMark = 85
  TargetMark = 30
  MovesPerNode = 3
  Batch = 2
  MaxExec = 2
  StopOnError = TRUE
  RollbackOnError = TRUE
  NRuns = 2
  MaxFaults = 1
  MaxBlocks = 1
  NodeKinds <- FleetNodes
  MaxNodes = 3
  High = 85
  Target = 65
  MaxMoves = 3
  NFail = 2
  BackoffMax = 3
  SkipDraining = TRUE
  MaxSrvKey = 1
  MaxAdmin = 1
  MaxSrvFaults = 1
  Deployments = {{}, {"sync"}, {"health", "scan"}, {"health", "list"}}
  ServerNames = {111, 112, 121, 211}
  MaxRows = 3
  PlanOrder <- TwoPlans
  TPeers = {"k1", "k2"}
  PlanOfPeer <- OnePlanEach
  Rates = {1, 2}
  MaxEdits = 2
  MaxApplies = 1
  MaxTcFails = 1
INVARIANTS
  WorkIsDoneOnce
  MovesAreRight
  PlansHold
  ListIsComplete
PROPERTIES
  PendingIsTaken
  FleetSettles
  OfferFollowsNode
  KeyCatchesUp
  RateFollows
CHECK_DEADLOCK FALSE
