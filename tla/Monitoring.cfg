SPECIFICATION MCSpec
CONSTANTS
  TNodes = {"n1"}
  MaxReading = 2
  PromUp = TRUE
  MaxTurns = 2
  Engines = {"local"}
  Threshold = 3
  OpenTicks = 2
  AlertLimit = 1
  UiRate = 1
  PromEnabled = TRUE
  MaxWorld = 2
  MaxSlow = 1
  TargetTTL = 2
  MaxHostMoves = 3
  MaxCli = 1
  EWriters = {"w1", "w2"}
  MaxEvents = 4
  MaxPerTx = 2
  Page = 3
  InitialPage = 2
  DeviceKeys = 2
  PollsToo = TRUE
INVARIANTS
  MissedIsKept
PROPERTIES
  
  AlertsFollow
  TargetsFollow
  EventsReachOnce
  ConnectedIsVerified
CHECK_DEADLOCK FALSE
