SPECIFICATION MCSpec
CONSTANTS
  NCalls = 4
  NPayments = 2
  NSubs = 1
  PayOf <- LastIsOther
  SubOf <- OneSub
  Kind <- DeliveriesAndConfirm
  WithPromo <- AllPayments
  Remaining = 1
  NReq = 2
  MaxSubs = 2
  MaxNow = 1
  NVisits = 3
  Servers = {s1}
  LastStep = 2
  Interval = 6
  Untils <- Starts
  Period = 60
  Rules = {"3d"}
  MaxHour = 140
  MaxRestarts = 2
  NGate = 3
  RateLimit = 2
  DailyCap = 1
  MaxGateFaults = 1
  Profiles <- ConfigProfiles
  Reports <- NodeReports
  Mtus = {1200, 300}
INVARIANTS
  CreditedOnce
  BonusOnce
  OnePending
  RemindedOnce
  GateHolds
  ConfigFits
PROPERTIES
  CompletionStays
CHECK_DEADLOCK FALSE
