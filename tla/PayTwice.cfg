SPECIFICATION Spec
CONSTANTS
  NCalls = 2
  NPayments = 1
  NSubs = 1
  PayOf <- OnePayment
  SubOf <- OneSub
  Kind <- Confirms
  WithPromo <- AllPayments
  Remaining = 1
INVARIANTS
  CreditedOnce
CHECK_DEADLOCK FALSE
