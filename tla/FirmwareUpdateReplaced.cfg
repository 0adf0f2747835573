CONSTANTS
  d1 = d1
  d2 = d2
  Devices <- MCOneDevice
  NumComps <- MCThreeComps
  SendMayFail = FALSE
  FDMayReset = FALSE
  LossyLink = FALSE
  SlowRequests = FALSE
  MaxRequests = 3
SPECIFICATION Spec
CHECK_DEADLOCK FALSE
INVARIANT ReplacedOnlyWhenDone
