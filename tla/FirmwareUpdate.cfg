CONSTANTS
  d1 = d1
  d2 = d2
  Devices <- MCOneDevice
  NumComps <- MCThreeComps
  SendMayFail = TRUE
  FDMayReset = TRUE
  LossyLink = TRUE
  SlowRequests = FALSE
  MaxRequests = 3
SPECIFICATION Spec
CHECK_DEADLOCK FALSE
INVARIANTS TypeOK ServesRightComponent ActivatesSomethingNew
