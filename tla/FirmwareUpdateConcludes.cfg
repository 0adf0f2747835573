CONSTANTS
  d1 = d1
  d2 = d2
  Devices <- MCTwoDevices
  NumComps <- MCTwoAndOneComps
  SendMayFail = FALSE
  FDMayReset = FALSE
  LossyLink = FALSE
  SlowRequests = FALSE
  MaxRequests = 2
SPECIFICATION FairSpec
CHECK_DEADLOCK FALSE
PROPERTY UpdateConcludes
