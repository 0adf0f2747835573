CONSTANTS
  d1 = d1
  d2 = d2
  Devices <- MCTwoDevices
  NumComps <- MCOneComp
  SendMayFail = TRUE
  FDMayReset = TRUE
  LossyLink = TRUE
  SlowRequests = TRUE
  MaxRequests = 2
SPECIFICATION Spec
SYMMETRY MCSymmetry
CHECK_DEADLOCK FALSE
INVARIANT ActiveMeansUpdated
PROPERTY OutcomeStable
