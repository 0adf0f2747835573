CONSTANTS
  e1 = e1
  e2 = e2
  r1 = r1
  r2 = r2
  r3 = r3
  r4 = r4
  Eids <- MCOneEid
  Requests <- MCThree
  Dest <- MCDestThree
  Cancellable <- MCCancellable
  InstanceIds = {0, 1}
  NumRetries = 1
  TransportMayFail = FALSE
SPECIFICATION FairSpec
CHECK_DEADLOCK FALSE
INVARIANTS TypeOK NoStrandedRequest
PROPERTIES RetryOnlyWhileOutstanding EveryRequestAnswered
