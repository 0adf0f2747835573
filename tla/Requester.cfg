CONSTANTS
  e1 = e1
  e2 = e2
  r1 = r1
  r2 = r2
  r3 = r3
  r4 = r4
  Eids <- MCEids
  Requests <- MCRequests
  Dest <- MCDest
  Cancellable <- MCCancellable
  InstanceIds = {0, 1, 2}
  NumRetries = 0
  TransportMayFail = TRUE
SPECIFICATION Spec
CHECK_DEADLOCK FALSE
INVARIANTS OneOutstanding IdsAccountedFor CompletedOnce
PROPERTY ImplementsService
