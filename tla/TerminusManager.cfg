CONSTANTS
  e1 = e1
  e2 = e2
  NONE = NONE
  DISCOVERY = DISCOVERY
  Endpoints = {e1, e2}
  Tids <- MCTids
  NumSensors = 2
  MaxSignals = 2
  MaxTypeRequests = 1
  FirstBatch <- MCOneKnown
SPECIFICATION Spec
CHECK_DEADLOCK FALSE
INVARIANTS TypeOK TidsAccountedFor NothingForgotten PolledOnlyWhileManaged NoStrandedPoll SensorsTakeTurns
PROPERTY DiscoveryConcludes
