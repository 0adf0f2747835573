CONSTANTS
  Endpoints = {1, 2}
  Components = {}
  MaxImages = 2
SPECIFICATION Spec
CHECK_DEADLOCK FALSE
INVARIANT RequestsReachTheirUpdater
