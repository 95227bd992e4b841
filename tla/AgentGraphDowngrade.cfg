CONSTANTS
  Ids = {"k1", "k2"}
  Requests = {"r1", "r2"}
  NoRequest = NoRequest
  Batches <- MCBatches
  MaxSteps = 3
  MaxToolCalls = 3
  MaxSegments = 3
  Faults = {"crash", "ledger_error"}
SPECIFICATION Spec
PROPERTIES CompletedStepsStand
CHECK_DEADLOCK FALSE
