\* Recovery decides an operation the reconciler has already read.
CONSTANTS
  Calls = {c1}
  r1 = r1
  r2 = r2
  k1 = k1
  k2 = k2
  create = create
  update = update
  read = read
  denied = denied
  malformed = malformed
  NoRequest = NoRequest
  Runs = {r1}
  Keys = {k1}
  Requests = {create}
  Registered = {create, update, read, malformed}
  Available = {create, update, read, malformed, denied}
  Permitted = {create, update, read, malformed}
  WellFormed = {create, update, read, denied}
  Writes = {create}
  Recoverable = {create}
  Checkpointed = {}
  Inconclusive <- Ops
  Faults = {}
  MaxResets = 1
  MaxRecoveries = 1
SPECIFICATION Spec
PROPERTIES InconclusiveClosesUnknown
CHECK_DEADLOCK FALSE
