\* COMMIT succeeds on the server and raises at the client.
CONSTANTS
  Calls = {c1}
  r1 = r1
  r2 = r2
  k1 = k1
  k2 = k2
  create = create
  update = update
  read = read
  denied = denied
  malformed = malformed
  NoRequest = NoRequest
  Runs = {r1}
  Keys = {k1}
  Requests = {create}
  Registered = {create, update, read, malformed}
  Available = {create, update, read, malformed, denied}
  Permitted = {create, update, read, malformed}
  WellFormed = {create, update, read, denied}
  Writes = {create}
  Recoverable = {create}
  Checkpointed = {r1}
  Inconclusive = {}
  Faults = {"commit_lost"}
  MaxResets = 1
  MaxRecoveries = 1
SPECIFICATION Spec
INVARIANTS FailedMeansNoEffect
CHECK_DEADLOCK FALSE
