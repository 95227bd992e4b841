\* Crashes and ledger errors, but a database that tells the outcome of every COMMIT; an operator
\* may force operations closed.
CONSTANTS
  Calls = {c1, c2}
  r1 = r1
  r2 = r2
  k1 = k1
  k2 = k2
  create = create
  update = update
  read = read
  denied = denied
  malformed = malformed
  NoRequest = NoRequest
  Runs = {r1, r2}
  Keys = {k1}
  Requests = {create, update, read, denied, malformed}
  Registered = {create, update, read, malformed}
  Available = {create, update, read, malformed, denied}
  Permitted = {create, update, read, malformed}
  WellFormed = {create, update, read, denied}
  Writes = {create, update, denied, malformed}
  Recoverable = {create, update}
  Checkpointed = {r2}
  Inconclusive <- Ops
  Faults = {"crash", "ledger_error"}
  MaxResets = 2
  MaxRecoveries = 1
SPECIFICATION LiveSpec
INVARIANTS AtMostOnce RecoveryVerdictIsTrue FailedMeansNoEffect EvidenceKept
PROPERTIES EverythingSettles
CHECK_DEADLOCK FALSE
