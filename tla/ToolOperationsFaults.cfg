\* Every fault of process, ledger and commit; nothing is forced by an operator.
CONSTANTS
  Calls = {c1, c2, c3}
  r1 = r1
  r2 = r2
  k1 = k1
  k2 = k2
  create = create
  update = update
  read = read
  denied = denied
  malformed = malformed
  NoRequest = NoRequest
  Runs = {r1, r2}
  Keys = {k1}
  Requests = {create, read, denied}
  Registered = {create, update, read, malformed}
  Available = {create, update, read, malformed, denied}
  Permitted = {create, update, read, malformed}
  WellFormed = {create, update, read, denied}
  Writes = {create, denied}
  Recoverable = {create}
  Checkpointed = {r2}
  Inconclusive = {}
  Faults = {"crash", "ledger_error", "commit_lost", "late_commit"}
  MaxResets = 1
  MaxRecoveries = 1
SPECIFICATION Spec
SYMMETRY CallSymmetry
INVARIANTS OwnershipInv AtMostOnce SucceededMeansCommitted ReplayOnlySameRequest AnswersAgree
PROPERTIES SettledIsFinal StrandedForever KeepsPromise
CHECK_DEADLOCK FALSE
