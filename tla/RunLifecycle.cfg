\* Runtimes of two models compete for one run that is paused again and again, die or
\* fail; the operator keeps reconciling.  Segments are shorter than older_than.
CONSTANTS
  e1 = e1
  e2 = e2
  e3 = e3
  e4 = e4
  scripted = scripted
  openai = openai
  Runs = {r1}
  Executors = {e1, e2, e3, e4}
  Checkpointing = {e1, e2, e3}
  ModelOf <- TwoModels
  Forced = {r1}
  OlderThan = 3
  MaxSegment = 2
  MaxResumes = 3
  Faults = {"crash", "ledger_error", "save_error"}
SPECIFICATION LiveSpec
INVARIANTS LeaseInv OneExecutor ClosedIsQuiet
PROPERTIES VerdictIsFinal OrphanedForever KeepsOwnership ClaimsExpire AbandonedRunsClose
CHECK_DEADLOCK FALSE
