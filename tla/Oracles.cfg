\* Two calls; one repeated call, or one tick, or two clocks that are one second apart.
CONSTANTS
  Tools = {"create", "update", "read"}
  Tasks <- MCTasks
  Skews = {0, 1}
  Never = Never
  MaxCalls = 2
  Ids <- MCIds
  MaxExtras = 1
  TieUp <- MCTieUp
SPECIFICATION Spec
INVARIANTS TraceMatchesHistory TemporalMatchesHistory ScoresMatchVerdicts
CHECK_DEADLOCK FALSE
