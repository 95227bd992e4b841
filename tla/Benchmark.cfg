\* Two runners and a process without the lock, all faults.
CONSTANTS
  r1 = r1
  r2 = r2
  o1 = o1
  Runners = {r1, r2}
  Outsiders = {o1}
  Plans <- MCPlans
  Nobody = Nobody
  None = None
  Budgets <- MCBudgets
SPECIFICATION FairSpec
INVARIANTS EvaluatedIsOwn ResultsAgree
PROPERTIES PlansEnd
CHECK_DEADLOCK FALSE
