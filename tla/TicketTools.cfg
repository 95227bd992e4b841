\* Three calls on two operations or none, one reset.
CONSTANTS
  c1 = c1
  c2 = c2
  c3 = c3
  e1 = e1
  t1 = t1
  t2 = t2
  seeded = seeded
  Calls = {c1, c2, c3}
  Operations = {o1, o2}
  NoOperation = NoOperation
  Employees = {e1}
  Seeded = seeded
  Titles = {t1, t2}
  Unset = Unset
  Null = Null
  NoTicket = NoTicket
  Requests <- MCRequests
  Seeds <- MCSeeds
  MaxResets = 1
SPECIFICATION Spec
SYMMETRY Symmetry
INVARIANTS MutationLog RepeatedCallsAgree
PROPERTIES ReplacesWhatItRead TransitionsAllowed
CHECK_DEADLOCK FALSE
