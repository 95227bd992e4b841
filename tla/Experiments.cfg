\* Two scripts, the same id or two ids, all faults.
CONSTANTS
  s1 = s1
  s2 = s2
  e1 = e1
  e2 = e2
  Scripts = {s1, s2}
  Names = {e1, e2}
  Arguments <- MCArguments
  Nobody = Nobody
  None = None
  MaxIncidents = 2
SPECIFICATION Spec
SYMMETRY Symmetry
INVARIANTS PublishedIsOwn PublishedOnce OnlyTicketsMislead
CHECK_DEADLOCK FALSE
