\* Nothing goes wrong: two scripts check the same id before either runs.
CONSTANTS
  s1 = s1
  s2 = s2
  e1 = e1
  e2 = e2
  Scripts = {s1, s2}
  Names = {e1, e2}
  Arguments <- MCArguments
  Nobody = Nobody
  None = None
  MaxIncidents = 0
SPECIFICATION Spec
INVARIANTS PublishedStays
CHECK_DEADLOCK FALSE
