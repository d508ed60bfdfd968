SPECIFICATION CustomSpec
CONSTANTS
  None = None
  Unused = Unused
  Deleted = Deleted
  Tests = {t1, t2, t3}
  Contents = {c1, c2}
  Requests = {q1, q2}
  MaxTests = 1
  MaxSubmissions = 2
SYMMETRY Symmetry
CHECK_DEADLOCK FALSE
INVARIANTS
  CustomTypeOK
  TestsBounded
PROPERTIES
  ChangesMissOnlyLateAttempts
  DeletionsHold
