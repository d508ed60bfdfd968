SPECIFICATION FairSpec
CONSTANTS
  None = None
  Submissions = {s1, s2}
  Followed = {s1}
  Checks = {k1, k2}
INVARIANTS
  TypeOK
  PollingGoesOn
PROPERTIES
  LeavesOnlyWhenTold
  RowsNeverGoBack
  EventuallyTold
  EventuallyShown
