SPECIFICATION FairSpec
CONSTANTS
  essay = essay
  first = first
  again = again
  user = user
  task = task
  reading = reading
  Jobs = {essay, first, again}
  Grants = {essay, first, again}
  Written = {essay}
  Illustrated = {essay}
  Sampled = {}
  Criteria = {"response", "grammar"}
  Bands = {5, 6, 10}
  CorrectionLists <- Lists
  MaxCorrections = 2
  MaxAttempts = 2
  None = none
  Users = {user}
  UserOf <- User
  TestOf <- Test
  XpGain <- Gain
  MaxLevel = 4
CHECK_DEADLOCK FALSE
INVARIANTS
  TypeOK
  WrittenGradeIsWhole
  CauseIsNotTheEcho
  XpMatchesLedger
PROPERTIES
  GrantsEnd
