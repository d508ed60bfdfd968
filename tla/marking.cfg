SPECIFICATION Spec
CONSTANTS
  amy = amy
  ben = ben
  Tests = {t1}
  Subs = {1, 2}
  Learners = {amy, ben}
  Admins = {ada}
  Drafts <- DraftsOf
  Rewrites <- RewritesOf
  Payloads <- PayloadsOf
  Garbled = garbled
  None = none
  MaxVersions = 2
  MaxJobs = 2
SYMMETRY Sames
CHECK_DEADLOCK FALSE
INVARIANTS
  TypeOK
  AnswersAreEarned
  KeyEarnsAllMarks
  NumbersAreTheirOwn
  MarkedAgainstOneVersion
  MoreMarksNoLowerBand
