SPECIFICATION FairSpec
CONSTANTS
  whole = whole
  second = second
  third = third
  missing = missing
  author = author
  other = other
  None = none
  Nobody = nobody
  MaxTextLen = 6
  MaxTitleLen = 2
  MaxTopics = 2
  MinPart1Questions = 1
  MaxPart1Questions = 2
  MinPart2Bullets = 1
  MaxPart2Bullets = 2
  MaxPart2FollowUps = 1
  MinPart3Questions = 1
  MaxPart3Questions = 2
  Bank <- Tests
  Users = {author, other}
  MaxElsewhere = 1
  Requests <- AllRequests
  Author = author
  MaxUploadSlots = 6
  UploadTries = 2
  MaxAnswerSeconds = 180
  SoftLimitGrace = 30
  MinAnswerSeconds = 2
  MaxSat = 2
CHECK_DEADLOCK FALSE
INVARIANTS
  TestIsExaminable
  HandInIsWhole
PROPERTIES
  ExamEnds
