SPECIFICATION FairSpec
CONSTANTS
  w1 = w1
  w2 = w2
  p1 = p1
  p2 = p2
  pair = pair
  Submissions = {1, 2}
  Workers = {w1, w2}
  Processes = {p1, p2}
  ProcessOf <- TwoProcesses
  Pairs = {pair}
  PairOf <- SamePair
  Paying = {pair}
  Speaking = {1}
  DefaultTimeout = 1
  SpeakingTimeout = 2
  Slack = 2
  Setup = 1
  Overrun = 1
  BaseDelay = 1
  MaxAttempts = 2
  SkipLocked = FALSE
  MaxFaults = 1
INVARIANTS
  TypeOK
  ExclusiveGrading
  AttemptsBounded
PROPERTIES
  ImplementsLifecycle
  EventuallySettled
