SPECIFICATION Spec
CONSTANTS
  w1 = w1
  w2 = w2
  p1 = p1
  p2 = p2
  pair = pair
  Submissions = {1}
  Workers = {w1}
  Processes = {p1}
  ProcessOf <- OneProcess
  Pairs = {pair}
  PairOf <- SamePair
  Paying = {pair}
  Speaking = {1}
  DefaultTimeout = 1
  SpeakingTimeout = 2
  Slack = 2
  Setup = 1
  Overrun = 1
  BaseDelay = 1
  MaxAttempts = 3
  SkipLocked = TRUE
  MaxFaults = 1
PROPERTIES
  ShutdownReturnsWork
