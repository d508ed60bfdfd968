SPECIFICATION Spec
CONSTANTS
  w1 = w1
  w2 = w2
  p1 = p1
  p2 = p2
  pair = pair
  Submissions = {1, 2}
  Workers = {w1, w2}
  Processes = {p1, p2}
  ProcessOf <- TwoProcesses
  Pairs = {pair}
  PairOf <- SamePair
  Paying = {pair}
  Speaking = {1}
  DefaultTimeout = 1
  SpeakingTimeout = 2
  Slack = 0
  Setup = 1
  Overrun = 2
  BaseDelay = 1
  MaxAttempts = 2
  SkipLocked = TRUE
  MaxFaults = 1
INVARIANTS
  GradedHasScore
PROPERTIES
  GradedIsFinal
