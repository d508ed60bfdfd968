SPECIFICATION Spec
CONSTANTS
  talk = talk
  interview = interview
  Answers = {talk, interview}
  PartOf <- PartOfAnswer
  Talk = talk
  Mode = "full"
  Reviewed = {2}
  Slots = 1
  MaxAttempts = 2
  Bands = {9, 10}
  Measures <- Recordings
CHECK_DEADLOCK FALSE
INVARIANTS
  PronunciationNeverFailsTheTest
