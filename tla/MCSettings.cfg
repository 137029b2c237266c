SPECIFICATION PageSpec
CONSTANTS
  Ids = {1, 2, 3}
  Retained = 2
  Refused = {2}
  MaxMishaps = 1
  MaxEdits = 2
  MaxFaults = 1
INVARIANTS
  AnswersAreTrue
  ShownIsOnDisk
  WipedStaysWiped
PROPERTIES
  EditsKept
  NothingResetAway
CHECK_DEADLOCK FALSE
