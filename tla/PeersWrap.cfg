CONSTANTS
  Uids = {1}
  Changers = {c1}
  TimeWidth = 4
  DeadAfter = 2
  MaxNow = 5
CHECK_DEADLOCK FALSE
SPECIFICATION PSpec
PROPERTY DetectedDeadIsDead
