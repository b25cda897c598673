SPECIFICATION HudorSpec
CONSTANTS
  Client = {c1}
  Task = {t1}
  Closing = closing
  MaxInits = 2
  MaxRuns = 3
INVARIANTS CloseDrains
PROPERTIES CallsReturn TaskRetires
CHECK_DEADLOCK FALSE
