SPECIFICATION HudorSpec
CONSTANTS
  Client = {c1, c2}
  Task = {t1}
  Closing = closing
  MaxInits = 1
  MaxRuns = 2
INVARIANTS OneRun
CHECK_DEADLOCK FALSE
