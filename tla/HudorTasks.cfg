SPECIFICATION HudorSpec
CONSTANTS
  Client = {c1, c2}
  Task = {t1, t2}
  Closing = closing
  MaxInits = 1
  MaxRuns = 3
INVARIANTS HudorTypeOK OneRunAlone TokensOwed WorkingListed
SYMMETRY Symmetry
PROPERTIES RunStarts
CHECK_DEADLOCK FALSE
