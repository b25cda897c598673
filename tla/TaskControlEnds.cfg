SPECIFICATION EndsSpec
CONSTANTS
  Producer = {p1, p2}
  Base = 1
  Rates = {1, 2}
  Updaters = {u1}
  PillCap = 1
  DestroyCap = 2
  Budgets <- OneUpdate
PROPERTIES TaskEnds
CHECK_DEADLOCK FALSE
