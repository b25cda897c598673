SPECIFICATION PoolSpec
CONSTANTS
  Producer = {p1, p2}
  Base = 2
  Rates = {1, 3}
  Concurrency = 1
  QueueCap = 1
  TriggerCap = 2
  MaxStrickers = 1
INVARIANTS PoolTypeOK StrickersStay
PROPERTIES RunEnds StopReturns
CHECK_DEADLOCK FALSE
