SPECIFICATION Spec
CONSTANTS
  Producer = {p1, p2, p3}
  Base = 2
  Rates = {1, 3, 5}
INVARIANTS WaitGroupExact
PROPERTY RunIsBarrier
CHECK_DEADLOCK FALSE
