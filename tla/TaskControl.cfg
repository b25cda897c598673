SPECIFICATION MixedSpec
CONSTANTS
  Producer = {p1, p2, p3}
  Base = 1
  Rates = {1, 2}
  Updaters = {u1}
  PillCap = 4
  DestroyCap = 3
  Budgets <- Mixes
CONSTRAINT NotRaced
SYMMETRY Symmetry
INVARIANTS TaskTypeOK PillAccounting PillsSuffice OrphanCause SettingsAgree
CHECK_DEADLOCK FALSE
