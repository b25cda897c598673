SPECIFICATION Spec
CONSTANTS
  Base = 1
  Settings <- SomeSettings
  Profiles <- SomeProfiles
  MaxChanges <- Changes
  Watching <- Pairs
  DeleteCap = 1
  DestroyCap = 1
INVARIANTS CommandLineTypeOK ExitComplete FollowsProfile EnoughStrickers
PROPERTIES ProgramEnds EditsSettle
CHECK_DEADLOCK FALSE
