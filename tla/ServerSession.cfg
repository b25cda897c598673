SPECIFICATION Spec
CONSTANTS
  p1 = p1
  p2 = p2
  t1 = t1
  t2 = t2
  Client = {c1, c2}
  Task <- SomeTasks
  TasksOf <- SomeProfiles
  Missing = missing
  Broken <- SomeBroken
  Mixes <- SomeMixes
  PageSize = 2
  MaxLines = 2
SYMMETRY Symmetry
INVARIANTS SessionTypeOK PageOrder PanicCause 
CHECK_DEADLOCK FALSE
