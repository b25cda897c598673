SPECIFICATION Spec
CONSTANTS
  t1 = t1
  t2 = t2
  t3 = t3
  t4 = t4
  t5 = t5
  t6 = t6
  once = once
  circle = circle
  random = random
  absent = absent
  folder = folder
  Missing = missing
  Folder = anyfolder
  BufferSize = 2
  Client = {c1, c2}
  Stricker = {s1, s2}
  Task <- SomeTasks
  File <- SomeFiles
  FilesOf <- Files
  Kind <- Kinds
  Content <- Contents
  Values <- Columns
  Texts <- Placeholders
  Profiles <- SomeProfiles
  MaxReads = 3
INVARIANTS DataTypeOK FileOrder CrashCause
PROPERTIES RequestEnds
CHECK_DEADLOCK FALSE
