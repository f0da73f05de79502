SPECIFICATION ApartSpec
CONSTANTS
  a = a
  b = b
  c1 = c1
  c2 = c2
  Folders = {a}
  Callers = {c1, c2}
  Observers = {1, 2}
  Timers = {1, 2}
  None = 0
  MaxVersions = 2
  MaxEvents = 1
CHECK_DEADLOCK FALSE
INVARIANTS
  AddedIsWatched
PROPERTIES
  LastChangeIsRead
