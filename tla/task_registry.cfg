SPECIFICATION Spec
CONSTANTS
  a = a
  b = b
  x = x
  y = y
  t1 = t1
  t2 = t2
  t3 = t3
  NoTask = NoTask
  NoFile = NoFile
  NoFolder = NoFolder
  Folders = {a}
  Files = {x}
  FilesIn <- OneFile
  KeywordOnly = {}
  Tasks = {t1, t2}
  Callers = {c1, c2}
  RamGB = 8
  Cores = 8
  MaxClock = 1
  Forces = {FALSE}
SYMMETRY TaskSymmetry
INVARIANTS
  OneUncancelledTaskPerFolder
  RunningIsAlive
  OneSlot
PROPERTIES
  ImplementsOneWriter
