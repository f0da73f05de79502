SPECIFICATION ObservedSpec
CONSTANTS
  a = a
  b = b
  x = x
  y = y
  t1 = t1
  t2 = t2
  t3 = t3
  NoTask = NoTask
  NoFile = NoFile
  NoFolder = NoFolder
  Folders = {a}
  Files = {x, y}
  FilesIn <- Single
  KeywordOnly = {y}
  Tasks = {t1, t2}
  Callers = {c1}
  RamGB = 8
  Cores = 8
  MaxClock = 2
  Forces = {FALSE}
SYMMETRY TaskSymmetry
INVARIANTS
  TypeOK
  CompletedReportsEveryFile
  PauseStopsAfterOneFile
