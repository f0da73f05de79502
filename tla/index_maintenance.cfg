SPECIFICATION Spec
CONSTANTS
  f1 = f1
  f2 = f2
  w1 = w1
  w2 = w2
  NoFile = NoFile
  Files = {f1, f2}
  Type <- MdAndKeyword
  Contents = {1, 2}
  ChunkCount <- Shrinking
  BatchSize = 1
  Writers = {w1}
  Works <- AloneOnBoth
  MaxClock = 3
  Forces = {TRUE, FALSE}
  Ops = {"delete", "folder", "startup", "rechunk", "repair", "rebuild", "clear"}
  Faults = {}
  Reverts = FALSE
CHECK_DEADLOCK FALSE
INVARIANTS
  IndexedIsInKeywordSearch
  NothingWithoutARow
