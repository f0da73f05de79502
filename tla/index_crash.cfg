SPECIFICATION Spec
CONSTANTS
  f1 = f1
  f2 = f2
  w1 = w1
  w2 = w2
  NoFile = NoFile
  Files = {f1, f2}
  Type <- MdAndKeyword
  Contents = {1, 2, 3}
  ChunkCount <- Blanking
  BatchSize = 1
  Writers = {w1, w2}
  Works <- OneHelping
  MaxClock = 3
  Forces = {FALSE}
  Ops = {"startup", "rechunk", "clear"}
  Faults = {"crash", "store"}
  Reverts = FALSE
ACTION_CONSTRAINT ApartOrAlone
CHECK_DEADLOCK FALSE
INVARIANTS
  TypeOK
  IndexedIsSearchable
  KeywordOnlyIsFound
