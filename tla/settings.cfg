SPECIFICATION Spec
CONSTANTS
  m1 = m1
  m2 = m2
  k1 = k1
  k2 = k2
  c1 = c1
  c2 = c2
  None = None
  Torn = Torn
  Models = {m1, m2}
  Chunkings = {k1, k2}
  Folders = {}
  Default <- First
  Callers = {c1, c2}
  MaxStarts = 3
SYMMETRY CallerSymmetry
CHECK_DEADLOCK FALSE
INVARIANTS
  ConfigIsWhole
  OldChunksAreReindexed
  OtherModelIsReported
