SPECIFICATION Spec
CONSTANTS
  f1 = f1
  f2 = f2
  c1 = c1
  c2 = c2
  None = None
  Folders = {f1, f2}
  Callers = {c1, c2}
  Chunks = 1
SYMMETRY Symmetry
INVARIANTS
  IndexIsListed
PROPERTIES
  ListedIsKept
