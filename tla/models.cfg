SPECIFICATION FairSpec
CONSTANTS
  t1 = t1
  t2 = t2
  h1 = h1
  h2 = h2
  m1 = m1
  m2 = m2
  Callers = {t1, t2, h1, h2}
  Threads = {t1, t2}
  Names = {m1, m2}
  Model = m1
  Timeout = 900
  MaxOrphans = 1
  NoThread = NoThread
  Timers = {1, 2}
  NoTimer = 0
  Faults = {"load", "infer"}
INVARIANTS
  LoadsOnlyOnce
  QuietIsNotDownloading
  CachedIsThere
PROPERTIES
  EveryCallEnds
  IdleUnloads
