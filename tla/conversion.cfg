SPECIFICATION FairSpec
CONSTANTS
  c1 = c1
  c2 = c2
  f1 = f1
  f2 = f2
  Callers = {c1}
  Files = {f1, f2}
  Procs = {1, 2, 3}
  NoProc = 0
  Retries = 3
INVARIANTS
  AnswerIsForFile
  OneProcess
  ConverterStays
PROPERTIES
  EveryConversionEnds
