SPECIFICATION Spec
CONSTANTS
  MaxWords = 4
  MinWords = 3
  OverlapWords = 1
  MinLength = 2
  SplitThreshold = 6
  TargetSize = 4
  Lines <- MCLines
  MaxLines = 6
  Source <- MCSource
  RrfK = 60
  OverFetch = 2
  Threshold = 3000
  TopN = 3
  Relevance = 8
  Penalty = 5
  MaxPerSource = 2
INVARIANTS
  OnlyTheTailIsLost
  ChunkIsAPassage
  PathIsWhereItBegins
  FusionRespectsBoth
  BestComesFirst
  ScoresDescend
  RelatedIsFull
CHECK_DEADLOCK FALSE
