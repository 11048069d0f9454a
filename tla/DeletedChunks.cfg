CONSTANTS
  Proc = {p1}
  Source = {s1, s2}
  Chunks = 1
  Limit = 1
  None = None
  MaxRare = 0
  Meta = Meta
  PerDay = 2
  MaxTime = 3
  Sentence <- Texts
  Vocabulary <- Pieces
  MaxTokens = 4
  Overlap = 2
  Window = 4
  MaxText = 4
  Inodes = 3
  Parts = 2
  MaxVersion = 2
  MaxCuts = 1
  MaxRetries = 1
  MaxCalls = 2
  MaxNumber = 2
  MaxDeaths = 1
SPECIFICATION MCSpec
SYMMETRY Symmetry
CHECK_DEADLOCK FALSE
INVARIANTS DeleteReachesServer
