CONSTANTS
  Proc = {p1, p2}
  Source = {s1, s2}
  Chunks = 1
  Limit = 1
  None = None
  MaxRare = 1
  Meta = Meta
  PerDay = 2
  MaxTime = 3
  Sentence <- Texts
  Vocabulary <- Pieces
  MaxTokens = 4
  Overlap = 2
  Window = 4
  MaxText = 4
  Inodes = 3
  Parts = 2
  MaxVersion = 2
  MaxCuts = 1
  MaxRetries = 1
  MaxCalls = 2
  MaxNumber = 2
  MaxDeaths = 1
SPECIFICATION MCSpec
SYMMETRY Symmetry
CHECK_DEADLOCK FALSE
INVARIANTS
  TypesOK
  AnswersLive
  UploadsAreStored
  
  EverySentenceEmbedded
  ReadyIsWhole
  
