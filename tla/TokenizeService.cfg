SPECIFICATION MCSpec
CONSTANTS
  Names = {k1, k2}
  MaxDraws = 2
  MinVersions = {1}
  Paths = {}
  Data = {d1}
  ShareCounts = {1}
  Thresholds = {1}
  DefaultThreshold = 1
  MaxPuts = 0
  Callers = {op, w1, w2}
  Workers = {w1, w2}
  CacheSize = 1
  BuiltIn = {"alpha-lower"}
  Custom = {mine}
  Alphabets = {hex}
  MaxTokens = 1
  MaxLives = 1
  Values <- ShortValues
  Preserve <- AroundLengths
  MaskChar = 9
SYMMETRY WorkerSymmetry
INVARIANTS
  SameVersionOpens
  MaskShowsAsked
