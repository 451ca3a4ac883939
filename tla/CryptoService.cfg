SPECIFICATION CryptoSpec
CONSTANTS
  Names <- PlainNames
  MaxDraws = 2
  MinVersions = {1}
  Paths = {}
  Data = {d1}
  ShareCounts = {1}
  Thresholds = {1}
  DefaultThreshold = 1
  MaxPuts = 0
  Callers = {op, w1, w2}
  Workers = {w1, w2}
  CacheSize = 2
  MaxLives = 1
SYMMETRY WorkerSymmetry
INVARIANTS
  DecryptOpens
  CiphertextsDecryptable
  FetchedIsCurrent
