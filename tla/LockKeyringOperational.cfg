SPECIFICATION VaultSpec
CONSTANTS
  MinVersions = {1}
  ShareCounts = {2}
  Thresholds = {2}
  DefaultThreshold = 2
  Callers = {c1, c2}
  Names = {k1}
  MaxDraws = 2
  MaxVaultDraws = 2
  Paths = {}
  Data = {d1}
  MaxPuts = 0
INVARIANT
  KeyringOperational
