\* Keys, secrets, sealing and crashes.  Two names and three versions in all:
\* a key can be rotated, deleted and created again, and restored from an older
\* image, in one behaviour.
SPECIFICATION VaultSpec
CONSTANTS
  Names = {k1, k2}
  MaxDraws = 3
  MaxVaultDraws = 2
  MinVersions = {1, 2}
  Paths = {p1}
  Data = {d1, d2}
  ShareCounts <- SomeShareCounts
  Thresholds <- SomeThresholds
  DefaultThreshold = 2
  MaxPuts = 2
  Callers = {c1, c2}
INVARIANTS
  CipherMatchesKey
  KeyDelivered
  AnswersAgree
  VersionNamesContents
PROPERTIES
  UnsealedAtThreshold
