SPECIFICATION AuthSpec
CONSTANTS
  Callers = {c1, c2}
  TTLs <- AskedTTLs
  DefaultTTL = 1
  MaxTTL = 2
  RefreshTTL = 2
  CacheTTL = 2
  CacheSize = 1
  MaxTokens = 2
  default = default
  p1 = p1
  Names = {default, p1}
  BuiltIn = {default}
  Rules <- PolicyRules
  BuiltInRules <- ReadOne
  NoRules = none
  Editors = {e1, e2}
  Queries <- PolicyRequests
  KeyTTLs <- AskedKeyTTLs
  MaxKeys = 2
  MaxClock = 3
INVARIANTS
  OwnTokensOnly
  BuiltInsInForce
  GrantedUnlessDeniedBefore
PROPERTIES
  DeadTokensLapse
  LoneChangeApplies
  RefusedForGood
