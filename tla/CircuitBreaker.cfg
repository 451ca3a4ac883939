SPECIFICATION FairSpec
CONSTANTS
  Calls = {c1, c2, c3, c4}
  maxRequests = 2
  interval = 1
  timeout = 1
  FailNum = 1
  FailDen = 2
  Modulus = 6
INVARIANTS
  HalfOpenBudget
  NeverStuck
PROPERTY
  OpenForTimeout
  HalfOpenEnds
  Recovers
