SPECIFICATION FairSpec
CONSTANTS
  Kinds <- AllKinds
  Callers = {c1, c2}
  Workers = {w1, w2}
  MaxItems = 2
  MaxVersions = 2
INVARIANTS
  AnswersComplete
PROPERTIES
  BatchesAnswered
  StopEnds
