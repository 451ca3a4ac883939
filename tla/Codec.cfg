SPECIFICATION Spec
CONSTANTS
  Bits64 = 16
  Bits32 = 8
  MaxCut = 4
  Samples <- MCSamples
INVARIANTS
  RoundTrip
  RelayKeepsFields
  NoPartialFields
CHECK_DEADLOCK FALSE
