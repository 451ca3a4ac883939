SPECIFICATION Spec
CONSTANTS
  MaxPath = 3
INVARIANT
  StarsMatchSegments
CHECK_DEADLOCK FALSE
