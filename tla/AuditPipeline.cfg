SPECIFICATION FairSpec
CONSTANTS
  Writers = {w1, w2}
  BufferSize = 2
  maxSize = 2
  MaxEntries = 4
  MaxCrashes = 2
  None = None
  Attributes <- MCAttributes
  Filters <- MCFilters
  Limits = {1, 2, 3}
INVARIANTS
  NoLostWakeup
  ShutdownFlushes
  IndexIsLogTail
  OneGluedPerCrash
  PagesComplete
PROPERTIES
  ImplementsLog
  EventuallyStored
  ShutdownEnds
\* After a shutdown the process has exited.
CHECK_DEADLOCK FALSE
