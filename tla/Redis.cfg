SPECIFICATION Spec
CONSTANTS
  Records <- MCRecords
  Poppers <- MCPoppers
  Counts <- MCCounts
  Windows <- MCWindows
  CompactAt = 2
  MaxTime = 3
INVARIANTS
  AtMostOneLeft
PROPERTIES
  IsFifo
  PopFresh
CHECK_DEADLOCK FALSE
