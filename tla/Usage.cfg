SPECIFICATION FairSpec
CONSTANTS
  Published = {r1, r2, r3}
  Plugins = {p1, p2}
PROPERTIES
  DeliversAndEnds
INVARIANTS
  EveryRecordInOrder
CHECK_DEADLOCK FALSE
