SPECIFICATION FairSpec
CONSTANTS
  Auths = {a1, a2}
  NoExecutor = {a2}
  Workers = {w1}
  JobsCap = 1
  Interval = 2
  PendingBackoff = 1
  FailureBackoff = 2
  IneffectiveBackoff = 1
  Life = 2
  MaxTime = 2
  MaxChanges = 2
INVARIANTS
  NeverForgotten
PROPERTIES
  NoTightLoop
  DueIsRefreshed
CHECK_DEADLOCK FALSE
