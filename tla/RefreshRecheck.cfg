SPECIFICATION FairSpec
CONSTANTS
  Auths = {a1}
  NoExecutor = {}
  Workers = {w1}
  JobsCap = 1
  Interval = 2
  PendingBackoff = 2
  FailureBackoff = 2
  IneffectiveBackoff = 2
  Life = 2
  MaxTime = 2
  MaxChanges = 2
PROPERTIES
  LimitedIsRechecked
CHECK_DEADLOCK FALSE
