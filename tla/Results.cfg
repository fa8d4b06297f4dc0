SPECIFICATION Spec
CONSTANTS
  m1 = m1
  m2 = m2
  w1 = w1
  w2 = w2
  Models <- MCModels
  Workers <- MCWorkers
  AuthCooldown = 1
  LongCooldown = 2
  TransientBase = 1
  TransientMax = 2
  QuotaBase = 1
  QuotaMax = 2
  RetryAfter = 2
  MaxTime = 2
  MaxActs = 3
SYMMETRY MCSymmetry
CHECK_DEADLOCK FALSE
INVARIANTS
  MemoryMatchesFile
  ReenabledServes
  SchedulerFollows
  MarksFollow
  AggregateIsSound
