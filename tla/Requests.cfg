SPECIFICATION RequestsSpec
CONSTANTS
  a1 = a1
  a2 = a2
  plain = plain
  stream = stream
  m = m
  None = None
  Models = {m}
  Auths = {a1, a2}
  Requests = {plain, stream}
  Streams = {stream}
  Codex = {a1}
  Retry <- MCRetry
  Settings <- MCSettings
  Errors <- MCErrors
  AuthCooldown = 3
  LongCooldown = 3
  TransientBase = 2
  TransientMax = 2
  QuotaBase = 1
  QuotaMax = 1
  RetryAfter = 1
CHECK_DEADLOCK FALSE
PROPERTIES
  RequestsEnd
INVARIANTS
  RecordedOnce
  WaitIsWorthIt
