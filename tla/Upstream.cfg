SPECIFICATION FairSpec
CONSTANTS
  MaxAttempts = 2
  Conns = {1, 2}
  NoConn = 0
  Auths = {1, 2}
  NoAuth = 0
  Capacity = 2
CONSTRAINT MCInOrder
INVARIANTS
  NoAttemptStranded
  AnswersAreOwn
  OwnCredential
  NoOrphan
  CrashNeedsTwoConnections
PROPERTIES
  AttemptsEnd
CHECK_DEADLOCK FALSE
