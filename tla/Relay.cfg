SPECIFICATION Spec
CONSTANTS
  Requests = {r1, r2}
  Nobody = nobody
  Capacity = 1
  MaxMessages = 3
INVARIANTS
  NoWaiterLost
  PanicsOnlyWhenGivenUp
  NoCutAnswer
  NoEntryLeft
  CredentialFollows
SYMMETRY MCSymmetry
CHECK_DEADLOCK FALSE
