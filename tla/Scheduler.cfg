SPECIFICATION Spec
CONSTANTS
  m1 = m1
  gemini = gemini
  codex = codex
  NoProvider = NoProvider
  Auths = {1, 2, 3}
  Providers <- MCProviders
  WsProviders <- MCWsProviders
  Models = {m1}
  Priorities = {0, 1}
  Snapshots <- MCSnapshots
  MaxTime = 2
INVARIANTS
  ShardsMatch
  SinglePickIsRight
  MixedPickIsRight
  RotationFair
  MixedFair
