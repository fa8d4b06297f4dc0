SPECIFICATION Spec
CONSTANTS
  Clients = {c1, c2}
  Models = {m1}
  Providers = {p1, p2}
  NoProvider = NoProvider
  Handlers = {h1}
  MaxMult = 2
  MaxTime = 3
  QuotaWindow = 2
SYMMETRY Symmetry
INVARIANTS
  RegistryAddsUp
  CacheCoherent
  RebindStartsFresh
