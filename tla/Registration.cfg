SPECIFICATION RegistrationSpec
CONSTANTS
  m1 = m1
  m2 = m2
  NoVersion = 0
  AuthModels <- MCModels
  Versions = {1, 2}
  ModelsOf <- MCModelsOf
  Requests = {1}
  MaxCatalog = 1
  MaxUpdates = 2
  MaxResults = 1
  MaxRefreshes = 1
CHECK_DEADLOCK FALSE
INVARIANTS
  AllAgree
  RemovedNotServed
