SPECIFICATION FairSpec
CONSTANTS
  c1 = c1
  c2 = c2
  t1 = t1
  t2 = t2
  k1 = k1
  k2 = k2
  Clients = {c1, c2}
  Transactions = {t1, t2}
  Starts <- Starting
  Pages <- ProviderPages
  Readings = {1, 2}
  Decisions <- Menu
  FirstMovements <- OneMovement
  Limit = 1
  MaxCalls = 3
INVARIANTS BatchesNeverConflict NothingIsMissed ImportsAreWhole
PROPERTIES DecisionsAreCurrent RetriesAreTold EveryCallReturns
