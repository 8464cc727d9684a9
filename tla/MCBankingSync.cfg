SPECIFICATION FairSpec
CONSTANTS
  c1 = c1
  c2 = c2
  c3 = c3
  k1 = k1
  k2 = k2
  a1 = a1
  Callers = {c1, c2}
  Keys = {k1, k2}
  Accounts = {a1}
  PageLimit = 2
INVARIANTS TypeOK SingleFlight DisconnectionIsClean ReportsWhatItStored EveryPathCloses
PROPERTIES ClosedTakesNoWrite EveryCallReturns
