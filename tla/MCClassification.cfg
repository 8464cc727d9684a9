SPECIFICATION InboxSpec
CONSTANTS
  c1 = c1
  c2 = c2
  m1 = m1
  m2 = m2
  m3 = m3
  m4 = m4
  m5 = m5
  m6 = m6
  k0 = k0
  k1 = k1
  k2 = k2
  food = food
  rent = rent
  Callers = {c1, c2}
  Movements = {m1, m2, m3, m4, m5, m6}
  Eligible = {m1, m2, m4, m5, m6}
  FirstRules <- OneRule
  Requests <- Menu
  Rank <- Newest
  PostedLater = {m5}
  Filters = {"any", "MATCHED", "NO_MATCH"}
  PageLimit = 2
  ScanBatchSize = 2
  MaxScanBatches = 2
  WalkCost = 2
  MaxCalls = 4
SYMMETRY CallersSymmetry
INVARIANTS AnswersAreTrue
PROPERTIES KeepsContract VerdictsAreCurrent InboxMissesNothing
