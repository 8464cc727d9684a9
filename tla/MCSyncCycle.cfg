SPECIFICATION FairSpec
CONSTANTS
  a1 = a1
  a2 = a2
  a3 = a3
  Accounts = {a1, a2, a3}
  Upgraded = TRUE
  Pages <- ThreePages
  PageLimit = 2
  AccountLimit = 2
INVARIANTS FoundersFullyScanned
PROPERTIES LeastServedIsServed CycleCompletes
