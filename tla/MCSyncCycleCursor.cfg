SPECIFICATION Spec
CONSTANTS
  a1 = a1
  a2 = a2
  a3 = a3
  Accounts = {a1, a2}
  Upgraded = FALSE
  Pages <- TwoPages
  PageLimit = 1
  AccountLimit = 1
INVARIANTS CursorBelongsToCycle
