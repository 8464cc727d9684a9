SPECIFICATION Spec
CONSTANTS
  c1 = c1
  c2 = c2
  c3 = c3
  k1 = k1
  k2 = k2
  a1 = a1
  Callers = {c1, c2, c3}
  Keys = {k1, k2}
  Accounts = {a1}
  PageLimit = 2
SYMMETRY Symmetry

INVARIANTS DisconnectedHasNoRun
