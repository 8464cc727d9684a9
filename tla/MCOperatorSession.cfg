SPECIFICATION Spec
CONSTANTS
  c1 = c1
  c2 = c2
  c3 = c3
  Callers = {c1, c2, c3}
  LockThreshold = 2
  LockDuration = 2
  SessionTtl = 2
  MaxClock = 3
  MaxCalls = 4
SYMMETRY CallersSymmetry
INVARIANTS EveryoneSharesTheResidence LockFollowsFailures
PROPERTIES EndedSessionsStayOut
