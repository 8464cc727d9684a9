SPECIFICATION Spec
CONSTANTS
  c1 = c1
  c2 = c2
  k1 = k1
  k2 = k2
  Callers = {c1, c2}
  Credentials = {k1, k2}
  Records = {1, 2, 3, 4}
  Barred = {"bills"}
  PageSize = 1
  MaxPages = 3
  MaxRecords = 3
  MaxAttempts = 2
  MaxCalls = 2
  MaxChanges = 2
CHECK_DEADLOCK FALSE
SYMMETRY CallersSymmetry
INVARIANTS RequestsAreBounded
PROPERTIES WritesBuildOnWhatWasSeen OneLapseIsHealed CollectionWasHeld
