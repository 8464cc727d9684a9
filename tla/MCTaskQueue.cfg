SPECIFICATION FairSpec
CONSTANTS
  t1 = t1
  t2 = t2
  w1 = w1
  w2 = w2
  Tasks = {t1, t2}
  HandledTasks = {t1}
  Workers = {w1, w2}
  AttemptLimits = {2}
  EnqueueDelays = {0}
  LeaseSeconds = 3
  BeatSeconds = 1
  RetryBase = 1
  RetryMax = 1
  MaxInFlight = 1
INVARIANTS TypeOK AttemptBudget OneHolder PunctualOwnsLease
PROPERTIES NoStaleSettlement KeepsContract AcceptedSettles
