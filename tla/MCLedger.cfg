SPECIFICATION ApiSpec
CONSTANTS
  c1 = c1
  c2 = c2
  a1 = a1
  a2 = a2
  a3 = a3
  Callers = {c1, c2}
  Accounts = {a1, a2, a3}
  Founded = {a1, a2}
  Dates = {1, 2}
  Requests <- Drafts
  Payloads <- Menu
  Queries <- Reads
  MaxCalls = 4
SYMMETRY CallersSymmetry
INVARIANTS OneEffectPerKey EffectsAreWhole AuditMatchesLedger AnswersAreTrue WaitsNeverClose
PROPERTIES StatementsAreTrue
