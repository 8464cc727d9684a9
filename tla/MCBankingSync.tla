--------------------------- MODULE MCBankingSync ----------------------------
(***************************************************************************)
(* Model values and symmetry for the instances of BankingSync.             *)
(***************************************************************************)
EXTENDS BankingSync, TLC

Symmetry == Permutations(Callers) \cup Permutations(Keys)
=============================================================================
