------------------------- MODULE MCOperatorSession --------------------------
(***************************************************************************)
(* The instance of OperatorSession: three callers, two failures that lock  *)
(* for two units of time, and sessions that live as long.                  *)
(***************************************************************************)
EXTENDS OperatorSession, TLC

CONSTANTS c1, c2, c3

CallersSymmetry == Permutations(Callers)
=============================================================================
