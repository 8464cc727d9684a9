------------------------- MODULE MCProviderAccess --------------------------
(***************************************************************************)
(* The instance of ProviderAccess: two callers, two pairs of credentials,  *)
(* three records on pages of one, and two attempts of a request.           *)
(***************************************************************************)
EXTENDS ProviderAccess, TLC

CONSTANTS c1, c2, k1, k2

CallersSymmetry == Permutations(Callers) \cup Permutations(Credentials)
=============================================================================
