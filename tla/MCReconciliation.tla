-------------------------- MODULE MCReconciliation --------------------------
(***************************************************************************)
(* The instance of Reconciliation: two transactions of an account, pages   *)
(* that name them in either order, and decisions of every kind under two   *)
(* keys, one of them for both transactions.                                *)
(***************************************************************************)
EXTENDS Reconciliation, TLC

CONSTANTS c1, c2, t1, t2, k1, k2

Symmetry == Permutations(Clients)

Obs(t, status, amount) == [t |-> t, status |-> status, amount |-> amount]

ProviderPages ==
  {<<Obs(t1, "CONFIRMED", 5), Obs(t2, "CONFIRMED", -5)>>,
   <<Obs(t2, "CONFIRMED", 5), Obs(t1, "DELETED", 5)>>}

Row(status, amount) == [status |-> status, amount |-> amount, seen |-> 1, updated |-> 1]

\* An account with one transaction that is still pending, and one with two that
\* are settled.
Starting ==
  {[t \in Transactions |-> IF t = t1 THEN Row("PENDING", 5) ELSE NoObs],
   [t \in Transactions |-> Row("CONFIRMED", 5)]}

Decision(t, decision, key, movement, fits) ==
  [t |-> t, decision |-> decision, key |-> key, movement |-> movement, fits |-> fits]

Menu ==
  {Decision(t1, "IMPORT_AS_INCOME", k1, 0, TRUE),
   Decision(t2, "IMPORT_AS_INCOME", k1, 0, TRUE),
   Decision(t2, "IMPORT_AS_EXPENSE", k2, 0, TRUE),
   Decision(t1, "LINK_EXISTING_MOVEMENT", k2, 1, TRUE),
   Decision(t1, "IGNORE", k1, 0, TRUE)}

OneMovement == {[id |-> 1, amount |-> 5, key |-> "manual", digest |-> "manual"]}
=============================================================================
