------------------------------ MODULE MCLedger ------------------------------
(***************************************************************************)
(* The instance of FinancialApi: menus of calls on two accounts and on one *)
(* that is opened meanwhile.                                               *)
(***************************************************************************)
EXTENDS FinancialApi, TLC

CONSTANTS c1, c2, a1, a2, a3

CallersSymmetry == Permutations(Callers)

Call(op, key, from, to, date) ==
  [op |-> op, key |-> key, from |-> from, to |-> to, amount |-> 5,
   date |-> date, target |-> None]

\* Creations and reversals of movements and of a transfer race under three
\* keys, on both sides of an opening; the legs of the transfer are movements
\* that a reversal may name too.  One transfer has a single account.
Menu ==
  {Call("income", "k1", a1, a1, 2), Call("expense", "k1", a1, a1, 1),
   Call("income", "k2", a1, a1, 2), Call("expense", "k2", a3, a3, 2),
   Call("reverse", "k2", a1, a1, 2), Call("reverse", "k3", a1, a1, 2),
   Call("transfer", "k1", a1, a2, 2), Call("transfer", "k1", a2, a1, 1),
   Call("transfer", "k1", a1, a1, 1),
   Call("untransfer", "k2", a1, a1, 2), Call("untransfer", "k3", a1, a1, 2),
   Call("open", NoKey, a1, a1, 2), Call("account", NoKey, a3, a3, 1)}

Drafts == {Draft(p) : p \in {q \in Menu : WellFormed(q)}}

Reading(op, account) == Call(op, NoKey, account, account, 1)

Reads ==
  {Reading("statement", a1), Reading("transfers", a2), Reading("opening", a3),
   Reading("movement", a1), Reading("movements", a3), Reading("accounts", a1)}
=============================================================================
