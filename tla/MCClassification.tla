-------------------------- MODULE MCClassification ---------------------------
(***************************************************************************)
(* The instance of Classification and of the inbox above it: two movements *)
(* that calls classify, one that cannot be and three that only wait, one   *)
(* rule to begin with and two that may be added.                           *)
(***************************************************************************)
EXTENDS PendingInbox, TLC

CONSTANTS c1, c2, m1, m2, m3, m4, m5, m6, k0, k1, k2, food, rent

\* The first and the third to the fourth match a rule, the second and the last none.
Newest == [m \in Movements |-> CASE m = m1 -> 1 [] m = m2 -> 2 [] m = m4 -> 3
                               [] m = m5 -> 4 [] m = m6 -> 5 [] m = m3 -> 6]

CallersSymmetry == Permutations(Callers)

Draft(matches, priority, target) ==
  [matches |-> matches, priority |-> priority, target |-> target]

NoDraft == Draft({}, 1, food)
First == Draft({m1, m3, m4, m5}, 1, food)

OneRule ==
  {[id |-> 1, draft |-> First, status |-> "ACTIVE", key |-> k0, digest |-> First]}

Request(op, key, movement, shares, draft, fits, items) ==
  [op |-> op, key |-> key, movement |-> movement, shares |-> shares, draft |-> draft,
   fits |-> fits, items |-> items, supersedes |-> None, rule |-> None]

Call(op, key, movement, shares, draft, fits) ==
  Request(op, key, movement, shares, draft, fits, <<>>)

Apply(items) == Request("apply", k0, Head(items), food, NoDraft, TRUE, items)

Menu ==
  {Call("classify", k1, m1, rent, NoDraft, TRUE),
   Call("classify", k2, m1, food, NoDraft, TRUE),
   Call("classify", k1, m2, rent, NoDraft, TRUE),
   Call("classify", k2, m1, food, NoDraft, FALSE),
   Call("classify", k2, m3, food, NoDraft, TRUE),
   Apply(<<m1>>),
   Apply(<<m3, m1>>),
   Call("create_rule", k1, m1, food, Draft({m1}, 1, rent), TRUE),
   Call("create_rule", k1, m1, food, Draft({m1}, 2, rent), TRUE),
   Call("create_rule", k2, m1, food, Draft({m1}, 2, rent), FALSE),
   Call("disable", k0, m1, food, NoDraft, TRUE)}
=============================================================================
