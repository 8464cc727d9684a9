----------------------- MODULE ClassificationContract ------------------------
(***************************************************************************)
(* What classification promises, with transactions and locks left out.     *)
(* The classification of a movement is a chain that only grows, one        *)
(* revision at a time.  A rule starts a chain and never continues one, and *)
(* it starts it only while it is the single active rule of highest         *)
(* priority for that movement.                                             *)
(***************************************************************************)
EXTENDS Naturals, Sequences

CONSTANTS Movements

VARIABLES
  chain,    \* the revisions of each movement, oldest first
  active    \* the rules in force

vars == <<chain, active>>

Manual == 0   \* no rule made this revision; ids of rules are positive

Candidates(m) == {r \in active : m \in r.draft.matches}
Top(m) ==
  {r \in Candidates(m) : \A s \in Candidates(m) : s.draft.priority <= r.draft.priority}

\* What an application of the rule with this id to m answers in this state.
Verdict(m, id) ==
  IF chain[m] # <<>> THEN "already"
  ELSE IF Top(m) = {} THEN "no_match"
  ELSE IF \E r, s \in Top(m) : r # s THEN "ambiguous"
  ELSE IF \E r \in Top(m) : r.id = id THEN "classified"
  ELSE "conflict"

Init ==
  /\ chain = [m \in Movements |-> <<>>]
  /\ \A r \in active : r.id # Manual

\* The operator classifies m, or revises its classification.
Revise(m) ==
  /\ Len(chain'[m]) = Len(chain[m]) + 1
  /\ chain'[m][Len(chain'[m])].rule = Manual
  /\ chain' = [chain EXCEPT ![m] = Append(chain[m], chain'[m][Len(chain'[m])])]
  /\ UNCHANGED active

ApplyRule(m, r) ==
  /\ Verdict(m, r.id) = "classified"
  /\ chain' = [chain EXCEPT ![m] = <<[shares |-> r.draft.target, rule |-> r.id]>>]
  /\ UNCHANGED active

\* Rules come into force and leave it, one at a time.
ChangeRules ==
  /\ UNCHANGED chain
  /\ \/ \E r \in active' \ active : active' = active \cup {r}
     \/ \E r \in active \ active' : active' = active \ {r}

Next ==
  \/ \E m \in Movements : Revise(m) \/ \E r \in active : ApplyRule(m, r)
  \/ ChangeRules

Spec == Init /\ [][Next]_vars
=============================================================================
