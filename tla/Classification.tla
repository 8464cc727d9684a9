---------------------------- MODULE Classification ----------------------------
(***************************************************************************)
(* The classification of movements by allocation sets, and the rules that  *)
(* suggest it (financial_movement_allocation_store.py,                     *)
(* financial_categorization_rule_store.py, migrations 0017 and 0021).      *)
(*                                                                         *)
(* As in Ledger, a call is one READ COMMITTED transaction and a step is    *)
(* one statement that other transactions can disturb.  Rows are never      *)
(* deleted, and only the status of a rule is ever updated, so a reread     *)
(* after a lost insert finds the row that won it and is part of that step. *)
(*                                                                         *)
(* Accounts, categories and the text of movements do not change: whether a *)
(* request closes against its movement is a field of the request, and a    *)
(* rule draft names the movements it is usable for and applies to.  The    *)
(* audit event of a set is written in the same transaction; Ledger says    *)
(* what ties the trail to its rows.                                        *)
(***************************************************************************)
EXTENDS Naturals, FiniteSets, Sequences

CONSTANTS
  Callers,     \* connections that API requests run on
  Movements,   \* finance.movements
  Eligible,    \* STANDARD movements of INCOME or EXPENSE on an own account
  FirstRules,  \* the categorization rules that are there at the beginning
  Requests,    \* the calls clients make, before their targets are chosen
  MaxCalls     \* bound: calls made in a behaviour

ASSUME EligibleAssumption == Eligible \subseteq Movements
ASSUME MaxCallsAssumption == MaxCalls \in Nat

Nobody == "nobody"
ASSUME CallersAssumption == IsFiniteSet(Callers) /\ Nobody \notin Callers

None == 0   \* a null reference; ids are positive
Ops == {"classify", "apply", "create_rule", "disable"}
RequestFields ==
  {"op", "key", "movement", "shares", "draft", "fits", "items", "supersedes", "rule"}

\* The keys that applications derive from a rule and a movement.
DerivedKeys == Nat \X Movements

\* No client draws a derived key.  An application gives the whole movement to the
\* category of its rule, which fits by itself.
ASSUME RequestsAssumption ==
  \A r \in Requests :
    /\ DOMAIN r = RequestFields
    /\ r.op \in Ops /\ r.movement \in Movements /\ r.fits \in BOOLEAN
    /\ IF r.op = "apply" THEN r.items \in Seq(Movements) \ {<<>>} /\ r.fits
       ELSE r.items = <<>> /\ r.key \notin DerivedKeys

Rule(id, draft, status, key, digest) ==
  [id |-> id, draft |-> draft, status |-> status, key |-> key, digest |-> digest]

ASSUME FirstRulesAssumption ==
  /\ IsFiniteSet(FirstRules)
  /\ \A r \in FirstRules :
       /\ r = Rule(r.id, r.draft, r.status, r.key, r.digest)
       /\ r.id \in Nat \ {None} /\ r.status \in {"ACTIVE", "DISABLED"}
       /\ \A s \in FirstRules : r.id = s.id \/ r.key = s.key => r = s

VARIABLES
  sets,      \* finance.movement_allocation_sets with shares and rule origin
  rules,     \* finance.categorization_rules
  pc,        \* the statement each caller runs next
  req,       \* its request
  work,      \* what its open transaction wrote
  rowLock,   \* who holds a movement row FOR UPDATE
  ruleLock,  \* who holds the advisory lock of the rule set
  answer,    \* what its last call returned
  calls      \* calls made so far

tables == <<sets, rules>>
locks == <<rowLock, ruleLock>>
vars == <<tables, pc, req, work, locks, answer, calls>>

NoWork == [sets |-> {}, rules |-> {}, off |-> {}]

-----------------------------------------------------------------------------
(* Rows *)

Open(rows) == {r \in rows : r.status = "ACTIVE"}

\* applies_to: the account, the result effect and the text of the description.
Applies(r, m) == m \in r.draft.matches

\* The rules that compete for m, those whose category can be used for it.
Matching(m, active) == {r \in active : Applies(r, m)}

\* Mutated: a tie is broken in favour of the oldest rule.
WinnersOldest(m, active) ==
  {r \in Matching(m, active) :
     \A s \in Matching(m, active) \ {r} :
       \/ s.draft.priority < r.draft.priority
       \/ s.draft.priority = r.draft.priority /\ r.id < s.id}

\* Those of highest priority: the rule that wins m, or several that tie.
Winners(m, active) ==
  {r \in Matching(m, active) :
     \A s \in Matching(m, active) : s.draft.priority <= r.draft.priority}

SetsOf(m) == {s \in sets : s.movement = m}

\* The set that no other one supersedes.
Current(m) == {s \in SetsOf(m) : \A t \in sets : t.supersedes # s.id}

Expected(r) == IF r.supersedes = None THEN {} ELSE {s \in sets : s.id = r.supersedes}

NextRevision(r) ==
  IF r.supersedes = None THEN 1
  ELSE (CHOOSE s \in sets : s.id = r.supersedes).revision + 1

SetDigest(r) == [movement |-> r.movement, supersedes |-> r.supersedes, shares |-> r.shares]

\* What names the effect of a call: the client's key, for the application of a
\* rule the key derived from the rule and the movement.
KeyOf(r) == IF r.op = "apply" THEN <<r.rule, r.movement>> ELSE r.key

DigestOf(r) == IF r.op = "create_rule" THEN r.draft ELSE SetDigest(r)

RowsWithKey(r) ==
  {row \in IF r.op = "create_rule" THEN rules ELSE sets : row.key = KeyOf(r)}

Replayed(r) ==
  IF \E row \in RowsWithKey(r) : row.digest = DigestOf(r) THEN "ok" ELSE "conflict"

Ids(rows) == {row.id : row \in rows}

\* A new uuid; a free number.
Fresh(used) == CHOOSE n \in 1..(Cardinality(used) + 1) : n \notin used

NewSet(c) ==
  [id |-> Fresh(Ids(sets) \cup UNION {Ids(work[d].sets) : d \in Callers}),
   movement |-> req[c].movement,
   revision |-> NextRevision(req[c]),
   supersedes |-> req[c].supersedes,
   shares |-> req[c].shares,
   rule |-> None,
   key |-> KeyOf(req[c]),
   digest |-> DigestOf(req[c])]

NewRule(c) ==
  Rule(Fresh(Ids(rules) \cup UNION {Ids(work[d].rules) : d \in Callers}),
       req[c].draft, "ACTIVE", KeyOf(req[c]), DigestOf(req[c]))

-----------------------------------------------------------------------------
(* A call *)

\* The transaction of c is over: its locks go, and its rows unless committed.
End(c, kind, label) ==
  /\ answer' = [answer EXCEPT ![c] = kind]
  /\ pc' = [pc EXCEPT ![c] = label]
  /\ work' = [work EXCEPT ![c] = NoWork]
  /\ rowLock' = [m \in Movements |-> IF rowLock[m] = c THEN Nobody ELSE rowLock[m]]
  /\ ruleLock' = IF ruleLock = c THEN Nobody ELSE ruleLock
  /\ UNCHANGED <<req, calls>>

\* The call is over too, unless it has pairs left to apply: whatever became of
\* one, the next is tried.
Return(c, kind) == End(c, kind, IF req[c].items = <<>> THEN "idle" ELSE "pair")

Refuse(c, kind) == Return(c, kind) /\ UNCHANGED tables

Goto(c, label) ==
  /\ pc' = [pc EXCEPT ![c] = label]
  /\ UNCHANGED <<tables, req, answer, calls>>

Read(c, label) == Goto(c, label) /\ UNCHANGED <<work, locks>>

FirstStatement(op) ==
  IF op = "classify" THEN "lookup" ELSE IF op = "apply" THEN "pair" ELSE "rulelock"

\* The sets of m that reads have shown to clients: each was the current one once.
Shown(m) == Ids(SetsOf(m))

\* The pairs of a batch: a rule for each of its movements.
Pairs(movements, ids) == [i \in 1..Len(movements) |-> <<movements[i], ids[i]>>]

\* The drafts a request may become: a first classification or a revision of a set
\* that was shown, the rule to disable, a rule for each movement of a batch.
Targeted(r, s, t, ids) ==
  [r EXCEPT !.supersedes = s, !.rule = t, !.items = Pairs(r.items, ids)]

Drafts(r) ==
  {Targeted(r, s, t, ids) :
     s \in IF r.op = "classify" THEN Shown(r.movement) \cup {None} ELSE {None},
     t \in IF r.op = "disable" THEN Ids(rules) ELSE {None},
     ids \in [1..Len(r.items) -> Ids(rules)]}

\* A client calls.
Ask(c) ==
  /\ pc[c] = "idle" /\ calls < MaxCalls
  /\ \E r \in Requests : \E draft \in Drafts(r) :
       /\ req' = [req EXCEPT ![c] = draft]
       /\ pc' = [pc EXCEPT ![c] = FirstStatement(draft.op)]
  /\ answer' = [answer EXCEPT ![c] = "none"]
  /\ calls' = calls + 1
  /\ UNCHANGED <<tables, work, locks>>

\* The next pair of a batch, in a transaction of its own.
NextPair(c) ==
  LET pair == Head(req[c].items)
  IN /\ pc[c] = "pair"
     /\ req' = [req EXCEPT ![c].movement = pair[1], ![c].rule = pair[2],
                           ![c].items = Tail(@)]
     /\ pc' = [pc EXCEPT ![c] = "rulelock"]
     /\ answer' = [answer EXCEPT ![c] = "none"]
     /\ UNCHANGED <<tables, work, locks, calls>>

Lookup(c) ==
  /\ pc[c] = "lookup"
  /\ IF RowsWithKey(req[c]) # {}
     THEN Refuse(c, Replayed(req[c]))
     ELSE Read(c, "lock")

\* Mutated: the rule-set lock is not waited for.
RuleLockIgnored == TRUE

RuleLockFree == ruleLock = Nobody

\* pg_advisory_xact_lock, the first statement of everything about rules.
TakeRuleLock(c) ==
  /\ pc[c] = "rulelock"
  /\ RuleLockFree
  /\ ruleLock' = c
  /\ Goto(c, CASE req[c].op = "apply" -> "lock"
               [] req[c].op = "create_rule" -> "rulekey"
               [] req[c].op = "disable" -> "update")
  /\ UNCHANGED <<work, rowLock>>

\* finance.lock_standard_movement_for_allocation
LockMovement(c) ==
  /\ pc[c] = "lock"
  /\ rowLock[req[c].movement] = Nobody
  /\ IF req[c].movement \in Eligible
     THEN /\ rowLock' = [rowLock EXCEPT ![req[c].movement] = c]
          /\ Goto(c, IF req[c].op = "apply" THEN "current" ELSE "recheck")
          /\ UNCHANGED <<work, ruleLock>>
     ELSE Refuse(c, IF req[c].op = "apply" THEN "ineligible" ELSE "not_found")

\* Mutated: the key is not looked up again under the lock.
KeyTakenNever(r) == FALSE

KeyTaken(r) == RowsWithKey(r) # {}

\* The account is the operator's and active, the shares close against the
\* movement's amount, currency and sign, and its audience may see the categories.
Fits(r) == r.fits

\* With the lock: the key again, then the account, the shape and the categories,
\* whose refusals (404, 422) are one answer here.
Recheck(c) ==
  /\ pc[c] = "recheck"
  /\ IF KeyTaken(req[c]) THEN Refuse(c, Replayed(req[c]))
     ELSE IF ~Fits(req[c]) THEN Refuse(c, "invalid")
     ELSE Read(c, "current")

ReadCurrent(c) ==
  /\ pc[c] = "current"
  /\ IF req[c].op = "apply"
     THEN IF Current(req[c].movement) # {} THEN Refuse(c, "already")
          ELSE Read(c, "evaluate")
     ELSE IF Current(req[c].movement) # Expected(req[c]) THEN Refuse(c, "stale")
          ELSE Read(c, "insert")

\* The active rules of this moment, and the one that wins the movement.  The set
\* to be written takes its shares from it.
Evaluate(c) ==
  LET winners == Winners(req[c].movement, Open(rules))
  IN /\ pc[c] = "evaluate"
     /\ IF winners = {} THEN Refuse(c, "no_match")
        ELSE IF Cardinality(winners) > 1 THEN Refuse(c, "ambiguous")
        ELSE IF req[c].rule \notin Ids(winners) THEN Refuse(c, "conflict")
        ELSE /\ pc' = [pc EXCEPT ![c] = "insert"]
             /\ req' = [req EXCEPT ![c].shares = (CHOOSE r \in winners : TRUE).draft.target]
             /\ UNCHANGED <<tables, work, locks, answer, calls>>

SameKey(r, row) == row.key = KeyOf(r)

\* uq_finance_allocation_sets_movement_revision and _one_successor
SamePlace(r, row) ==
  \/ row.movement = r.movement /\ row.revision = NextRevision(r)
  \/ row.supersedes = r.supersedes /\ r.supersedes # None

\* The set and its shares.  ON CONFLICT is about the key; another violation of
\* uniqueness is an IntegrityError.
Insert(c) ==
  /\ pc[c] = "insert"
  /\ \A d \in Callers \ {c} : \A row \in work[d].sets :
       ~SameKey(req[c], row) /\ ~SamePlace(req[c], row)
  /\ IF \E row \in sets : SameKey(req[c], row)
     THEN Refuse(c, IF req[c].op = "apply" THEN "already" ELSE Replayed(req[c]))
     ELSE IF \E row \in sets : SamePlace(req[c], row) THEN Refuse(c, "conflict")
     ELSE /\ work' = [work EXCEPT ![c].sets = {NewSet(c)}]
          /\ Goto(c, IF req[c].op = "apply" THEN "origin" ELSE "commit")
          /\ UNCHANGED locks

\* The origin row of an applied rule: its trigger takes the rule FOR SHARE, which
\* waits for a transaction that disables it, and wants it to be active.
Origin(c) ==
  /\ pc[c] = "origin"
  /\ \A d \in Callers \ {c} : req[c].rule \notin work[d].off
  /\ IF req[c].rule \in Ids(Open(rules))
     THEN /\ work' = [work EXCEPT ![c].sets =
                        {[row EXCEPT !.rule = req[c].rule] : row \in work[c].sets}]
          /\ Goto(c, "commit")
          /\ UNCHANGED locks
     ELSE Refuse(c, "conflict")

-----------------------------------------------------------------------------
(* Rules *)

\* The category, and the account if the rule names one, are there, active and
\* open to those who see what the rule would classify.
RuleFits(r) == r.fits

\* create_rule: the key, then the category and the account it names.
RuleKey(c) ==
  /\ pc[c] = "rulekey"
  /\ IF RowsWithKey(req[c]) # {} THEN Refuse(c, Replayed(req[c]))
     ELSE IF ~RuleFits(req[c]) THEN Refuse(c, "not_found")
     ELSE Read(c, "rule")

InsertRule(c) ==
  /\ pc[c] = "rule"
  /\ \A d \in Callers \ {c} : \A row \in work[d].rules : row.key # KeyOf(req[c])
  /\ IF \E row \in rules : row.key = KeyOf(req[c])
     THEN Refuse(c, Replayed(req[c]))
     ELSE IF ~RuleFits(req[c]) THEN Refuse(c, "conflict")
     ELSE /\ work' = [work EXCEPT ![c].rules = {NewRule(c)}]
          /\ Goto(c, "commit")
          /\ UNCHANGED locks

\* Who holds the row of a rule: a transaction that disables it, or one that has
\* written an origin and keeps the rule FOR SHARE.
HoldsRule(d, id) == id \in work[d].off \/ \E row \in work[d].sets : row.rule = id

\* disable_rule: the update, or the second read that finds it done.
Update(c) ==
  /\ pc[c] = "update"
  /\ \A d \in Callers \ {c} : ~HoldsRule(d, req[c].rule)
  /\ IF req[c].rule \in Ids(Open(rules))
     THEN /\ work' = [work EXCEPT ![c].off = {req[c].rule}]
          /\ Goto(c, "commit")
          /\ UNCHANGED locks
     ELSE Refuse(c, "ok")

-----------------------------------------------------------------------------
(* The end of a transaction *)

AfterUpdate(off) ==
  {[r EXCEPT !.status = IF r.id \in off THEN "DISABLED" ELSE r.status] : r \in rules}

\* The deferred check of a set: its movement, its shares and its place.
Integral(r, row) ==
  /\ row.movement \in Eligible /\ Fits(r)
  /\ IF row.revision = 1 THEN row.supersedes = None
     ELSE \E s \in sets : s.id = row.supersedes /\ s.movement = row.movement
                           /\ row.revision = s.revision + 1

\* Everything the transaction wrote appears at once; its answer may be lost.
Commit(c) ==
  /\ pc[c] = "commit"
  /\ IF \E row \in work[c].sets : ~Integral(req[c], row) THEN Refuse(c, "conflict")
     ELSE /\ sets' = sets \cup work[c].sets
          /\ rules' = AfterUpdate(work[c].off) \cup work[c].rules
          /\ \/ Return(c, IF req[c].op = "apply" THEN "classified" ELSE "ok")
             \/ Return(c, "lost")

\* The connection breaks and PostgreSQL undoes the transaction, which a batch
\* counts as FAILED; or the process ends, and the rest of the call with it.
Cut(c) ==
  /\ pc[c] # "idle"
  /\ \/ pc[c] # "pair" /\ Refuse(c, "lost")
     \/ req[c].items # <<>> /\ End(c, "lost", "idle") /\ UNCHANGED tables

-----------------------------------------------------------------------------
(* Specification *)

Init ==
  /\ sets = {}
  /\ rules = FirstRules
  /\ pc = [c \in Callers |-> "idle"]
  /\ req = [c \in Callers |-> [op |-> "none", items |-> <<>>]]
  /\ work = [c \in Callers |-> NoWork]
  /\ rowLock = [m \in Movements |-> Nobody]
  /\ ruleLock = Nobody
  /\ answer = [c \in Callers |-> "none"]
  /\ calls = 0

Statement(c) ==
  \/ NextPair(c) \/ Lookup(c) \/ TakeRuleLock(c) \/ LockMovement(c) \/ Recheck(c)
  \/ ReadCurrent(c) \/ Evaluate(c) \/ Insert(c) \/ Origin(c)
  \/ RuleKey(c) \/ InsertRule(c) \/ Update(c) \/ Commit(c)

\* The bound on calls is reached; a wait that never ends is a deadlock instead.
Done ==
  /\ calls = MaxCalls
  /\ \A c \in Callers : pc[c] = "idle"
  /\ UNCHANGED vars

Next == (\E c \in Callers : Ask(c) \/ Statement(c) \/ Cut(c)) \/ Done

Spec == Init /\ [][Next]_vars

-----------------------------------------------------------------------------
(* Properties *)

\* The HTTP status of an answer about a classification, and about a rule.
AllocationStatus(kind) ==
  CASE kind = "ok" -> 201
    [] kind = "not_found" -> 404
    [] kind \in {"conflict", "stale"} -> 409
    [] kind = "invalid" -> 422
    [] kind = "lost" -> 503

CategorizationStatus(op, kind) ==
  CASE kind = "ok" -> IF op = "create_rule" THEN 201 ELSE 200
    [] kind = "not_found" -> 404
    [] kind = "conflict" -> 409
    [] kind = "lost" -> 503

Status(r, kind) ==
  IF r.op = "classify" THEN AllocationStatus(kind) ELSE CategorizationStatus(r.op, kind)

IsTrue(r, kind) ==
  LET held == RowsWithKey(r)
  IN /\ r.op \in {"classify", "create_rule"} =>
          /\ Status(r, kind) = 201 => \E row \in held : row.digest = DigestOf(r)
          /\ Status(r, kind) = 409 =>
               /\ \A row \in held : row.digest # DigestOf(r)
               /\ \/ held # {}
                  \/ r.op = "classify" /\ Current(r.movement) # Expected(r)
     /\ r.op = "apply" /\ kind = "classified" =>
          \E s \in SetsOf(r.movement) : s.rule = r.rule /\ s.revision = 1
     /\ r.op = "apply" /\ kind = "already" => SetsOf(r.movement) # {}
     /\ r.op = "disable" /\ Status(r, kind) = 200 => r.rule \notin Ids(Open(rules))

\* ADR-0022, ADR-0024: retries never repeat an effect, and what a client is told
\* stays true.  A key names one set or one rule, whatever its calls race.  A 201
\* means that the set or rule of exactly this request is stored; a 409 that its
\* key is another request's or the revision it built on is superseded, and never
\* by a first attempt of this very call; a rule that classified did so, and one
\* that was disabled is.
AnswersAreTrue ==
  /\ \A s, t \in sets : s.key = t.key => s = t
  /\ \A r, s \in rules : r.key = s.key => r = s
  /\ \A c \in Callers : answer[c] # "none" => IsTrue(req[c], answer[c])

Revision(m, n) == CHOOSE s \in SetsOf(m) : s.revision = n

Contract == INSTANCE ClassificationContract WITH
  chain <- [m \in Movements |->
             [n \in 1..Cardinality(SetsOf(m)) |->
               [shares |-> Revision(m, n).shares, rule |-> Revision(m, n).rule]]],
  active <- Open(rules)

\* Classification is linearizable (ADR-0022: a chain never forks; ADR-0024: an
\* application is linearizable against rules that are created and disabled, and
\* never touches a movement that is already classified).
KeepsContract == Contract!Spec

\* ADR-0024: an application is answered what the rules and the chain say when it
\* ends, not when the operator was shown a suggestion.
VerdictsAreCurrent ==
  [][\A c \in Callers :
       req[c].op = "apply" /\ answer[c] = "none"
         /\ answer'[c] \notin {"none", "lost", "ineligible"}
         => answer'[c] = Contract!Verdict(req[c].movement, req[c].rule)]_vars
=============================================================================
