---------------------------- MODULE Reconciliation ----------------------------
(***************************************************************************)
(* From what the bank said to the ledger: pages of observations            *)
(* (banking_observation_store.py), the batch that turns them into          *)
(* reconciled transactions after a run (post_sync.py,                      *)
(* banking_reconciliation_store.py) and the operator's decision about one  *)
(* of them (banking_ledger_review_store.py).                               *)
(*                                                                         *)
(* As in Ledger, a call is one READ COMMITTED transaction and a step is    *)
(* one statement that other transactions can disturb; what it writes is in *)
(* work until it commits.  Transactions that wait for each other in a      *)
(* circle are PostgreSQL's to break: it aborts one of them.                *)
(*                                                                         *)
(* The fingerprint of an observation with a provider id depends on that id *)
(* alone, and without one it is the identity itself, so observations and   *)
(* reconciled transactions correspond one to one and both are indexed by   *)
(* the bank's transaction.  The pages of a connection come from one run at *)
(* a time (BankingSync!SingleFlight).  The clock that stamps observed_at   *)
(* is not the database's and may lag or step back; updated_at is the       *)
(* database's and grows from page to page.                                 *)
(***************************************************************************)
EXTENDS Integers, FiniteSets, Sequences, SequencesExt

CONSTANTS
  Clients,       \* connections that runs and reviews use
  Transactions,  \* the bank's transactions on one account
  Starts,        \* observations that were stored and reconciled before, at stamp 1
  Pages,         \* what the provider may return: sequences of [t, status, amount]
  Readings,      \* readings of the application's clock
  Decisions,     \* the decisions operators make: [t, decision, key, movement, fits]
  FirstMovements,\* the movements that are in the ledger at the beginning
  Limit,         \* reconciliation_limit
  MaxCalls       \* bound: calls made in a behaviour

NoObs == [status |-> "none", amount |-> 0, seen |-> 0, updated |-> 0]

ASSUME TransactionsAssumption == IsFiniteSet(Transactions)
ASSUME PagesAssumption ==
  Pages \subseteq Seq([t : Transactions, status : STRING, amount : Int]) \ {<<>>}
ASSUME ReadingsAssumption == Readings \subseteq Nat
ASSUME StartsAssumption ==
  \A start \in Starts : \A t \in Transactions :
    start[t] # NoObs => start[t].updated = 1 /\ start[t].seen \in Nat \ {0}
ASSUME LimitAssumption == Limit \in Nat \ {0}
ASSUME MaxCallsAssumption == MaxCalls \in Nat

Nobody == "nobody"
ASSUME ClientsAssumption == IsFiniteSet(Clients) /\ Nobody \notin Clients

\* A decision derives the key of its movement in a way that nobody else does.
ASSUME DecisionsAssumption ==
  /\ IsFiniteSet(FirstMovements)
  /\ \A d \in Decisions : d.t \in Transactions /\ \A m \in FirstMovements : m.key # d.key

VARIABLES
  obs,        \* integrations.external_observations
  canon,      \* integrations.reconciled_transactions
  sources,    \* observation_updated_at in reconciled_transaction_sources, or 0
  links,      \* integrations.reconciled_transaction_ledger_links
  movements,  \* finance.movements that a decision can meet or make
  audit,      \* movements whose creation finance.audit_events records
  obsLock,    \* who holds an observation row
  canonLock,  \* who holds a reconciled row FOR UPDATE
  pc,         \* the statement each client runs next
  req,        \* its request
  work,       \* what its open transaction read and wrote
  answer,     \* what its last call returned
  stamp,      \* transaction_timestamp of the last page
  calls       \* calls made so far

tables == <<obs, canon, sources, links, movements, audit>>
locks == <<obsLock, canonLock>>
vars == <<tables, locks, pc, req, work, answer, stamp, calls>>

NoMovement == 0   \* a null reference; ids are positive
NoRequest == [op |-> "none"]
NoCanon == [status |-> "none", seen |-> 0]
NoWork == [rows |-> <<>>, locked |-> 0, wrote |-> <<>>, links |-> {}, movements |-> {}]

\* The rows a transaction wrote are a function on some of the transactions.
With(wrote, t, row) == [u \in DOMAIN wrote \cup {t} |-> IF u = t THEN row ELSE wrote[u]]

-----------------------------------------------------------------------------
(* Rows *)

\* Mutated: the page overwrites whatever is stored.
NewerAlways(t, seen) == TRUE

\* ON CONFLICT DO UPDATE ... WHERE last_seen_at < observed_at
Newer(t, seen) == obs[t].seen < seen

\* Mutated: only observations never reconciled are picked up.
DirtyNew(t) == obs[t] # NoObs /\ sources[t] = 0

Dirty(t) == obs[t] # NoObs /\ sources[t] # obs[t].updated

\* The queue of a batch: by updated_at, and by id where that is equal.
Queues ==
  {q \in SetToSeqs({t \in Transactions : Dirty(t)}) :
     \A i, j \in DOMAIN q : i < j => obs[q[i]].updated <= obs[q[j]].updated}

UpTo(n, q) == SubSeq(q, 1, IF Len(q) < n THEN Len(q) ELSE n)

\* A canonical row that cannot be explained by one observation's history.
Incompatible(t) ==
  \/ sources[t] > obs[t].updated
  \/ canon[t] = NoCanon /\ sources[t] # 0
  \/ canon[t].seen = obs[t].seen /\ canon[t].status # obs[t].status

Canonical(t) ==
  IF canon[t].seen < obs[t].seen
  THEN [status |-> obs[t].status, seen |-> obs[t].seen]
  ELSE canon[t]

Progress(t) == [canon |-> Canonical(t), source |-> obs[t].updated]

\* The digest of a decision, and of the movement an import creates.
DigestOf(r) ==
  [t |-> r.t, updated |-> r.saw.updated, decision |-> r.decision, movement |-> r.movement]
MovementDigest(r) == [decision |-> r.decision, amount |-> r.saw.amount]

IsImport(d) == d \in {"IMPORT_AS_INCOME", "IMPORT_AS_EXPENSE"}

LinksWithKey(k) == {l \in links : l.key = k}
LinksOf(t) == {l \in links : l.t = t}

\* Mutated: any decision under the key is taken for this one.
ReplayedAny(r) == "decided"

Replayed(r) ==
  IF \E l \in LinksWithKey(r.key) : l.digest = DigestOf(r) THEN "decided" ELSE "conflict"

\* _require_source_snapshot
Unchanged(r) == obs[r.t].updated = r.saw.updated
Confirmed(r) ==
  \/ r.decision = "IGNORE"
  \/ canon[r.t].status = "CONFIRMED" /\ obs[r.t].status = "CONFIRMED"

\* _apply_decision: the sign of the amount, and for a link its equality.  The
\* account, the currency, the opening balance and the description are r.fits.
Eligible(r) ==
  /\ r.fits
  /\ r.decision = "IMPORT_AS_INCOME" => obs[r.t].amount > 0
  /\ r.decision = "IMPORT_AS_EXPENSE" => obs[r.t].amount < 0
  /\ r.decision # "IGNORE" => obs[r.t].amount # 0
SameAmount(r) == \E m \in movements : m.id = r.movement /\ m.amount = obs[r.t].amount

-----------------------------------------------------------------------------
(* A call *)

Freed(c, lock) == [t \in Transactions |-> IF lock[t] = c THEN Nobody ELSE lock[t]]

\* Mutated: the reconciled row stays locked.
EndWithLock(c) ==
  /\ work' = [work EXCEPT ![c] = NoWork]
  /\ obsLock' = Freed(c, obsLock)
  /\ UNCHANGED canonLock

\* The transaction of c is over.
End(c) ==
  /\ work' = [work EXCEPT ![c] = NoWork]
  /\ obsLock' = Freed(c, obsLock)
  /\ canonLock' = Freed(c, canonLock)

Return(c, kind) ==
  /\ End(c)
  /\ pc' = [pc EXCEPT ![c] = "idle"]
  /\ req' = [req EXCEPT ![c] = NoRequest]
  /\ answer' = [answer EXCEPT ![c] = kind]
  /\ UNCHANGED <<stamp, calls>>

Refuse(c, kind) == Return(c, kind) /\ UNCHANGED tables

Goto(c, label) ==
  /\ pc' = [pc EXCEPT ![c] = label]
  /\ UNCHANGED <<tables, req, answer, stamp, calls>>

Read(c, label) == Goto(c, label) /\ UNCHANGED <<work, locks>>

Begin(c, r, label) ==
  /\ pc[c] = "idle" /\ calls < MaxCalls
  /\ req' = [req EXCEPT ![c] = r]
  /\ pc' = [pc EXCEPT ![c] = label]
  /\ work' = [work EXCEPT ![c] = NoWork]
  /\ answer' = [answer EXCEPT ![c] = "none"]
  /\ calls' = calls + 1
  /\ UNCHANGED <<tables, locks>>

Writing == {d \in Clients : pc[d] \in {"upsert", "page"}}

\* A page names a transaction at most once.
Distinct(page) == \A i, j \in DOMAIN page : page[i].t = page[j].t => i = j

\* A run reads a page.  Its transaction starts when it has it; a page that names a
\* transaction twice has none and fails the run.
AskSync(c) ==
  /\ Writing = {}
  /\ \E page \in {p \in Pages : Distinct(p)}, seen \in Readings :
       Begin(c, [op |-> "sync", page |-> page, seen |-> seen], "upsert")
  /\ stamp' = stamp + 1

\* The retry of a key whose run is settled: no page is read again.
AskBatch(c) == Begin(c, [op |-> "batch"], "select") /\ UNCHANGED stamp

\* get_candidate
Candidate(t) == [updated |-> obs[t].updated, amount |-> obs[t].amount]

\* BankingLedgerReviewDraft: an import names an account, which r.fits stands for,
\* a link names a movement, and to ignore names neither.
WellFormed(d) == (d.decision = "LINK_EXISTING_MOVEMENT") = (d.movement # NoMovement)

\* An operator decides on the candidate that is shown now, or repeats a decision
\* with the candidate it was made on.
AskDecision(c) ==
  /\ \E d \in Decisions :
     \E saw \in {Candidate(d.t)} \cup {l.saw : l \in LinksWithKey(d.key)} :
       /\ WellFormed(d) /\ canon[d.t] # NoCanon
       /\ Begin(c, [op |-> "decide", t |-> d.t, decision |-> d.decision, key |-> d.key,
                    movement |-> d.movement, fits |-> d.fits, saw |-> saw], "lookup")
  /\ UNCHANGED stamp

-----------------------------------------------------------------------------
(* apply_transaction_page *)

\* The upsert locks a row it finds, also when it leaves it as it is.
Upsert(c) ==
  LET o == Head(req[c].page)
  IN /\ pc[c] = "upsert"
     /\ obsLock[o.t] = Nobody
     /\ obsLock' = [obsLock EXCEPT ![o.t] = c]
     /\ work' = IF Newer(o.t, req[c].seen)
                THEN [work EXCEPT ![c].wrote = With(work[c].wrote, o.t,
                        [status |-> o.status, amount |-> o.amount, seen |-> req[c].seen,
                         updated |-> stamp])]
                ELSE work
     /\ req' = [req EXCEPT ![c].page = Tail(req[c].page)]
     /\ pc' = [pc EXCEPT ![c] = IF Len(req[c].page) = 1 THEN "page" ELSE "upsert"]
     /\ UNCHANGED <<tables, canonLock, answer, stamp, calls>>

\* The page is stored and the run ends: SUCCEEDED or PARTIAL is followed by a
\* batch in a transaction of its own, FAILED or a lost answer is not.
CommitPage(c) ==
  /\ pc[c] = "page"
  /\ obs' = [t \in Transactions |->
              IF t \in DOMAIN work[c].wrote THEN work[c].wrote[t] ELSE obs[t]]
  /\ UNCHANGED <<canon, sources, links, movements, audit>>
  /\ \/ /\ End(c)
        /\ pc' = [pc EXCEPT ![c] = "select"]
        /\ UNCHANGED <<req, answer, stamp, calls>>
     \/ Return(c, "run failed")

-----------------------------------------------------------------------------
(* reconcile_transaction_observations *)

\* The statement reads the dirty rows, one more than the limit, and locks them
\* in that order.
Select(c) ==
  /\ pc[c] = "select"
  /\ \E q \in Queues :
       IF q = <<>> THEN Refuse(c, "reconciled")
       ELSE /\ work' = [work EXCEPT ![c].rows = UpTo(Limit + 1, q)]
            /\ Goto(c, "lock")
            /\ UNCHANGED locks

NextRow(c) == work[c].rows[work[c].locked + 1]

LockRow(c) ==
  /\ pc[c] = "lock"
  /\ obsLock[NextRow(c)] = Nobody
  /\ obsLock' = [obsLock EXCEPT ![NextRow(c)] = c]
  /\ LET all == work[c].locked + 1 = Len(work[c].rows)
     IN /\ work' = [work EXCEPT ![c].locked = IF all THEN 0 ELSE work[c].locked + 1]
        /\ Goto(c, IF all THEN "source" ELSE "lock")
  /\ UNCHANGED canonLock

Selected(c) == UpTo(Limit, work[c].rows)
AfterRow(c) == IF work[c].locked + 1 = Len(Selected(c)) THEN "settle" ELSE "source"
Advance(c) == [work EXCEPT ![c].locked = work[c].locked + 1]

\* The source row of the next observation: another batch may have recorded this
\* very version while the row was waited for.
Source(c) ==
  /\ pc[c] = "source"
  /\ IF sources[NextRow(c)] = obs[NextRow(c)].updated
     THEN Goto(c, AfterRow(c)) /\ work' = Advance(c) /\ UNCHANGED locks
     ELSE Read(c, "target")

\* The canonical row FOR UPDATE, its new state and the source's progress.
Target(c) ==
  LET t == NextRow(c)
  IN /\ pc[c] = "target"
     /\ canonLock[t] = Nobody
     /\ IF Incompatible(t) THEN Refuse(c, "incompatible")
        ELSE /\ canonLock' = [canonLock EXCEPT ![t] = c]
             /\ work' = [Advance(c) EXCEPT ![c].wrote = With(work[c].wrote, t, Progress(t))]
             /\ Goto(c, AfterRow(c))
             /\ UNCHANGED obsLock

CommitBatch(c) ==
  /\ pc[c] = "settle"
  /\ canon' = [t \in Transactions |->
       IF t \in DOMAIN work[c].wrote THEN work[c].wrote[t].canon ELSE canon[t]]
  /\ sources' = [t \in Transactions |->
       IF t \in DOMAIN work[c].wrote THEN work[c].wrote[t].source ELSE sources[t]]
  /\ UNCHANGED <<obs, links, movements, audit>>
  /\ \/ Return(c, IF Len(work[c].rows) > Limit THEN "has more" ELSE "reconciled")
     \/ Return(c, "lost")

-----------------------------------------------------------------------------
(* BankingLedgerReviewStore.decide *)

Lookup(c) ==
  /\ pc[c] = "lookup"
  /\ IF LinksWithKey(req[c].key) # {} THEN Refuse(c, Replayed(req[c])) ELSE Read(c, "canon")

LockCanon(c) ==
  /\ pc[c] = "canon"
  /\ canonLock[req[c].t] = Nobody
  /\ canonLock' = [canonLock EXCEPT ![req[c].t] = c]
  /\ Goto(c, "observation")
  /\ UNCHANGED <<work, obsLock>>

\* Mutated: the observation is read without FOR SHARE.
LockObservationNot(c) == pc[c] = "observation" /\ Read(c, "check")

\* FOR SHARE: the only other decision that could share it waits for the
\* reconciled row.
LockObservation(c) ==
  /\ pc[c] = "observation"
  /\ obsLock[req[c].t] = Nobody
  /\ obsLock' = [obsLock EXCEPT ![req[c].t] = c]
  /\ Goto(c, "check")
  /\ UNCHANGED <<work, canonLock>>

\* Under both locks: the key again, the snapshot, an earlier decision, and
\* whether the decision fits what the bank says.
Check(c) ==
  LET r == req[c]
  IN /\ pc[c] = "check"
     /\ IF LinksWithKey(r.key) # {} THEN Refuse(c, Replayed(r))
        ELSE IF ~Unchanged(r) THEN Refuse(c, "changed")
        ELSE IF ~Confirmed(r) THEN Refuse(c, "ineligible")
        ELSE IF LinksOf(r.t) # {} THEN Refuse(c, "already")
        ELSE IF ~Eligible(r) THEN Refuse(c, "ineligible")
        ELSE IF IsImport(r.decision) THEN Read(c, "movement")
        ELSE IF r.decision = "LINK_EXISTING_MOVEMENT" /\ ~SameAmount(r)
        THEN Refuse(c, "mismatch")
        ELSE Read(c, "link")

Pending(c, kind) == UNION {work[d][kind] : d \in Clients \ {c}}

UsedIds == {m.id : m \in movements \cup UNION {work[d].movements : d \in Clients}}

\* A new uuid; a free number.
Fresh(used) == CHOOSE n \in 1..(Cardinality(used) + 1) : n \notin used

NewMovement(c) ==
  [id |-> Fresh(UsedIds),
   amount |-> obs[req[c].t].amount, key |-> req[c].key, digest |-> MovementDigest(req[c])]

\* The movement of an import, under a key derived from the decision's: the insert
\* waits for one in flight, and takes one that is stored if it is the same.
Movement(c) ==
  LET k == req[c].key
      stored == {m \in movements : m.key = k}
  IN /\ pc[c] = "movement"
     /\ \A m \in Pending(c, "movements") : m.key # k
     /\ IF stored = {}
        THEN work' = [work EXCEPT ![c].movements = {NewMovement(c)}] /\ Goto(c, "link")
             /\ UNCHANGED locks
        ELSE IF \E m \in stored : m.digest = MovementDigest(req[c]) THEN Read(c, "link")
        ELSE Refuse(c, "conflict")

NewLink(c) ==
  LET r == req[c]
  IN [t |-> r.t, decision |-> r.decision, saw |-> r.saw, key |-> r.key,
      digest |-> DigestOf(r),
      movement |-> IF IsImport(r.decision)
                   THEN (CHOOSE m \in work[c].movements \cup movements : m.key = r.key).id
                   ELSE r.movement]

\* Mutated: no unique index on the keys of decisions.
SameKeyNever(c, l) == FALSE

\* uq_banking_ledger_links_idempotency
SameKey(c, l) == l.key = req[c].key

\* uq_banking_ledger_links_reconciled_decision stands behind the row lock.
Link(c) ==
  /\ pc[c] = "link"
  /\ \A l \in Pending(c, "links") : ~SameKey(c, l)
  /\ IF \E l \in links : SameKey(c, l) \/ l.t = req[c].t
     THEN Refuse(c, "conflict")
     ELSE /\ work' = [work EXCEPT ![c].links = {NewLink(c)}]
          /\ Goto(c, "commit")
          /\ UNCHANGED locks

\* finance.audit_banking_ledger_import, fired by the insert of a link
ImportsAudited(ls) == {l.movement : l \in {k \in ls : IsImport(k.decision)}}

CommitDecision(c) ==
  /\ pc[c] = "commit"
  /\ links' = links \cup work[c].links
  /\ movements' = movements \cup work[c].movements
  /\ audit' = audit \cup ImportsAudited(work[c].links)
  /\ UNCHANGED <<obs, canon, sources>>
  /\ \/ Return(c, "decided")
     \/ Return(c, "lost")

-----------------------------------------------------------------------------
(* Failures *)

Holding(c, kind) ==
  {d \in Clients \ {c} : \E row \in work[d][kind] : row.key = req[c].key}

\* Whom c waits for.
Blockers(c) ==
  (CASE pc[c] = "upsert" -> {obsLock[Head(req[c].page).t]}
     [] pc[c] = "lock" -> {obsLock[NextRow(c)]}
     [] pc[c] = "target" -> {canonLock[NextRow(c)]}
     [] pc[c] = "canon" -> {canonLock[req[c].t]}
     [] pc[c] = "observation" -> {obsLock[req[c].t]}
     [] pc[c] = "movement" -> Holding(c, "movements")
     [] pc[c] = "link" -> Holding(c, "links")
     [] OTHER -> {}) \ {Nobody}

InCircle(c) ==
  \E S \in SUBSET Clients :
    /\ c \in S
    /\ \A d \in S : Blockers(d) \cap S # {} /\ \E e \in S : d \in Blockers(e)

\* PostgreSQL finds the circle and aborts one of its transactions.
Abort(c) == InCircle(c) /\ Refuse(c, "aborted")

\* The connection breaks.
Cut(c) == pc[c] # "idle" /\ Refuse(c, "lost")

-----------------------------------------------------------------------------
(* Specification *)

Init ==
  /\ obs \in Starts
  /\ canon = [t \in Transactions |-> [status |-> obs[t].status, seen |-> obs[t].seen]]
  /\ sources = [t \in Transactions |-> obs[t].updated]
  /\ links = {}
  /\ movements = FirstMovements
  /\ audit = {m.id : m \in FirstMovements}
  /\ obsLock = [t \in Transactions |-> Nobody]
  /\ canonLock = [t \in Transactions |-> Nobody]
  /\ pc = [c \in Clients |-> "idle"]
  /\ req = [c \in Clients |-> NoRequest]
  /\ work = [c \in Clients |-> NoWork]
  /\ answer = [c \in Clients |-> "none"]
  /\ stamp = 1
  /\ calls = 0

Ask(c) == AskSync(c) \/ AskBatch(c) \/ AskDecision(c)

Statement(c) ==
  \/ Upsert(c) \/ CommitPage(c)
  \/ Select(c) \/ LockRow(c) \/ Source(c) \/ Target(c) \/ CommitBatch(c)
  \/ Lookup(c) \/ LockCanon(c) \/ LockObservation(c) \/ Check(c) \/ Movement(c)
  \/ Link(c) \/ CommitDecision(c)

Done ==
  /\ calls = MaxCalls
  /\ \A c \in Clients : pc[c] = "idle"
  /\ UNCHANGED vars

Next == (\E c \in Clients : Ask(c) \/ Statement(c) \/ Abort(c) \/ Cut(c)) \/ Done

\* The database runs the statements it is sent, and breaks circles of waits.
Fairness == \A c \in Clients : WF_vars(Statement(c) \/ Abort(c))

Spec == Init /\ [][Next]_vars
FairSpec == Spec /\ Fairness

-----------------------------------------------------------------------------
(* Properties *)

\* BANKING_TRANSACTION_RECONCILIATION.md fails a batch on observations that
\* contradict each other.  Pages never leave such rows, whatever the clock of
\* the application reads, so no batch fails and blocks those after it.
BatchesNeverConflict == \A c \in Clients : answer[c] # "incompatible"

\* A row that no batch will pick up again is reconciled to the status the bank
\* gave last, at the time it was observed: no page that commits next to a batch
\* is lost.
NothingIsMissed ==
  \A t \in Transactions : obs[t] # NoObs /\ ~Dirty(t) =>
    canon[t] = [status |-> obs[t].status, seen |-> obs[t].seen]

\* A decision enters the ledger only on the observation the operator saw, and
\* except to ignore it only while both rows call it confirmed: at the commit, not
\* when it was checked.
DecisionsAreCurrent ==
  [][\A l \in links' \ links :
       /\ l.saw = Candidate(l.t)
       /\ l.decision # "IGNORE" =>
            obs[l.t].status = "CONFIRMED" /\ canon[l.t].status = "CONFIRMED"]_vars

ImportLinks == {l \in links : IsImport(l.decision)}

\* A transaction is decided once.  An import and its movement come together, with
\* the amount that was reviewed and its audit event, and no other import shares
\* the movement.
ImportsAreWhole ==
  /\ \A k, l \in links : k.t = l.t \/ k.key = l.key => k = l
  /\ \A k, l \in ImportLinks : k.movement = l.movement => k = l
  /\ \A l \in ImportLinks :
       \E m \in movements \ FirstMovements : m.id = l.movement /\ m.amount = l.saw.amount
  /\ \A m \in movements \ FirstMovements : \E l \in ImportLinks : l.movement = m.id
  /\ audit = {m.id : m \in movements}

Refusals == {"conflict", "changed", "ineligible", "already", "mismatch"}

\* A decision that is answered as stored is stored; one that is refused is not,
\* even if it repeats one whose answer was lost.
RetriesAreTold ==
  [][\A c \in Clients :
       pc[c] # "idle" /\ pc'[c] = "idle" /\ req[c].op = "decide" =>
         LET stored == \E l \in links' : l.key = req[c].key /\ l.digest = DigestOf(req[c])
         IN (answer'[c] = "decided" => stored) /\ (answer'[c] \in Refusals => ~stored)]_vars

\* Pages, batches and decisions take the same rows in different orders; the
\* circles this makes end, and every call returns.
EveryCallReturns == \A c \in Clients : (pc[c] # "idle") ~> (pc[c] = "idle")
=============================================================================
