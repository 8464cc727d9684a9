# MeuFinanceiro in TLA+

MeuFinanceiro is a self-hosted personal finance system: a FastAPI service, a
worker, PostgreSQL and a Flutter client. Its core is an append-only ledger with
idempotent calls, and a manual synchronization with bank providers (Pluggy).
Almost everything that can go wrong lies between two statements: calls that
interleave in PostgreSQL transactions, answers that are lost, processes that
die, provider calls that run while another request changes the connection.
These modules model that part, TLC checks it on small instances, and TLAPS
proves the properties that matter most for every instance.

Paths below are relative to the repository; `persistence/` stands for
`packages/persistence/src/meufinanceiro_persistence/`, `banking_sync/` for
`packages/banking-sync/src/meufinanceiro_banking_sync/`, `banking_pluggy/` for
`packages/banking-pluggy/src/meufinanceiro_banking_pluggy/`.

Check a module with `tlc -config MCx.cfg MCy.tla` and its proofs with
`tlapm xProofs.tla`.

## 1. The system

| Component | State it keeps | Operations | Modelled by |
|---|---|---|---|
| Task queue and worker (`persistence/queue.py`, `apps/worker/worker/main.py`) | `infra.task_queue`, effects, a heartbeat thread per worker | enqueue, claim, renew, succeed, fail, recover exhausted leases, the worker's loop | `TaskQueue`, `TaskContract` |
| Manual synchronization (`banking_sync/service.py`, `persistence/banking_sync_store.py`) | `integrations.sync_runs` | begin, mark, accounts, cycle, pages, finish | `BankingSync`, `SyncCycle` |
| Connection gate and session guard (`persistence/banking_connection_gate.py`) | PostgreSQL advisory locks | one transaction lock per writer, one session lock per disconnection | `BankingSync` |
| Disconnection (`banking_sync/disconnection.py`) | `connections`, `external_accounts` | lock, readiness, ask, revoke, finalize | `BankingSync` |
| Registration of a provider item (`banking-pluggy-execution/.../registration.py`) | `connections`, `connection_capabilities` | inspect, register, replace the capabilities | `BankingSync` |
| Cycles and fairness (`persistence/banking_fairness_store.py`) | `sync_cycles`, `sync_cycle_accounts` | prepare a cycle, order the plan, complete | `SyncCycle` |
| Observations and cursors (`persistence/banking_observation_store.py`) | `external_observations`, `sync_cursors` | apply a page | `SyncCycle`, `Reconciliation` |
| Reconciliation (`persistence/banking_reconciliation_store.py`, `banking_sync/post_sync.py`) | `reconciled_transactions`, their sources | a batch after a run or its retry | `Reconciliation` |
| Ledger review (`persistence/banking_ledger_review_store.py`) | `reconciled_transaction_ledger_links` | show a candidate, decide | `Reconciliation` |
| Accounts, movements, transfers, opening balances (`persistence/financial_*_store.py`, migrations 0011 to 0015) | `finance.accounts`, `movements`, `transfers`, `account_opening_balances` | create, reverse, transfer, reverse a transfer, open | `Ledger` |
| Balances and statements (`persistence/financial_balance_query.py`) | none, derived reads | balance, statement | `FinancialApi` |
| Audit trail (migrations 0018 to 0020) | `finance.audit_events` | append, deferred enforcement, bridge of the review | `Ledger`, `Reconciliation`, in part |
| Allocations and categorization rules (`persistence/financial_movement_allocation_store.py`, `financial_categorization_rule_store.py`, migrations 0017, 0021) | `finance.movement_allocation_sets`, `categorization_rules`, rule origins | classify, revise, apply a batch, create and disable a rule | `Classification`, `ClassificationContract` |
| Pending inbox (`persistence/financial_pending_movement_store.py`, `apps/api/.../financial_pending_movements.py`) | none; the client keeps a cursor | keyset pages, with and without a filter | `PendingInbox` |
| Operator, residence, sessions (`persistence/identity_store.py`, `apps/api/.../operator_auth.py`, `operator_cli.py`) | `identity.operators`, `sessions`, the primary residence | bootstrap, correct the residence, login, authorize, logout | `OperatorSession` |
| Provider configuration (`persistence/banking_store.py`, `banking.py`) | `provider_configurations` | create, replace credentials, set state, use enabled credentials | `ProviderAccess` |
| Pluggy calls (`banking_pluggy/`, `packages/banking-pluggy-execution`) | a transport per call, with its API key | authenticate, refresh, retry, pages, connect token | `ProviderAccess`, in part |
| API routes (`apps/api/app`) | none | a payload to a draft, an outcome to a status | `FinancialApi`, `Classification`, `PendingInbox`, `ProviderAccess`, in part |
| Foundation update (`infra/scripts/update-foundation.sh`) | a lock directory, a state file, the database schema | prepare, apply, roll back | planned |
| Consent lifecycle, security primitives, migrations runner, demonstration data, Flutter client, spike tools | none, or outside the concurrency studied here | | not modelled, see section 7 |

### How the parts interact

- The API serves requests on threads; each store method is one PostgreSQL
  transaction at READ COMMITTED. Two requests meet only in rows, unique
  indexes, row locks, advisory locks and deferred triggers.
- A synchronization is a chain of transactions with provider calls between
  them. A disconnection holds a session advisory lock across its provider
  calls. A registration makes the row, or writes the status that the provider
  reports, and then the capabilities in a transaction of their own. All three
  meet on one `connections` row.
- A page writes observations, a cursor, the member's progress and the cycle's
  status in one transaction. The next run starts from what these rows say. A
  batch in a transaction of its own then turns the observations into reconciled
  transactions, and an operator's decision turns one of those into a movement.
- The ledger's writers share movements, transfers and openings: a transfer is
  two movements and a row that names them, its reversal is another transfer,
  and each commit must bring its audit event. The reads that derive a balance
  are several transactions.
- The inbox and the preview derive what waits from the ledger and the
  classification at the time they are asked; nothing of them is stored.
- Credentials are read in a transaction that has ended when Pluggy is called.
- The worker only meets the API in the queue: the API enqueues, workers reserve
  under a lease, and a heartbeat thread renews it while the handler runs.

At this commit `ManualBankingSyncService`, the disconnection service, the
reconciliation and the ledger review are not called by any route of `apps/api`;
they are modelled as the packages offer them, for callers that may run at the
same time, which is what their locks are for.

### What is hard

The list with lines is in `PROJECT.json` under `hazards`. By component:

- Queue: a late report of an expired lease, a heartbeat that outlives its
  handler or dies before it, a retry decision taken from an old record, a claim
  whose answer is lost, a worker that dies between the effect and the report.
- Synchronization: two begins at once, a replay that overtakes its first call,
  a disconnection between two pages, a page or a finish that commits without an
  answer, the many exits of `run`, a lock whose session was cut.
- Cycles: cursors that survive, accounts that leave the snapshot and come back,
  long accounts that starve short ones, page and account limits.
- Reconciliation and review: clocks that lag, a page that commits next to a
  batch, decisions on a snapshot that has changed, decisions repeated after a
  lost answer, opposite lock orders.
- Ledger: retries that race with their first attempt, two reversals at once,
  half a transfer, a leg reversed alone, an opening balance that arrives late,
  an audit event without its row, circles of waits, sums read in pieces.
- Classification and inbox: two revisions of one set, a manual classification
  that meets an application, a rule that is disabled or outranked while it is
  applied, pages of a set that changes.
- Sessions: failures that are counted at once, a residence that is created
  twice, tokens that were revoked without an answer.
- Providers: a revision compared in an earlier transaction, a key that lapses,
  a token issued without an answer, a collection that changes between pages.

## 2. Modules

**TaskContract** is the queue as a caller sees it: a task is accepted once, gets
at most its budget of tries and ends succeeded, with its effect there, or
failed, with no try left.

**TaskQueue** is the queue with its workers. `row` is `infra.task_queue`, `held`
the record a worker got from `claim`, `beat` its heartbeat thread, `inFlight`
the statements whose client no longer waits (it died, timed out, or left the
`with` block while the thread was in a renewal). Each statement of `queue.py` is
autocommitted, so each is one action; `Settled` and `OwnsLease` are the SET and
WHERE of the three updates under a lease. Dates are kept as seconds that
remain, and `Tick` lets a second pass for everybody. The refinement `Contract ==
INSTANCE TaskContract WITH outcome <- Outcome, ...` maps pending and running to
accepted, attempts to tries and max_attempts to the budget.

**BankingSync** is one connection and the calls that meet on it. `pc` names the
transaction a caller runs next, `call` holds the locals of `run`. A store method
is one action; `ProviderAnswers` and `ProviderFails` stand between them. The
transaction gate of the writers is the guard `GateFree`, because a writer holds
it for one step only; the session lock of a disconnection is `session`. Faults
are actions of their own: `Undone` (the transaction rolls back), the
`...Unanswered` actions (it commits, its answer is lost), `SessionCut`, `Crash`.
`connection` distinguishes DISCONNECTED by a disconnection ("finalized") and by a
registration ("observed"); the row does not. It is "none" at first: `Register`
makes the row, `ReplaceCapabilities` follows in its own transaction. A first
registration that sees a removed item stores a DISCONNECTED connection, is then
refused its capabilities and answers an error; the connection stays closed.

**SyncCycle** is what the pages of successive runs write. BankingSync shows
(`SingleFlight`) that a connection has one executing run, so this module has one,
and a page is one step. The pages of an account are numbered, a cursor is the
number of the page that returned it. `Start` draws any snapshot of accounts.

**Reconciliation** follows a bank transaction to the ledger. `obs`, `canon`,
`sources` and `links` are the four tables; a transaction of the bank indexes its
observation and its reconciled row, because the fingerprint of an observation is
one-to-one with the identity that is reconciled. `Upsert` is a row of a page,
`Select`, `LockRow`, `Source`, `Target`, `CommitBatch` a batch, `Lookup`,
`LockCanon`, `LockObservation`, `Check`, `Movement`, `Link`, `CommitDecision` a
decision. `obsLock` and `canonLock` are row locks, `work` what an open transaction
wrote. Two clocks differ: `observed_at` is the application's and may lag,
`updated_at` is the database's and grows. `Abort` is PostgreSQL's detection of a
circle of waits, `Cut` a broken connection.

**Ledger** is the ledger of one residence, statement by statement: `Lookup`,
`Original`, `Claim`, `Reread`, `Guard`, `Lock`, `Recheck`, `Policy`, `Index`,
`Anchor`, `Audit`, `Commit` are the statements of the three stores that another
transaction can disturb, in the order the code runs them, and `Register` is
`create_account`; `work` holds the rows an open transaction inserted, `lock` the
rows it locked. An insert waits in the guard of `Claim`, `Index` or `Anchor` while
another open transaction holds a row with the same unique value. `Cut` breaks the
connection, before or after the commit took effect. The digest of a request is
the request without its key.

**FinancialApi** extends Ledger with the routes above it: `Post` turns a payload
into a draft (`WellFormed`, `Draft`), `PostMalformed` refuses one, `Get` and `Read`
are the reads, one store call a step (`Sections`), and `Status` is the HTTP status
of an outcome. `shown` is what a read has collected. All runs of the ledger check
this module.

**ClassificationContract** is classification without transactions: a chain of
revisions per movement that grows one at a time, and rules that may only start
one, as the single active rule of highest priority. `Verdict` is the answer an
application owes in a state.

**Classification** is the two stores that write that chain, in the style of
Ledger: `Lookup`, `LockMovement`, `Recheck`, `ReadCurrent`, `Insert` are the
statements of `_mutate`; an application adds `TakeRuleLock`, `Evaluate` and
`Origin` and goes through the items of its batch, and `RuleKey`, `InsertRule`,
`Update` belong to the rules. `rowLock` is the FOR UPDATE on a movement, `ruleLock`
the advisory lock of the rule set; `HoldsRule` is the FOR SHARE of the origin
trigger against the update. A request carries whether its shares close (`fits`)
and a rule the movements it applies to, since categories and texts do not change
here. `Status` is what the routes answer. `Contract == INSTANCE
ClassificationContract` reads the chain off the rows by revision, so a fork or a
gap would have no image.

**PendingInbox** extends Classification with the inbox. A request reads the rules
once (`ReadRules`) and then batch after batch of movements (`Scan`), each with its
own transaction; `walk` is what a client keeps (filter and position) with what it
was shown, `page` an open request. `Classify` is any step of Classification,
`Post` a movement that appears at whatever place of the order.

**OperatorSession** is the installation's operator. A call is one to three
transactions, each one step (`Bootstrap`; `Ensure`, `Insert`, `Reread`; `Material`,
then `Fail` or `Create`; `Resolve`, `Revoke`), with the clock it read when it began
(`now`) and the operator's row as it read it (`material`). `Unavailable` is a
database that breaks off before or after the commit.

**ProviderAccess** is the configuration of a provider and the calls that use it.
`config` is the row, `known` what an administrator was last shown, `http` the
transport of a call: its key, its attempts, the page it has come to. `Plan` gives
the requests each operation makes. A transaction or an HTTP request is a step;
`Rotate`, `KeyLapses`, `Grow` and `Shrink` are what happens at Pluggy meanwhile.

**MC modules** extend these, give model values and symmetry, and the menus of
calls. **Proof modules** extend the component and TLAPS: `TaskQueueProofs`,
`BankingSyncProofs`, `SyncCycleProofs`, `ReconciliationProofs`, `LedgerProofs`
(about Ledger and FinancialApi), `ClassificationProofs` (about Classification and
PendingInbox), `OperatorSessionProofs`, `ProviderAccessProofs`.

Definitions that begin with "Mutated:" are faulty variants, used by no
specification; `PROJECT.json` pairs each with the definition it replaces and the
property that must then fail.

## 3. Runs

| Run | Module and cfg | What it shows |
|---|---|---|
| task_queue | MCTaskQueue | the safety properties of the queue, the check of the table on the columns of a lease, the refinement of TaskContract, and that every accepted task is settled |
| banking_sync | MCBankingSync | runs, disconnections, registrations and all faults of two callers; every call returns |
| disconnected_under_run | MCBankingSyncClosed | a counterexample, finding 1 |
| sync_cycle | MCSyncCycle | three accounts of one, two and three pages, all snapshots, all limits; cycles complete |
| cursor_across_cycles | MCSyncCycleCursor | a counterexample, finding 2 |
| ledger | MCLedger | four calls of the API on two connections, three keys, three accounts, two dates |
| opening_after_movement | MCLedgerOpening | a counterexample, finding 3 |
| transfer_retry | MCLedgerRetry | a counterexample, finding 4 |
| classification | MCClassification | four calls on two connections, walks through the inbox among them; linear chains, true answers, refinement of ClassificationContract |
| reconciliation | MCReconciliation | three calls on two connections: pages, batches and decisions; every call returns |
| operator_session | MCOperatorSession | four calls of three callers; one residence, no lost failure, ended sessions |
| provider_access | MCProviderAccess | two calls, and two things that happen at Pluggy |

Bounds and why they are enough:

- TaskQueue: two workers are needed for a reclaimed lease; a statement that is in
  flight is the late report or the late renewal; two attempts are a first and a
  last one; a lease of three seconds with a beat of one leaves room for a missed
  renewal. One task has no handler, as an unknown `task_type` does. Retry delays
  are cut to one second: the doubling and its cap are in `RetryDelay`, no
  property depends on the size. The theorems hold for every value of these.
- BankingSync: two callers with two keys make a replay, a rival run, a
  disconnection or a registration meet a run; two pages let one be stored with
  and one without an answer; the connection is registered within the run.
  Finding 1 needs no third caller, the run of it has
  one.
- SyncCycle: `PageLimit = 2` and `AccountLimit = 2` with an account of three
  pages and a plan of three accounts make both limits bite; snapshots are all
  subsets of the accounts. `Upgraded = TRUE` starts with any cursors that a
  database older than the cycles may hold.
- Ledger: with four calls a transfer can be made, reversed, retried and raced;
  `MaxCalls` bounds the calls, never the statements. The menu has one magnitude
  and two dates, one on either side of the opening balance. `Founded` are the
  accounts of the beginning; the third is registered by a call. When the bound
  is reached and nobody is in a call, `Done` stutters. A broken connection is
  possible at any time, so TLC's search for deadlocks would not notice callers
  that wait for each other; `WaitsNeverClose` does: of any calls that are waiting,
  one waits for none of the others, nobody waits for a call that has ended, and a
  commit finds its rows complete, as the deferred triggers ask.
- Classification: two movements that are classified, one that cannot be, three
  that only wait in the inbox, one of them posted later; one rule at the start
  and drafts of two more, one a tie and one that outranks it. Four calls suffice
  for an application to meet a new rule, a disabling and a manual
  classification, and for a classification, its revision, a rival and a retry.
  The first page of a walk counts for two of them (`WalkCost`), which leaves two
  pages more, or one page and a change, after it. A page of two and batches of
  two, two for a request, make the scan end in each of its four ways; the code
  has larger numbers and the same relation between them.
- Reconciliation: two transactions make opposite lock orders and a batch that
  leaves a row behind (`Limit = 1`); two readings of the clock make one lag, stand
  still or step back against the first row; a decision, its retry and a page, or
  a page, a batch and a decision, are three calls.
- OperatorSession: two failures lock, three logins can be under way at once, and
  dates up to three let a lock and a session run out.
- ProviderAccess: one record on a page and three records make three pages.
  Two attempts (the code has three) are one that is repeated and one that is the
  last. Two changes are two lapsed keys for one request, or a collection that
  changes twice. Two calls are an administrator's write and a rival or a user of
  the credentials. The bounds end its behaviours: the only run with
  CHECK_DEADLOCK FALSE.

Fairness, where a run needs it:

- TaskQueue: Compose restarts the worker (`restart: unless-stopped`), handlers
  end, statements end by an answer or a timeout, and time passes. Claims and
  recovery are strongly fair: a poll that is refused by the database every
  single time is excluded, as is a worker that is killed before every poll.
  Nothing is assumed of renewals or deliveries, so a heartbeat may stay silent.
- BankingSync: strong fairness of a call's own steps. PostgreSQL queues the
  waiters of an advisory lock, so one that waits is not passed over for ever;
  provider calls have timeouts. Nothing is assumed of new calls, faults or the
  provider.
- SyncCycle: the operator goes on asking for runs, and a step that is tried
  again and again does not fail each time. The second half is needed: an error
  of the least-served account ends every run before the others are tried, and
  the code has no order that passes over such an account.
- Reconciliation: weak fairness of a client's next statement or, when it waits in
  a circle, of PostgreSQL's abort. Nothing is assumed of clients that are idle.

## 4. Properties

Each is stated in words above its definition.

Queue: `AttemptBudget`, `OneHolder`, `PunctualOwnsLease`, `NoStaleSettlement`,
`KeepsContract`, `AcceptedSettles`. Exactly-once execution is not claimed: a task
can run twice, and the demo effect is made idempotent by its own unique key.
What holds is that one reservation settles it.

Synchronization: `SingleFlight`, `DisconnectionIsClean`, `ReportsWhatItStored`,
`EveryPathCloses`, `ClosedTakesNoWrite`, `EveryCallReturns`. A run that is cut off
after `mark_sync_running` stays running and blocks the connection; the project's
documentation leaves its recovery out
(docs/architecture/BANKING_MANUAL_SYNC_ORCHESTRATION.md), and `EveryPathCloses`
says that nothing else leaves one behind.

Cycles: `FoundersFullyScanned`, `LeastServedIsServed`, `CycleCompletes`. The second
compares the pages each account had when the run made its plan (`begun`, a
history variable): a run serves its accounts one after the other, so what it has
stored itself says nothing about its next pick.

Reconciliation and review: `BatchesNeverConflict` (the error of the batch on
contradicting observations has no way to happen, whatever the clock reads),
`NothingIsMissed`, `DecisionsAreCurrent`, `ImportsAreWhole`, `RetriesAreTold`,
`EveryCallReturns`. That a decision that links an existing movement may name one
that is reversed or linked already is neither promised nor excluded.

Ledger and its API: `OneEffectPerKey`, `EffectsAreWhole`, `AuditMatchesLedger`,
`AnswersAreTrue`, `WaitsNeverClose`, `StatementsAreTrue`. The last one says what
three READ COMMITTED transactions give: a balance is the one the account has
when the read ends, unless its opening balance was stored during the read, and no
entry is a reversal without what it reverses. Both halves rest on the order of the
three: the movements are read last.

Classification: `AnswersAreTrue`, `KeepsContract`, `VerdictsAreCurrent`; the inbox:
`InboxMissesNothing`. That a chain never forks is part of `KeepsContract` and is
protected three times (row lock, comparison with the current set, unique
indexes), so that dropping one of them alone shows nothing; the rule-set lock is
what the linearization of rules rests on, and dropping it breaks the contract.

Sessions: `EveryoneSharesTheResidence`, `LockFollowsFailures`,
`EndedSessionsStayOut`. A login with the right password that read the operator's
row before the lock was set still opens a session and clears the lock;
`LockFollowsFailures` counts from the latest session and so allows it. It also
allows a login that began earlier and records its failure later to move the lock
back (section 5): what it does exclude is a failure that is lost, an operator
unlocked at the threshold or locked below it.

Providers: `RequestsAreBounded`, `WritesBuildOnWhatWasSeen`, `OneLapseIsHealed`,
`CollectionWasHeld`. A collection that both grew and shrank between two pages, to
the same total, may be returned as it never was; `CollectionWasHeld` says what
the checks of the total and of repeated records do give.

## 5. Findings

1. *A connection becomes DISCONNECTED under an active run.* A registration
   stores the status the provider shows (`persistence/banking_store.py:441`) and
   does not ask whether a run is active, as a disconnection does
   (`persistence/banking_sync_store.py:857`). The run stays open, the accounts
   stay active, and a later disconnection answers that all is done.
2. *A cursor outlives its cycle.* Cursors are cleared when a cycle begins and
   only for its accounts (`persistence/banking_fairness_store.py:129`). An
   account with a cursor that is missing then and comes back later goes on from
   the old one, and its part of the new cycle counts as complete without its
   first pages. For the accounts a cycle begins with, `FoundersFullyScanned`
   holds.
3. *An opening balance lands after movements it should precede.* Movements look
   at the opening, openings never look at movements
   (`persistence/financial_opening_balance_store.py:113`), though ADR-0020 says
   the two cannot coexist.
4. *A retry of a transfer reversal is refused.* `reverse_transfer` looks its key
   up once and reads the earlier reversal in a later statement
   (`persistence/financial_transfer_store.py:324`). If the first attempt commits
   in between, its retry is told "already reversed" instead of getting the
   transfer, against ADR-0021. `reverse_movement` rereads its key first.

None of them breaks one effect per key: the retry of finding 4 is answered
wrongly, it does not write.

Seen on the way, without a run of its own: `record_failed_authentication`
(`persistence/identity_store.py:223`) writes, from the threshold on, the time at
which the recording login began plus the duration, whatever lock is stored. A
login that read its clock before the others and records its failure after them
moves the lock back, by as much as it began earlier: with failures at 1, 1 and 0,
recorded in this order, a lock until 3 becomes one until 2. The operator is then
unlocked before the fifteen minutes that the runbook promises
(docs/runbooks/OPERATOR_AUTHENTICATION.md:64) are over. `LockFollowsFailures`
states what the code does keep.

Also seen, where no line promises otherwise: `reverse_movement` of a leg of a
transfer is refused by a trigger of migration 0015 and answered 503, as if the
database were gone; an item of a batch application whose commit took effect
without an answer is reported `FAILED`, which FINANCIAL_CATEGORIZATION_RULES.md
explains as "nothing was confirmed"; `create_account` and `create_category` have
no idempotency key, so a retry after a lost answer makes a second one.

## 6. Proofs

TLC checks small instances; the theorems below hold for every value of the
constants that satisfies the named assumptions of the modules, and for any number
of calls. But for what is only model-checked (below), every property of a passing
run, every invariant and every action property, is proved of the specification
which that run checks: where a run checks a composition (`ApiSpec`, `InboxSpec`) there is a theorem about the composition
beside the one about the component. A `FairSpec` is its `Spec` with fairness,
which a safety theorem about `Spec` covers.

| Module | Theorems | What they state |
|---|---|---|
| TaskQueueProofs | `TypeCorrect`, `AttemptBudgetHolds`, `OneHolderHolds`, `PunctualOwnsLeaseHolds`, `NoStaleSettlementHolds` | the properties of the run |
| | `SuccessHasEffectHolds`, `SettledIsFinalHolds` | a task is marked succeeded only with its effect committed; no step changes a settled task |
| | `KeepsContractHolds` | the queue implements TaskContract |
| BankingSyncProofs | `TypeCorrect`, `SingleFlightHolds`, `DisconnectionIsCleanHolds`, `ReportsWhatItStoredHolds`, `EveryPathClosesHolds`, `ClosedTakesNoWriteHolds` | all safety properties of the run |
| SyncCycleProofs | `FoundersFullyScannedHolds`, `LeastServedIsServedHolds` | the properties of the run |
| | `CycleIsOpenWhilePendingHolds` | the two places that set a cycle's status agree |
| ReconciliationProofs | `BatchesNeverConflictHolds`, `NothingIsMissedHolds`, `ImportsAreWholeHolds`, `DecisionsAreCurrentHolds`, `RetriesAreToldHolds` | all safety properties of the run |
| LedgerProofs | `OneEffectPerKeyHolds`, `EffectsAreWholeHolds`, `AuditMatchesLedgerHolds` | the stores by themselves (`Spec`) |
| | `ApiKeepsOneEffectPerKey`, `ApiKeepsEffectsWhole`, `ApiAuditMatchesLedger`, `ApiAnswersAreTrue`, `ApiStatementsAreTrue`, `ApiWaitsNeverClose` | behind the API, with its refused payloads and its reads (`ApiSpec`) |
| ClassificationProofs | `AnswersAreTrueHolds`, `VerdictsAreCurrentHolds` | the stores by themselves (`Spec`) |
| | `KeepsContractHolds` | the two stores implement ClassificationContract |
| | `InboxAnswersAreTrue`, `InboxVerdictsAreCurrent`, `InboxKeepsContract`, `InboxMissesNothingHolds` | the properties of the run, with the inbox (`InboxSpec`) |
| OperatorSessionProofs | `EveryoneSharesTheResidenceHolds`, `LockFollowsFailuresHolds`, `EndedSessionsStayOutHolds` | the properties of the run |
| ProviderAccessProofs | `RequestsAreBoundedHolds`, `WritesBuildOnWhatWasSeenHolds`, `OneLapseIsHealedHolds`, `CollectionWasHeldHolds` | the properties of the run |

Each proof module says first that the initial states satisfy its invariant, then
has one lemma for each kind of step, under it one step for each conjunct that the
action can disturb, and last the temporal theorems.

### Why the properties need more than themselves

- **Queue.** `fail` decides from the record of the claim, so one must know that a
  claim whose token is still in the row has the row's attempts (`ClaimSound`),
  that a fresh token was never drawn before (`LeaseState`), and that a worker in
  the handler holds a claim (`Phase`). Success with its effect needs that a report
  under way was sent after the effect (`ReportsHaveEffect`). The refinement uses
  the same invariant: one lemma an action shows that the step is one of the
  contract's or leaves alone what the contract speaks of.
- **Synchronization.** What a run reports follows from what its executor has
  counted and the row has stored at every place of `run` (`Sound`). A key has one
  executor because the row of an execution is never requested again. A
  disconnection is clean because the provider has let the item go before the
  finalization (`LetGo`), so that no registration can show the connection open.
- **Cycles.** An account that a run reads is not done yet (`Plan`), and what was
  stored before the first cycle is what the cursors of that time stand for
  (`Scans`). That the least served account is served needs the plan to be exactly
  what is pending, in its order, and what it has not come to yet to have the pages
  it had when the plan was made.
- **Reconciliation.** A committed row says how far the batches have come with it
  (`RowKept`); a row lock keeps true what its transaction read: a page holds only
  newer versions than are stored, a batch the stored versions, a decision past
  its checks the row it was made on. Row locks are exclusive, and the identifier
  of a movement that a decision writes is fresh.
- **One effect per key.** The property speaks of committed rows, and a commit
  adds rows of which it says nothing. The invariant adds that no two open
  transactions hold rows of the same key (`ClearOfOthers`), that none holds a
  key of a committed row (`ClearOfTables`), that none holds a key twice
  (`OneInFlight`), and that one about to insert has not inserted (`Unwritten`).
- **Whole effects and the trail.** `WholeInv` says of every open transaction
  what its rows amount to at the statement it has come to, that they clash with
  nobody's, and that what a reversal cancels is committed and stands; of the
  tables, that what reverses a leg belongs to the reversal of its transfer. Then a
  commit is whole whatever committed since its statements read.
- **True answers of the API.** A status is given in the last step of a call, from
  what earlier statements read. `Answers` carries it there: rows say what they
  were asked for (`RowsTell`), the work in flight is that of the request
  (`WorkTells`), a movement that was rechecked under its lock stays unreversed
  until the transaction ends, and a client at each statement has passed the
  checks before it (`Course`). What was told is then never undone by a commit
  (`Truth`), since rows are only added.
- **True statements.** A read is three transactions. `ReadInv` says that what it
  has collected from the first two is still in the tables, where rows are only
  added. That an opening and the movements together are worth the sum of both
  needs the sum over a union of disjoint sets to be the sum of the sums; it is a
  fold, and the fact is proved by a least counterexample, a set of rows that
  fails while none of its proper subsets does.
- **Waits.** `HoldInv` says of each statement which rows and unique values its
  transaction holds there. `Rank` orders the statements: the claim of a key before
  the lock of a first leg, that before the lock of the second, that before the
  indexes and the anchor of an account. Whoever is waited for has got further
  (`Descends`), so of any calls one of the lowest rank waits for none of them. Two
  calls that both want a second leg are reversals of two transfers, since the
  rows of two reversals of one cannot be under way together (`LegWaits`).
- **Classification.** The sets of a movement are one of each revision, each the
  successor of the one before (`Chained`). A call past its reads still has what
  they showed (`Stage`), because the locks it holds (`Holding`) keep others from
  writing, and two open transactions never write the same key or row (`Apart`).
  That an answer is true is never undone.
- **Inbox.** What a walk was shown is what it has passed, and it passed nothing
  that it had to show (`Walk`); a request has collected what lies between the walk
  and its own position, by the rules it read (`Scanning`). What changes meanwhile
  only takes away from what has to be shown. A step needs that a batch and what is
  found in it are initial parts of the order (`FirstOfIs`): then nothing that fits
  lies before the last item found, where a full page resumes, nor before the last
  row of a batch that left room, where a request ends whose budget is spent.
- **Sessions.** Only an installed operator has a residence, a failure or a call
  past its first transaction (`Installed`); an answer is given when a call ends
  (`Open`); a token names one session for ever (`Numbered`), so that one that was
  over when a call began is over when the call looks (`Over`).
- **Providers.** A request costs at most two rounds, of a key and of an answer
  each; `Meter` says how much of them a call may have spent at the attempt it has
  come to. `Heals` ties the lapses that are counted to the key and its refresh, and
  `Seen` the row an administrator was shown to the one that is stored.
- **Collections.** `CollectInv` says that the records fetched so far are the first
  pages of one set that was held, unless the records were moved both ways since
  the first page. At the end the totals are equal, so are the numbers of records,
  and of two finite sets of one size neither is a proper part of the other. The
  order of a page is a definition of the module (`Sorted`, the increasing list of
  a set) with its own lemmas: it exists, it is one, and its pages are a partition.

### What is assumed

The assumptions are named where the constants are declared, and TLC evaluates
them on the runs:

- Limits, leases and durations are naturals, positive where a zero would be
  refused by the code; a beat is shorter than the lease (`LeaseAssumption`: the
  heartbeat waits a third of it, `apps/worker/worker/main.py:94`).
- Movements are finitely many and their places in the inbox are one-to-one: an id
  breaks the tie of two dates (`RankAssumption`).
- Callers, clients and the rows of the beginning are finite sets, where a new
  identifier is drawn: one that is free must exist, as a uuid4 is taken to be.
- Requests, payloads and queries have the shape that the routes parse
  (`RequestsAssumption`, `PayloadsAssumption`, `QueriesAssumption`): an operation
  of the menu, an integer amount, a date. A transfer between equal accounts does
  not reach the store.
- A request for a movement, a transfer or a reversal carries a key (`Keyed`), as
  the routes require of their bodies (`apps/api/app/api/routes/finance.py:199`).
- The markers of nobody and of nothing are no values (`Nobody`, `NoAccount`).
- No client draws a key that the code derives: that of an automatic
  classification (`DerivedKeys`), that of the movement of a decision
  (`DecisionsAssumption`).
- The rules of the beginning have identifiers and keys of their own; the
  observations of the beginning are of version 1.

### What is only model-checked

Liveness: `AcceptedSettles`, `CycleCompletes`, and `EveryCallReturns` of
BankingSync and of Reconciliation. They rest on fairness, hence on ENABLED, which
the installed provers do not decide. Nothing else is left to TLC alone. Where a
proof needs an induction over a finite set, as the sums and the sorted lists do,
it is made with a least counterexample, because the induction theorems of the
library take an operator as a parameter.

The runs that expect a violation have no theorem: they check what the code does
not keep (section 5).

## 7. What is left out

Within the modelled parts:

- Row level security and membership: one operator owns one residence; a
  predicate on each row that the repository's tests cover. In the inbox and the
  review, visibility is constant.
- Ledger and API: one currency and no running balances; ids that are no uuid4,
  payloads of the wrong shape and the rendering of rows. "lost" stands for a 503
  as well as for no answer at all. `get_balance` and `get_statement` make the
  same reads and are one.
- Classification: categories and accounts that change while a movement is
  classified (the deferred trigger of 0017 checks both at the commit, but reads
  them without a lock), the audit event of an allocation set, the filters of the
  inbox by account and effect, and the preview: it is advice that binds nobody,
  and the applied pairs of a batch are any movement and rule. A missing account or
  category (404) and shares that do not close (422) are one answer, `invalid`,
  which no property tells apart.
- Reconciliation: access to the connection and the checks of digests; the account,
  the currency, the opening balance and the description that an import needs are
  one flag of the request. A decided transaction that the bank changes later
  keeps its link, as in the code.
- ProviderAccess: the kinds of errors are one answer apart from authentication;
  a request that may be refused whatever the key (403) is one of a constant set; feature flag,
  availability and database errors are one action; an administrator sends the
  revision it was last shown; encryption.
- OperatorSession: password hashes, tokens and login names are values; the one
  operator is never made inactive, since no code does so.
- BankingSync: an item of another residence or of nobody, which a registration
  refuses without a change; the open statuses of a connection, which no guard
  tells apart; `finalize_connection_disconnection`, which nothing calls.
- The clock of `apply_transaction_page` against the cursor: two pages of one
  account committed at the same reading, or a clock that goes back, fail a run.
  SyncCycle has this as `RunFails`; Reconciliation has the clock of the
  observations themselves.

Not modelled:

- Consent lifecycle, value types of the provider contract, the translation of
  Pluggy's payloads: pure functions without state.
- Security primitives: cryptography and redaction.
- The bootstrap and the migrations run once before the services start. What the
  migrations install (indexes, policies, triggers) is modelled where it bites.
- The demonstration fixture loads a fixed data set into an empty installation.
- The Flutter client presents the API and stores nothing the server depends on.
- The spike and the test tools are experiments.
- Operational scripts; the update is next in the plan.

The map in `PROJECT.json` covers about 30% of the implementation's lines, most of
the rest being the Flutter client, payload translation, records and schemas,
migrations, scripts, the demonstration and the spike.

## 8. Plan

Done: all modules of section 2, the refinements of both contracts, and the proofs
of section 6. Next, in this order:

1. **FoundationUpdate**: the update script with a kill between any two commands,
   and the rule that a rollback needs a schema that has not moved.
2. The evaluation order of rules and the consent lifecycle as operators with
   reference definitions.
