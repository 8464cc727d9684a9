----------------------------- MODULE TaskQueue ------------------------------
(***************************************************************************)
(* The PostgreSQL task queue (queue.py) and the worker processes that      *)
(* consume it (apps/worker/worker/main.py): reservation under a lease with *)
(* a fencing token, renewal by a heartbeat thread, retry with backoff,     *)
(* recovery of exhausted leases, worker crashes and statements whose       *)
(* answer the client never sees.                                           *)
(*                                                                         *)
(* Every statement of queue.py is one autocommitted transaction, so it is  *)
(* one step.  Dates are kept as the number of seconds that remain until    *)
(* them: available_at <= now() is available = 0, lease_expires_at <= now() *)
(* is lease = 0, and Tick brings all of them one second closer.            *)
(***************************************************************************)
EXTENDS Naturals, FiniteSets

CONSTANTS
  Tasks,             \* idempotency keys; the row of a key is the task
  HandledTasks,      \* the tasks whose task_type is in HANDLERS
  Workers,           \* worker processes
  AttemptLimits,     \* values of max_attempts given to enqueue
  EnqueueDelays,     \* seconds from now to the available_at given to enqueue
  LeaseSeconds,      \* worker_lease_seconds
  BeatSeconds,       \* seconds between two renewals, a third of the lease
  RetryBase,         \* worker_retry_base_seconds
  RetryMax,          \* worker_retry_max_seconds
  MaxInFlight        \* bound: statements on the wire without a client

ASSUME HandledAssumption == HandledTasks \subseteq Tasks
ASSUME LimitsAssumption == AttemptLimits \subseteq Nat \ {0}
ASSUME DelaysAssumption == EnqueueDelays \subseteq Nat
ASSUME LeaseAssumption ==
  /\ LeaseSeconds \in Nat
  /\ BeatSeconds \in Nat \ {0}
  /\ BeatSeconds < LeaseSeconds
ASSUME RetryAssumption == RetryBase \in Nat /\ RetryMax \in Nat
ASSUME InFlightAssumption == MaxInFlight \in Nat

NoToken == 0
NoWorker == "nobody"

VARIABLES
  row,        \* infra.task_queue
  minted,     \* how many lease tokens were drawn for a task: uuid4 is fresh
  effects,    \* infra.demo_task_effects
  pc,         \* where each worker is in its loop
  held,       \* the TaskRecord a worker got from its last claim
  beat,       \* seconds to the heartbeat's next renewal; Late, or Silent
  inFlight    \* statements sent by a client that no longer waits for them

vars == <<row, minted, effects, pc, held, beat, inFlight>>

Late == BeatSeconds + 1     \* a second went by while the renewal was due
Silent == BeatSeconds + 2   \* no heartbeat thread

-----------------------------------------------------------------------------
(* Types *)

Final == {"succeeded", "failed"}

Row ==
  [status : {"absent", "pending", "running"} \cup Final,
   attempts : Nat, max_attempts : Nat,
   available : Nat, lease : Nat,
   locked_by : Workers \cup {NoWorker}, lease_token : Nat]

\* The fields of a TaskRecord that the worker's later statements use.
Claim ==
  [task : Tasks, locked_by : Workers, lease_token : Nat,
   attempts : Nat, max_attempts : Nat]

NoClaim == [task |-> "none"]

Statement == [op : {"renew", "act", "succeed", "fail"}, claim : Claim]

Typed ==
  /\ row \in [Tasks -> Row]
  /\ minted \in [Tasks -> Nat]
  /\ effects \subseteq Tasks
  /\ pc \in [Workers -> {"idle", "claim", "handle", "succeed", "fail", "down"}]
  /\ held \in [Workers -> Claim \cup {NoClaim}]
  /\ beat \in [Workers -> 0..Silent]
  /\ inFlight \subseteq Statement

\* ck_task_queue_lease_state: the lock columns are set in a running row and null
\* in every other.
LeaseColumns(r) ==
  \/ /\ r.status = "running"
     /\ r.locked_by \in Workers /\ r.lease_token # NoToken
  \/ /\ r.status # "running"
     /\ r.locked_by = NoWorker /\ r.lease_token = NoToken /\ r.lease = 0

\* The types of the variables, and that no statement of queue.py writes a row
\* that the table's check of the lease columns would refuse.
TypeOK == Typed /\ \A t \in Tasks : LeaseColumns(row[t])

-----------------------------------------------------------------------------
(* Rows *)

AbsentRow ==
  [status |-> "absent", attempts |-> 0, max_attempts |-> 0, available |-> 0,
   lease |-> 0, locked_by |-> NoWorker, lease_token |-> NoToken]

NewRow(limit, delay) ==
  [AbsentRow EXCEPT !.status = "pending", !.max_attempts = limit,
                    !.available = delay]

\* Mutated: claim takes only pending tasks and leaves the expired ones behind.
ClaimablePending(t) ==
  /\ row[t].attempts < row[t].max_attempts
  /\ row[t].status = "pending" /\ row[t].available = 0

\* Mutated: claim forgets attempts < max_attempts.
ClaimableForEver(t) ==
  \/ row[t].status = "pending" /\ row[t].available = 0
  \/ row[t].status = "running" /\ row[t].lease = 0

\* claim takes a pending task that is due or a running one whose lease ran
\* out.  Its ORDER BY ranks only the rows that no other transaction locks
\* (SKIP LOCKED), so any claimable row can be the one it takes.
Claimable(t) ==
  /\ row[t].attempts < row[t].max_attempts
  /\ \/ row[t].status = "pending" /\ row[t].available = 0
     \/ row[t].status = "running" /\ row[t].lease = 0

\* Mutated: recovery fails expired tasks that still have attempts.
ExhaustedEarly(t) == row[t].status = "running" /\ row[t].lease = 0

Exhausted(t) ==
  /\ row[t].status = "running"
  /\ row[t].lease = 0
  /\ row[t].attempts >= row[t].max_attempts

\* Mutated: the lease token is not compared.
OwnsLeaseWithoutToken(c) ==
  /\ row[c.task].status = "running"
  /\ row[c.task].locked_by = c.locked_by
  /\ row[c.task].lease > 0

\* The WHERE clause that renew, succeed and fail share.
OwnsLease(c) ==
  /\ row[c.task].status = "running"
  /\ row[c.task].locked_by = c.locked_by
  /\ row[c.task].lease_token = c.lease_token
  /\ row[c.task].lease > 0

\* Mutated: the worker that held the row stays in it.
ReleasedButLocked(r, status, available) ==
  [r EXCEPT !.status = status, !.available = available, !.lease = 0,
            !.lease_token = NoToken]

\* A row that leaves "running" drops its four lock columns.
Released(r, status, available) ==
  [r EXCEPT !.status = status, !.available = available, !.lease = 0,
            !.locked_by = NoWorker, !.lease_token = NoToken]

Reserved(r, w, token) ==
  [r EXCEPT !.status = "running", !.attempts = r.attempts + 1,
            !.lease = LeaseSeconds, !.locked_by = w, !.lease_token = token]

\* retry_delay: the base doubled once per earlier attempt, capped.
RetryDelay(attempts) ==
  LET backoff == RetryBase * 2 ^ (attempts - 1)
  IN  IF backoff \in 0..RetryMax THEN backoff ELSE RetryMax

\* Mutated: renew writes updated_at but leaves lease_expires_at.
SettledWithoutRenewal(c, op) ==
  CASE op = "succeed" -> Released(row[c.task], "succeeded", row[c.task].available)
    [] op = "fail" -> Released(row[c.task],
         IF c.attempts < c.max_attempts THEN "pending" ELSE "failed",
         RetryDelay(c.attempts))
    [] op = "renew" -> row[c.task]

Settled(c, op) ==
  CASE op = "succeed" -> Released(row[c.task], "succeeded", row[c.task].available)
    [] op = "fail" /\ c.attempts < c.max_attempts ->
         Released(row[c.task], "pending", RetryDelay(c.attempts))
    [] op = "fail" /\ c.attempts >= c.max_attempts ->
         Released(row[c.task], "failed", row[c.task].available)
    [] op = "renew" -> [row[c.task] EXCEPT !.lease = LeaseSeconds]

\* One UPDATE under the lease; without the lease it touches no row and the
\* caller gets a LostLeaseError.
ExecuteLeaseUpdate(c, op) ==
  row' = IF OwnsLease(c) THEN [row EXCEPT ![c.task] = Settled(c, op)] ELSE row

-----------------------------------------------------------------------------
(* The caller *)

\* INSERT ... ON CONFLICT (idempotency_key): an existing task is returned as
\* it is, whatever the parameters of the repeated call.
Enqueue(t, limit, delay) ==
  /\ row' = [row EXCEPT ![t] = IF @.status = "absent"
                                 THEN NewRow(limit, delay) ELSE @]
  /\ UNCHANGED <<minted, effects, pc, held, beat, inFlight>>

-----------------------------------------------------------------------------
(* The worker's loop *)

RecoverExhaustedLeases(w) ==
  /\ pc[w] = "idle"
  /\ row' = [t \in Tasks |-> IF Exhausted(t)
                               THEN Released(row[t], "failed", row[t].available)
                               ELSE row[t]]
  /\ pc' = [pc EXCEPT ![w] = "claim"]
  /\ UNCHANGED <<minted, effects, held, beat, inFlight>>

\* The UPDATE of claim, whoever receives its answer.
Reserve(w, t) ==
  /\ Claimable(t)
  /\ minted' = [minted EXCEPT ![t] = @ + 1]
  /\ row' = [row EXCEPT ![t] = Reserved(row[t], w, minted[t] + 1)]

\* Mutated: claim returns the row as it was before its UPDATE counted.
ClaimTaskStale(w, t) ==
  /\ pc[w] = "claim"
  /\ Reserve(w, t)
  /\ held' = [held EXCEPT ![w] =
                [task |-> t, locked_by |-> w, lease_token |-> minted[t] + 1,
                 attempts |-> row[t].attempts,
                 max_attempts |-> row[t].max_attempts]]
  /\ pc' = [pc EXCEPT ![w] = "handle"]
  /\ beat' = [beat EXCEPT ![w] = IF t \in HandledTasks THEN BeatSeconds ELSE Silent]
  /\ UNCHANGED <<effects, inFlight>>

ClaimTask(w, t) ==
  /\ pc[w] = "claim"
  /\ Reserve(w, t)
  /\ held' = [held EXCEPT ![w] =
                [task |-> t, locked_by |-> w, lease_token |-> minted[t] + 1,
                 attempts |-> row[t].attempts + 1,
                 max_attempts |-> row[t].max_attempts]]
  /\ pc' = [pc EXCEPT ![w] = "handle"]
  /\ beat' = [beat EXCEPT ![w] = IF t \in HandledTasks THEN BeatSeconds ELSE Silent]
  /\ UNCHANGED <<effects, inFlight>>

\* The reservation commits but the worker only sees a SQLAlchemyError: the
\* task runs under a token that nobody holds.
ClaimUnanswered(w, t) ==
  /\ pc[w] = "claim"
  /\ Reserve(w, t)
  /\ pc' = [pc EXCEPT ![w] = "idle"]
  /\ UNCHANGED <<effects, held, beat, inFlight>>

\* Nothing to claim, every candidate locked, or the database is away.
PollMisses(w) ==
  /\ pc[w] = "claim"
  /\ pc' = [pc EXCEPT ![w] = "idle"]
  /\ UNCHANGED <<row, minted, effects, held, beat, inFlight>>

\* Statements the worker may have on the wire when it stops waiting for them.
OnTheWire(w) ==
  { s \in [op : {"renew", "act", "succeed", "fail"}, claim : {held[w]}] :
      \/ s.op = "renew" /\ beat[w] # Silent
      \/ s.op = "act" /\ pc[w] = "handle" /\ held[w].task \in HandledTasks
      \/ s.op = pc[w] }

LeaveOnTheWire(S) ==
  /\ inFlight' = inFlight \cup S
  /\ Cardinality(inFlight') <= MaxInFlight

\* The handler ends and LeaseHeartbeat.__exit__ joins the heartbeat thread;
\* the join has a timeout, a renewal may outlive it.
LeaveHandler(w, report) ==
  /\ pc[w] = "handle"
  /\ pc' = [pc EXCEPT ![w] = report]
  /\ beat' = [beat EXCEPT ![w] = Silent]
  /\ \E S \in SUBSET { s \in OnTheWire(w) : s.op = "renew" } : LeaveOnTheWire(S)
  /\ UNCHANGED <<row, minted, held>>

HandlerReturns(w) ==
  /\ held[w].task \in HandledTasks
  /\ effects' = effects \cup {held[w].task}
  /\ LeaveHandler(w, "succeed")

\* The handler raises, with its insert committed or not; a task_type outside
\* HANDLERS raises KeyError before anything runs.
HandlerRaises(w) ==
  /\ effects' \in {effects, effects \cup ({held[w].task} \cap HandledTasks)}
  /\ LeaveHandler(w, "fail")

\* queue.succeed or queue.fail answers, with the row or with LostLeaseError.
Report(w) ==
  /\ pc[w] \in {"succeed", "fail"}
  /\ ExecuteLeaseUpdate(held[w], pc[w])
  /\ pc' = [pc EXCEPT ![w] = "idle"]
  /\ held' = [held EXCEPT ![w] = NoClaim]
  /\ UNCHANGED <<minted, effects, beat, inFlight>>

\* SQLAlchemyError: logged, and the worker goes on with its loop.
ReportUnanswered(w) ==
  /\ pc[w] \in {"succeed", "fail"}
  /\ \E S \in SUBSET OnTheWire(w) : LeaveOnTheWire(S)
  /\ pc' = [pc EXCEPT ![w] = "idle"]
  /\ held' = [held EXCEPT ![w] = NoClaim]
  /\ UNCHANGED <<row, minted, effects, beat>>

-----------------------------------------------------------------------------
(* The heartbeat thread *)

Renew(w) ==
  /\ beat[w] \in {0, Late}
  /\ ExecuteLeaseUpdate(held[w], "renew")
  /\ beat' = [beat EXCEPT ![w] = IF OwnsLease(held[w]) THEN BeatSeconds ELSE Silent]
  /\ UNCHANGED <<minted, effects, pc, held, inFlight>>

\* One SQLAlchemyError ends the thread; the handler goes on without it.
RenewUnanswered(w) ==
  /\ beat[w] \in {0, Late}
  /\ \E S \in SUBSET { s \in OnTheWire(w) : s.op = "renew" } : LeaveOnTheWire(S)
  /\ beat' = [beat EXCEPT ![w] = Silent]
  /\ UNCHANGED <<row, minted, effects, pc, held>>

-----------------------------------------------------------------------------
(* The environment *)

\* A process is killed; whatever it had sent may still be executed.
Crash(w) ==
  /\ pc[w] # "down"
  /\ \E S \in SUBSET OnTheWire(w) : LeaveOnTheWire(S)
  /\ pc' = [pc EXCEPT ![w] = "down"]
  /\ held' = [held EXCEPT ![w] = NoClaim]
  /\ beat' = [beat EXCEPT ![w] = Silent]
  /\ UNCHANGED <<row, minted, effects>>

Restart(w) ==
  /\ pc[w] = "down"
  /\ pc' = [pc EXCEPT ![w] = "idle"]
  /\ UNCHANGED <<row, minted, effects, held, beat, inFlight>>

\* A statement without a client reaches the database.
Deliver(s) ==
  /\ s \in inFlight
  /\ inFlight' = inFlight \ {s}
  /\ \/ s.op = "act" /\ effects' = effects \cup {s.claim.task} /\ UNCHANGED row
     \/ s.op # "act" /\ ExecuteLeaseUpdate(s.claim, s.op) /\ UNCHANGED effects
  /\ UNCHANGED <<minted, pc, held, beat>>

Sooner(n) == IF n = 0 THEN 0 ELSE n - 1

Tick ==
  /\ row' = [t \in Tasks |-> [row[t] EXCEPT !.available = Sooner(@),
                                            !.lease = Sooner(@)]]
  /\ beat' = [w \in Workers |-> IF beat[w] = 0 THEN Late
                                ELSE IF beat[w] <= BeatSeconds THEN beat[w] - 1
                                ELSE beat[w]]
  /\ UNCHANGED <<minted, effects, pc, held, inFlight>>

-----------------------------------------------------------------------------
Init ==
  /\ row = [t \in Tasks |-> AbsentRow]
  /\ minted = [t \in Tasks |-> 0]
  /\ effects = {}
  /\ pc = [w \in Workers |-> "idle"]
  /\ held = [w \in Workers |-> NoClaim]
  /\ beat = [w \in Workers |-> Silent]
  /\ inFlight = {}

WorkerStep(w) ==
  \/ RecoverExhaustedLeases(w)
  \/ \E t \in Tasks : ClaimTask(w, t) \/ ClaimUnanswered(w, t)
  \/ PollMisses(w)
  \/ HandlerReturns(w) \/ HandlerRaises(w)
  \/ Report(w) \/ ReportUnanswered(w)
  \/ Renew(w) \/ RenewUnanswered(w)
  \/ Crash(w) \/ Restart(w)

Next ==
  \/ \E t \in Tasks, m \in AttemptLimits, d \in EnqueueDelays : Enqueue(t, m, d)
  \/ \E w \in Workers : WorkerStep(w)
  \/ \E s \in inFlight : Deliver(s)
  \/ Tick

Spec == Init /\ [][Next]_vars

\* Compose restarts a dead worker, handlers return or raise, a statement is
\* answered or times out, and a worker that polls again and again is not
\* turned away by the database, or killed, every time.
Fairness ==
  /\ WF_vars(Tick)
  /\ SF_vars(\E w \in Workers : RecoverExhaustedLeases(w))
  /\ SF_vars(\E w \in Workers, t \in Tasks : ClaimTask(w, t) \/ ClaimUnanswered(w, t))
  /\ \A w \in Workers :
       /\ WF_vars(Restart(w))
       /\ WF_vars(HandlerReturns(w) \/ HandlerRaises(w))
       /\ WF_vars(Report(w) \/ ReportUnanswered(w))
       /\ WF_vars(PollMisses(w) \/ \E t \in Tasks : ClaimTask(w, t))

FairSpec == Spec /\ Fairness

-----------------------------------------------------------------------------
(* Safety *)

\* The claims that can still lead to a statement of queue.py.
LiveClaims ==
  ({ held[w] : w \in Workers } \ {NoClaim}) \cup { s.claim : s \in inFlight }

\* A task never gets more attempts than max_attempts, one that waits for a
\* retry has an attempt left (claim would skip it for ever and recovery only
\* looks at running tasks), and one that failed has used them all: the retry
\* decision of fail is taken from the worker's old record, not from the row.
AttemptBudget ==
  \A t \in Tasks :
    /\ row[t].attempts <= row[t].max_attempts
    /\ row[t].status = "pending" => row[t].attempts < row[t].max_attempts
    /\ row[t].status = "failed" => row[t].attempts = row[t].max_attempts

\* A task marked succeeded has its effect committed, whoever marked it and
\* however late: the effect and the mark are two transactions.
SuccessHasEffect ==
  \A t \in Tasks : row[t].status = "succeeded" => t \in effects

\* Two workers never hold the same reservation (ADR-0006 item 8), and a
\* reservation that is still current was made for the attempt the row counts.
OneHolder ==
  /\ \A w, v \in Workers : held[w] # NoClaim /\ held[w] = held[v] => w = v
  /\ \A c \in LiveClaims :
       c.lease_token = row[c.task].lease_token =>
         /\ c.attempts = row[c.task].attempts
         /\ c.max_attempts = row[c.task].max_attempts
         /\ c.locked_by = row[c.task].locked_by

\* A task is settled or sent back for a retry only by the reservation that is
\* current and unexpired at that moment, and only once its handler has ended
\* (ADR-0006 item 9: a worker with an old lease cannot conclude the task);
\* the only other way out of "running" is the recovery of an expired lease.
NoStaleSettlement ==
  [][ \A t \in Tasks :
        row[t].status = "running" /\ row'[t].status # "running" =>
          \/ row'[t].status = "failed" /\ row[t].lease = 0
          \/ /\ row[t].lease > 0
             /\ \E c \in LiveClaims : c.task = t /\ c.lease_token = row[t].lease_token
             /\ \A w \in Workers :
                  pc[w] = "handle" /\ held[w].task = t =>
                    held[w].lease_token # row[t].lease_token
    ]_vars

\* A settled task is never touched again: not by a repeated enqueue, a late
\* statement, a heartbeat that outlived its handler or the recovery sweep.
SettledIsFinal ==
  [][ \A t \in Tasks : row[t].status \in Final =>
        /\ row'[t].status = row[t].status
        /\ row'[t].attempts = row[t].attempts
        /\ row'[t].lease_token = NoToken ]_vars

\* A handler whose heartbeat is punctual owns its lease, whatever late
\* statements of earlier attempts arrive: no other worker runs the task.
PunctualOwnsLease ==
  \A w \in Workers : beat[w] \in 0..BeatSeconds => OwnsLease(held[w])

-----------------------------------------------------------------------------
(* Liveness, and the contract *)

\* Every accepted task is eventually settled, through crashes, lost answers
\* and expired leases.
AcceptedSettles ==
  \A t \in Tasks : (row[t].status # "absent") ~> (row[t].status \in Final)

Outcome ==
  [t \in Tasks |-> IF row[t].status \in {"pending", "running"}
                     THEN "accepted" ELSE row[t].status]

Contract == INSTANCE TaskContract WITH
  outcome <- Outcome,
  tries   <- [t \in Tasks |-> row[t].attempts],
  budget  <- [t \in Tasks |-> row[t].max_attempts]

\* The queue with its workers keeps the contract.
KeepsContract == Contract!Spec
=============================================================================
