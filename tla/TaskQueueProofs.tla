-------------------------- MODULE TaskQueueProofs ---------------------------
(***************************************************************************)
(* The safety of the task queue, for every set of tasks and workers and    *)
(* every lease, retry and attempt setting, and that it implements          *)
(* TaskContract.                                                           *)
(***************************************************************************)
EXTENDS TaskQueue, TLAPS

\* What the lease columns say: ck_task_queue_lease_state of the table, read
\* with the tokens drawn so far.
LeaseState ==
  \A t \in Tasks :
    /\ row[t].lease_token <= minted[t]
    /\ row[t].status = "running" <=> row[t].lease_token # NoToken
    /\ LeaseColumns(row[t])
    /\ row[t].status = "absent" => row[t].attempts = 0

\* Where a worker holds a claim, and while its heartbeat may beat.
Phase ==
  \A w \in Workers :
    /\ held[w] # NoClaim <=> pc[w] \in {"handle", "succeed", "fail"}
    /\ beat[w] # Silent => pc[w] = "handle" /\ held[w].task \in HandledTasks

\* What a claim keeps knowing about its row for as long as it can be used.
ClaimSound(c) ==
  /\ 0 < c.lease_token /\ c.lease_token <= minted[c.task]
  /\ 0 < row[c.task].attempts
  /\ c.lease_token = row[c.task].lease_token =>
       /\ c.attempts = row[c.task].attempts
       /\ c.max_attempts = row[c.task].max_attempts
       /\ c.locked_by = row[c.task].locked_by

\* A success is only reported, now or late, after the effect was committed.
ReportsHaveEffect ==
  /\ \A w \in Workers : pc[w] = "succeed" => held[w].task \in effects
  /\ \A s \in inFlight : s.op = "succeed" => s.claim.task \in effects

\* The inductive invariant.
IInv ==
  /\ Typed
  /\ LeaseState
  /\ Phase
  /\ AttemptBudget
  /\ SuccessHasEffect
  /\ ReportsHaveEffect
  /\ \A c \in LiveClaims : ClaimSound(c)
  /\ \A w, v \in Workers : held[w] # NoClaim /\ held[w] = held[v] => w = v

-----------------------------------------------------------------------------
LEMMA NotAClaim == NoClaim \notin Claim
BY DEF NoClaim, Claim

LEMMA ReleasedType ==
  ASSUME NEW r \in Row, NEW status \in {"pending"} \cup Final, NEW available \in Nat
  PROVE  Released(r, status, available) \in Row
BY DEF Released, Row, Final, NoToken, NoWorker

LEMMA RetryDelayType == \A n \in Nat : RetryDelay(n) \in Nat
BY RetryAssumption DEF RetryDelay

LEMMA LeaseUpdateType ==
  ASSUME Typed, NEW c \in Claim, NEW op \in {"renew", "succeed", "fail"},
         ExecuteLeaseUpdate(c, op)
  PROVE  row' \in [Tasks -> Row]
<1>1. c.task \in Tasks /\ c.attempts \in Nat /\ c.max_attempts \in Nat
  BY DEF Claim
<1>2. row[c.task] \in Row /\ row[c.task].available \in Nat
  BY <1>1 DEF Typed, Row
<1>3. Settled(c, op) \in Row
  <2>1. CASE op = "renew"
    BY <1>2, <2>1, LeaseAssumption DEF Settled, Row
  <2>2. CASE op = "succeed"
    <3>1. Settled(c, op) = Released(row[c.task], "succeeded", row[c.task].available)
      BY <2>2 DEF Settled
    <3> QED BY <1>2, <3>1, ReleasedType DEF Final
  <2>3. CASE op = "fail"
    <3>1. CASE c.attempts < c.max_attempts
      <4>1. Settled(c, op) = Released(row[c.task], "pending", RetryDelay(c.attempts))
        BY <1>1, <2>3, <3>1 DEF Settled
      <4> QED BY <1>1, <1>2, <4>1, ReleasedType, RetryDelayType
    <3>2. CASE c.attempts >= c.max_attempts
      <4>1. Settled(c, op) = Released(row[c.task], "failed", row[c.task].available)
        BY <1>1, <2>3, <3>2 DEF Settled
      <4> QED BY <1>2, <4>1, ReleasedType DEF Final
    <3> QED BY <1>1, <3>1, <3>2
  <2> QED BY <2>1, <2>2, <2>3
<1> QED BY <1>1, <1>3 DEF Typed, ExecuteLeaseUpdate

LEMMA HeldIsClaim ==
  ASSUME Typed, Phase, NEW w \in Workers, pc[w] \in {"handle", "succeed", "fail"}
  PROVE  held[w] \in Claim /\ held[w] \in LiveClaims
BY DEF Typed, Phase, LiveClaims

LEMMA LiveClaimsType ==
  ASSUME Typed
  PROVE  LiveClaims \subseteq Claim
BY DEF Typed, LiveClaims, Statement

LEMMA OnTheWireType ==
  ASSUME Typed, Phase, NEW w \in Workers, NEW s \in OnTheWire(w)
  PROVE  /\ s \in Statement
         /\ s.claim = held[w]
         /\ pc[w] \in {"handle", "succeed", "fail"}
         /\ s.op = "succeed" => pc[w] = "succeed"
<1>1. /\ s \in [op : {"renew", "act", "succeed", "fail"}, claim : {held[w]}]
      /\ \/ s.op = "renew" /\ beat[w] # Silent
         \/ s.op = "act" /\ pc[w] = "handle"
         \/ s.op = pc[w]
  BY DEF OnTheWire
<1>2. /\ pc[w] \in {"handle", "succeed", "fail"}
      /\ s.op = "succeed" => pc[w] = "succeed"
  BY <1>1 DEF Phase, Typed
<1>3. held[w] \in Claim
  BY <1>2, HeldIsClaim
<1> QED BY <1>1, <1>2, <1>3 DEF Statement

\* Leaving statements on the wire keeps what is said of them.
LEMMA LeaveOnTheWireType ==
  ASSUME Typed, Phase, ReportsHaveEffect, NEW w \in Workers,
         NEW S \in SUBSET OnTheWire(w), LeaveOnTheWire(S)
  PROVE  /\ inFlight' \subseteq Statement
         /\ \A s \in inFlight' : s.claim \in LiveClaims
         /\ \A s \in inFlight' : s.op = "succeed" => s.claim.task \in effects
<1> SUFFICES ASSUME NEW s \in inFlight'
             PROVE  /\ s \in Statement
                    /\ s.claim \in LiveClaims
                    /\ s.op = "succeed" => s.claim.task \in effects
  OBVIOUS
<1>1. s \in inFlight \/ s \in OnTheWire(w)
  BY DEF LeaveOnTheWire
<1>2. CASE s \in inFlight
  BY <1>2 DEF Typed, LiveClaims, ReportsHaveEffect
<1>3. CASE s \in OnTheWire(w)
  BY <1>3, OnTheWireType, HeldIsClaim DEF ReportsHaveEffect
<1> QED BY <1>1, <1>2, <1>3

-----------------------------------------------------------------------------
(* Rows *)

\* What every step does to the row of a task: nothing but time, a fresh
\* reservation, a new task, or a release that respects the attempt budget.
RowKept(t) ==
  /\ row'[t].status = row[t].status
  /\ row'[t].attempts = row[t].attempts
  /\ row'[t].max_attempts = row[t].max_attempts
  /\ row'[t].locked_by = row[t].locked_by
  /\ row'[t].lease_token = row[t].lease_token
  /\ row[t].status # "running" /\ row[t].lease = 0 => row'[t].lease = 0
  /\ minted'[t] = minted[t]

RowReserved(t) ==
  /\ row[t].attempts < row[t].max_attempts
  /\ row[t].status \in {"pending", "running"}
  /\ row'[t].status = "running"
  /\ row'[t].attempts = row[t].attempts + 1
  /\ row'[t].max_attempts = row[t].max_attempts
  /\ row'[t].locked_by \in Workers
  /\ row'[t].lease_token = minted[t] + 1
  /\ minted'[t] = minted[t] + 1

RowAccepted(t) ==
  /\ row[t].status = "absent"
  /\ row'[t].status = "pending"
  /\ row'[t].attempts = 0
  /\ row'[t].max_attempts \in Nat \ {0}
  /\ row'[t].locked_by = NoWorker /\ row'[t].lease_token = NoToken /\ row'[t].lease = 0
  /\ minted'[t] = minted[t]

RowReleased(t) ==
  /\ row[t].status = "running"
  /\ row'[t].attempts = row[t].attempts
  /\ row'[t].max_attempts = row[t].max_attempts
  /\ row'[t].locked_by = NoWorker /\ row'[t].lease_token = NoToken /\ row'[t].lease = 0
  /\ minted'[t] = minted[t]
  /\ \/ row'[t].status = "pending" /\ row[t].attempts < row[t].max_attempts
     \/ row'[t].status = "failed" /\ row[t].attempts = row[t].max_attempts
     \/ row'[t].status = "succeeded" /\ t \in effects

RowStep(t) == RowKept(t) \/ RowReserved(t) \/ RowAccepted(t) \/ RowReleased(t)

\* An UPDATE under the lease of a sound claim is such a step.
LEMMA LeaseUpdateStep ==
  ASSUME IInv, NEW c \in LiveClaims, NEW op \in {"renew", "succeed", "fail"},
         op = "succeed" => c.task \in effects,
         ExecuteLeaseUpdate(c, op), minted' = minted
  PROVE  \A t \in Tasks : RowStep(t)
<1> SUFFICES ASSUME NEW t \in Tasks
             PROVE  RowStep(t)
  OBVIOUS
<1>1. c \in Claim /\ c.task \in Tasks /\ c.attempts \in Nat /\ c.max_attempts \in Nat
  BY LiveClaimsType DEF IInv, Claim
<1>2. CASE ~OwnsLease(c) \/ t # c.task
  <2>1. row'[t] = row[t]
    BY <1>1, <1>2 DEF ExecuteLeaseUpdate, IInv, Typed
  <2> QED BY <2>1 DEF RowStep, RowKept
<1>3. CASE OwnsLease(c) /\ t = c.task
  <2>1. /\ row'[t] = Settled(c, op)
        /\ row[t] \in Row
    BY <1>1, <1>3 DEF ExecuteLeaseUpdate, IInv, Typed
  <2>2. /\ row[t].status = "running"
        /\ row[t].attempts = c.attempts
        /\ row[t].max_attempts = c.max_attempts
        /\ row[t].attempts <= row[t].max_attempts
    BY <1>1, <1>3 DEF IInv, ClaimSound, OwnsLease, AttemptBudget
  <2>3. CASE op = "renew"
    <3>1. row'[t] = [row[t] EXCEPT !.lease = LeaseSeconds]
      BY <1>3, <2>1, <2>3 DEF Settled
    <3> QED BY <2>1, <2>2, <3>1 DEF RowStep, RowKept, Row
  <2>4. CASE op = "succeed"
    <3>1. row'[t] = Released(row[t], "succeeded", row[t].available)
      BY <1>3, <2>1, <2>4 DEF Settled
    <3> QED BY <1>3, <2>1, <2>2, <2>4, <3>1 DEF RowStep, RowReleased, Row, Released
  <2>5. CASE op = "fail" /\ c.attempts < c.max_attempts
    <3>1. row'[t] = Released(row[t], "pending", RetryDelay(c.attempts))
      BY <1>1, <1>3, <2>1, <2>5 DEF Settled
    <3> QED BY <2>1, <2>2, <2>5, <3>1 DEF RowStep, RowReleased, Row, Released
  <2>6. CASE op = "fail" /\ c.attempts >= c.max_attempts
    <3>1. row'[t] = Released(row[t], "failed", row[t].available)
      BY <1>1, <1>3, <2>1, <2>6 DEF Settled
    <3>2. row[t].attempts = row[t].max_attempts
      BY <1>1, <2>2, <2>6
    <3> QED BY <2>1, <2>2, <3>1, <3>2 DEF RowStep, RowReleased, Row, Released
  <2> QED BY <1>1, <2>3, <2>4, <2>5, <2>6
<1> QED BY <1>2, <1>3

\* Every step of the system takes every row through one of the four changes.
LEMMA EveryRowStep ==
  ASSUME IInv, Next
  PROVE  \A t \in Tasks : RowStep(t)
<1>1. \A t \in Tasks : row[t] \in Row /\ minted[t] \in Nat
  BY DEF IInv, Typed
<1>2. ASSUME NEW u \in Tasks, NEW m \in AttemptLimits, NEW d \in EnqueueDelays,
             Enqueue(u, m, d), NEW t \in Tasks
      PROVE  RowStep(t)
  <2>1. CASE t = u /\ row[t].status = "absent"
    <3>1. row'[t] = NewRow(m, d) /\ minted' = minted
      BY <1>2, <2>1 DEF Enqueue, IInv, Typed
    <3>2. m \in Nat \ {0}
      BY LimitsAssumption
    <3> QED BY <2>1, <3>1, <3>2 DEF RowStep, RowAccepted, NewRow, AbsentRow
  <2>2. CASE ~(t = u /\ row[t].status = "absent")
    <3>1. row'[t] = row[t] /\ minted' = minted
      BY <1>2, <2>2 DEF Enqueue, IInv, Typed
    <3> QED BY <3>1 DEF RowStep, RowKept
  <2> QED BY <2>1, <2>2
<1>3. ASSUME NEW w \in Workers, RecoverExhaustedLeases(w), NEW t \in Tasks
      PROVE  RowStep(t)
  <2>1. minted' = minted
    BY <1>3 DEF RecoverExhaustedLeases
  <2>2. CASE Exhausted(t)
    <3>1. row'[t] = Released(row[t], "failed", row[t].available)
      BY <1>3, <2>2 DEF RecoverExhaustedLeases
    <3>2. row[t].status = "running" /\ row[t].attempts = row[t].max_attempts
      BY <1>1, <2>2 DEF Exhausted, IInv, AttemptBudget, Row
    <3> QED BY <1>1, <2>1, <3>1, <3>2 DEF RowStep, RowReleased, Released, Row
  <2>3. CASE ~Exhausted(t)
    <3>1. row'[t] = row[t]
      BY <1>3, <2>3 DEF RecoverExhaustedLeases
    <3> QED BY <2>1, <3>1 DEF RowStep, RowKept
  <2> QED BY <2>2, <2>3
<1>4. ASSUME NEW w \in Workers, NEW u \in Tasks, Reserve(w, u), NEW t \in Tasks
      PROVE  RowStep(t)
  <2>1. CASE t = u
    <3>1. minted'[t] = minted[t] + 1
      BY <1>4, <2>1 DEF Reserve, IInv, Typed
    <3>2. row'[t] = Reserved(row[t], w, minted[t] + 1)
      BY <1>4, <2>1 DEF Reserve, IInv, Typed
    <3>3. Claimable(t)
      BY <1>4, <2>1 DEF Reserve
    <3> QED BY <1>1, <3>1, <3>2, <3>3
           DEF RowStep, RowReserved, Reserved, Claimable, Row
  <2>2. CASE t # u
    <3>1. row'[t] = row[t] /\ minted'[t] = minted[t]
      BY <1>4, <2>2 DEF Reserve, IInv, Typed
    <3> QED BY <3>1 DEF RowStep, RowKept
  <2> QED BY <2>1, <2>2
<1>5. ASSUME NEW w \in Workers, Report(w)
      PROVE  \A t \in Tasks : RowStep(t)
  BY <1>5, LeaseUpdateStep, HeldIsClaim DEF Report, IInv, ReportsHaveEffect
<1>6. ASSUME NEW w \in Workers, Renew(w)
      PROVE  \A t \in Tasks : RowStep(t)
  <2>1. beat[w] # Silent
    BY <1>6, LeaseAssumption DEF Renew, Silent, Late
  <2>2. held[w] \in LiveClaims
    BY <2>1, HeldIsClaim DEF IInv, Phase
  <2> QED BY <1>6, <2>2, LeaseUpdateStep DEF Renew
<1>7. ASSUME NEW s \in inFlight, Deliver(s)
      PROVE  \A t \in Tasks : RowStep(t)
  <2>1. CASE s.op = "act"
    BY <1>7, <2>1 DEF Deliver, RowStep, RowKept
  <2>2. CASE s.op # "act"
    <3>1. s.claim \in LiveClaims /\ s.op \in {"renew", "succeed", "fail"}
      BY <2>2 DEF LiveClaims, IInv, Typed, Statement
    <3>2. s.op = "succeed" => s.claim.task \in effects
      BY DEF IInv, ReportsHaveEffect
    <3> QED BY <1>7, <2>2, <3>1, <3>2, LeaseUpdateStep DEF Deliver
  <2> QED BY <2>1, <2>2
<1>8. CASE Tick
  <2> SUFFICES ASSUME NEW t \in Tasks
               PROVE  RowKept(t)
    BY DEF RowStep
  <2>1. row'[t] = [row[t] EXCEPT !.available = Sooner(@), !.lease = Sooner(@)]
    BY <1>8 DEF Tick
  <2>2. row[t].lease = 0 => row'[t].lease = 0
    BY <1>1, <2>1 DEF Sooner, Row
  <2> QED BY <1>1, <1>8, <2>1, <2>2 DEF RowKept, Tick, Row
<1>9. ASSUME NEW w \in Workers, UNCHANGED <<row, minted>>
      PROVE  \A t \in Tasks : RowStep(t)
  BY <1>9 DEF RowStep, RowKept
<1>10. ASSUME NEW w \in Workers, WorkerStep(w)
       PROVE  \A t \in Tasks : RowStep(t)
  BY <1>3, <1>4, <1>5, <1>6, <1>9, <1>10
     DEF WorkerStep, ClaimTask, ClaimUnanswered, PollMisses, HandlerReturns,
         HandlerRaises, LeaveHandler, ReportUnanswered, RenewUnanswered,
         Crash, Restart
<1> QED BY <1>2, <1>7, <1>8, <1>10 DEF Next

-----------------------------------------------------------------------------
(* Types *)

LEMMA SoonerType == \A n \in Nat : Sooner(n) \in Nat /\ Sooner(n) <= n
BY DEF Sooner

LEMMA ReservedType ==
  ASSUME NEW r \in Row, NEW w \in Workers, NEW token \in Nat
  PROVE  Reserved(r, w, token) \in Row
<1>1. r.attempts + 1 \in Nat /\ LeaseSeconds \in Nat
  BY LeaseAssumption DEF Row
<1> QED BY <1>1 DEF Reserved, Row

LEMMA ReserveType ==
  ASSUME Typed, NEW w \in Workers, NEW t \in Tasks, Reserve(w, t)
  PROVE  row' \in [Tasks -> Row] /\ minted' \in [Tasks -> Nat]
<1>1. row[t] \in Row /\ minted[t] + 1 \in Nat
  BY DEF Typed
<1>2. Reserved(row[t], w, minted[t] + 1) \in Row
  BY <1>1, ReservedType
<1> QED BY <1>1, <1>2 DEF Reserve, Typed

LEMMA TypeStep ==
  ASSUME IInv, Next
  PROVE  Typed'
<1> USE DEF IInv
<1>1. ASSUME NEW t \in Tasks, NEW m \in AttemptLimits, NEW d \in EnqueueDelays,
             Enqueue(t, m, d)
      PROVE  Typed'
  <2>1. NewRow(m, d) \in Row
    BY LimitsAssumption, DelaysAssumption DEF NewRow, AbsentRow, Row, NoToken
  <2> QED BY <1>1, <2>1 DEF Enqueue, Typed
<1>2. ASSUME NEW w \in Workers, RecoverExhaustedLeases(w)
      PROVE  Typed'
  <2>1. ASSUME NEW t \in Tasks
        PROVE  row[t] \in Row /\ Released(row[t], "failed", row[t].available) \in Row
    BY ReleasedType DEF Typed, Row, Final
  <2> QED BY <1>2, <2>1 DEF RecoverExhaustedLeases, Typed
<1>3. ASSUME NEW w \in Workers, NEW t \in Tasks, ClaimTask(w, t)
      PROVE  Typed'
  <2>1. row' \in [Tasks -> Row] /\ minted' \in [Tasks -> Nat]
    BY <1>3, ReserveType DEF ClaimTask
  <2>2. [task |-> t, locked_by |-> w, lease_token |-> minted[t] + 1,
         attempts |-> row[t].attempts + 1,
         max_attempts |-> row[t].max_attempts] \in Claim
    BY DEF Claim, Typed, Row
  <2>3. BeatSeconds \in 0..Silent /\ Silent \in 0..Silent
    BY LeaseAssumption DEF Silent
  <2> QED BY <1>3, <2>1, <2>2, <2>3 DEF ClaimTask, Typed
<1>4. ASSUME NEW w \in Workers, NEW t \in Tasks, ClaimUnanswered(w, t)
      PROVE  Typed'
  BY <1>4, ReserveType DEF ClaimUnanswered, Typed
<1>5. ASSUME NEW w \in Workers, PollMisses(w) \/ Restart(w)
      PROVE  Typed'
  BY <1>5 DEF PollMisses, Restart, Typed
<1>6. ASSUME NEW w \in Workers, NEW report \in {"succeed", "fail"},
             LeaveHandler(w, report), effects' \subseteq Tasks
      PROVE  Typed'
  <2>1. inFlight' \subseteq Statement
    BY <1>6, LeaveOnTheWireType DEF LeaveHandler
  <2>2. Silent \in 0..Silent
    BY LeaseAssumption DEF Silent
  <2> QED BY <1>6, <2>1, <2>2 DEF LeaveHandler, Typed
<1>7. ASSUME NEW w \in Workers, HandlerReturns(w) \/ HandlerRaises(w)
      PROVE  Typed'
  <2>1. effects' \subseteq Tasks
    BY <1>7, HandledAssumption DEF HandlerReturns, HandlerRaises, Typed
  <2> QED BY <1>6, <1>7, <2>1 DEF HandlerReturns, HandlerRaises
<1>8. ASSUME NEW w \in Workers, Report(w)
      PROVE  Typed'
  <2>1. row' \in [Tasks -> Row]
    BY <1>8, HeldIsClaim, LeaseUpdateType DEF Report
  <2> QED BY <1>8, <2>1 DEF Report, Typed
<1>9. ASSUME NEW w \in Workers, Renew(w)
      PROVE  Typed'
  <2>1. BeatSeconds \in 0..Silent /\ Silent \in 0..Silent /\ beat[w] # Silent
    BY <1>9, LeaseAssumption DEF Silent, Late, Renew
  <2>2. row' \in [Tasks -> Row]
    BY <1>9, <2>1, HeldIsClaim, LeaseUpdateType DEF Renew, Phase
  <2> QED BY <1>9, <2>1, <2>2 DEF Renew, Typed
<1>10. ASSUME NEW w \in Workers,
              ReportUnanswered(w) \/ RenewUnanswered(w) \/ Crash(w)
       PROVE  Typed'
  <2>1. inFlight' \subseteq Statement
    BY <1>10, LeaveOnTheWireType DEF ReportUnanswered, RenewUnanswered, Crash
  <2>2. Silent \in 0..Silent
    BY LeaseAssumption DEF Silent
  <2> QED BY <1>10, <2>1, <2>2
          DEF ReportUnanswered, RenewUnanswered, Crash, Typed
<1>11. ASSUME NEW s \in inFlight, Deliver(s)
       PROVE  Typed'
  <2>1. s.claim \in Claim /\ s.claim.task \in Tasks
        /\ s.op \in {"renew", "act", "succeed", "fail"}
    BY DEF Typed, Statement, Claim
  <2>2. row' \in [Tasks -> Row]
    BY <1>11, <2>1, LeaseUpdateType DEF Deliver, Typed
  <2> QED BY <1>11, <2>1, <2>2 DEF Deliver, Typed
<1>12. CASE Tick
  <2>1. ASSUME NEW t \in Tasks
        PROVE  [row[t] EXCEPT !.available = Sooner(@), !.lease = Sooner(@)] \in Row
    BY SoonerType DEF Typed, Row
  <2>2. ASSUME NEW w \in Workers
        PROVE  beat'[w] \in 0..Silent
    <3>1. beat[w] \in 0..Silent
      BY DEF Typed
    <3>2. beat'[w] = IF beat[w] = 0 THEN Late
                     ELSE IF beat[w] <= BeatSeconds THEN beat[w] - 1 ELSE beat[w]
      BY <1>12 DEF Tick
    <3> QED BY <3>1, <3>2, LeaseAssumption DEF Silent, Late
  <2> QED BY <1>12, <2>1, <2>2 DEF Tick, Typed
<1> QED BY <1>1, <1>2, <1>3, <1>4, <1>5, <1>7, <1>8, <1>9, <1>10, <1>11, <1>12
        DEF Next, WorkerStep

-----------------------------------------------------------------------------
(* The conjuncts of the inductive invariant *)

LEMMA EffectsGrow ==
  ASSUME Next
  PROVE  effects \subseteq effects'
<1>1. ASSUME NEW s \in inFlight, Deliver(s)
      PROVE  effects \subseteq effects'
  BY <1>1 DEF Deliver
<1>2. ASSUME NEW w \in Workers, WorkerStep(w)
      PROVE  effects \subseteq effects'
  BY <1>2 DEF WorkerStep, RecoverExhaustedLeases, ClaimTask, ClaimUnanswered,
              PollMisses, HandlerReturns, HandlerRaises, Report,
              ReportUnanswered, Renew, RenewUnanswered, Crash, Restart
<1> QED BY <1>1, <1>2 DEF Next, Enqueue, Tick

\* The rows keep their lease columns, their budget and their effect.
LEMMA RowInvariantsStep ==
  ASSUME IInv, Next
  PROVE  LeaseState' /\ AttemptBudget' /\ SuccessHasEffect'
<1>1. ASSUME NEW t \in Tasks
      PROVE  /\ row'[t].lease_token <= minted'[t]
             /\ row'[t].status = "running" <=> row'[t].lease_token # NoToken
             /\ LeaseColumns(row'[t])
             /\ row'[t].status = "absent" => row'[t].attempts = 0
             /\ row'[t].attempts <= row'[t].max_attempts
             /\ row'[t].status = "pending" =>
                  row'[t].attempts < row'[t].max_attempts
             /\ row'[t].status = "failed" =>
                  row'[t].attempts = row'[t].max_attempts
             /\ row'[t].status = "succeeded" => t \in effects'
  <2>1. RowStep(t) /\ effects \subseteq effects'
    BY EveryRowStep, EffectsGrow
  <2>2. row[t] \in Row /\ minted[t] \in Nat
    BY DEF IInv, Typed
  <2>3. CASE RowKept(t)
    BY <2>1, <2>2, <2>3 DEF RowKept, LeaseColumns, IInv, LeaseState, AttemptBudget, SuccessHasEffect
  <2>4. CASE RowReserved(t)
    BY <2>2, <2>4 DEF RowReserved, LeaseColumns, Row, NoToken
  <2>5. CASE RowAccepted(t)
    BY <2>2, <2>5 DEF RowAccepted, LeaseColumns, NoToken
  <2>6. CASE RowReleased(t)
    BY <2>1, <2>2, <2>6 DEF RowReleased, LeaseColumns, Row, NoToken, IInv, AttemptBudget
  <2> QED BY <2>1, <2>3, <2>4, <2>5, <2>6 DEF RowStep
<1>2. LeaseState'
  BY <1>1 DEF LeaseState
<1>3. AttemptBudget'
  BY <1>1 DEF AttemptBudget
<1>4. SuccessHasEffect'
  BY <1>1 DEF SuccessHasEffect
<1> QED BY <1>2, <1>3, <1>4

\* A claim stays sound whatever happens to its row: a reservation by another
\* worker draws a larger token, a release leaves none.
LEMMA ClaimsStaySound ==
  ASSUME IInv, Next, NEW c \in Claim, ClaimSound(c)
  PROVE  ClaimSound(c)'
<1> DEFINE t == c.task
<1>1. t \in Tasks /\ c.lease_token \in Nat
  BY DEF Claim
<1>2. RowStep(t)
  BY <1>1, EveryRowStep
<1>3. row[t] \in Row /\ minted[t] \in Nat
  BY <1>1 DEF IInv, Typed
<1> SUFFICES /\ c.lease_token <= minted'[t]
             /\ 0 < row'[t].attempts
             /\ c.lease_token = row'[t].lease_token =>
                  /\ c.attempts = row'[t].attempts
                  /\ c.max_attempts = row'[t].max_attempts
                  /\ c.locked_by = row'[t].locked_by
  BY DEF ClaimSound
<1>4. CASE RowKept(t)
  BY <1>4 DEF RowKept, ClaimSound
<1>5. CASE RowReserved(t)
  BY <1>1, <1>3, <1>5 DEF RowReserved, ClaimSound, Row
<1>6. CASE RowAccepted(t)
  BY <1>1, <1>3, <1>6 DEF RowAccepted, ClaimSound, IInv, LeaseState, Row
<1>7. CASE RowReleased(t)
  BY <1>1, <1>3, <1>7 DEF RowReleased, ClaimSound, NoToken
<1> QED BY <1>2, <1>4, <1>5, <1>6, <1>7 DEF RowStep

\* What the workers hold and what is on the wire after a step that claims
\* nothing.
LEMMA NoNewClaim ==
  ASSUME IInv, Next, \A w \in Workers, t \in Tasks : ~ClaimTask(w, t)
  PROVE  /\ LiveClaims' \subseteq LiveClaims
         /\ \A w \in Workers : held'[w] \in {held[w], NoClaim}
         /\ Phase'
         /\ ReportsHaveEffect'
<1> DEFINE Goal == /\ LiveClaims' \subseteq LiveClaims
                   /\ \A w \in Workers : held'[w] \in {held[w], NoClaim}
                   /\ Phase'
                   /\ ReportsHaveEffect'
<1>1. effects \subseteq effects'
  BY EffectsGrow
<1>2. ASSUME UNCHANGED <<pc, held, inFlight, beat>>
      PROVE  Goal
  BY <1>1, <1>2 DEF LiveClaims, Phase, ReportsHaveEffect, IInv
<1>3. ASSUME NEW w \in Workers, pc[w] \notin {"handle", "succeed", "fail"},
             NEW p \in {"idle", "claim"}, pc' = [pc EXCEPT ![w] = p],
             UNCHANGED <<held, inFlight, beat>>
      PROVE  Goal
  BY <1>1, <1>3 DEF LiveClaims, Phase, ReportsHaveEffect, IInv, Typed
<1>4. ASSUME NEW w \in Workers, HandlerReturns(w) \/ HandlerRaises(w)
      PROVE  Goal
  <2>1. PICK report \in {"succeed", "fail"} :
          /\ LeaveHandler(w, report)
          /\ report = "succeed" => held[w].task \in effects'
    BY <1>4 DEF HandlerReturns, HandlerRaises
  <2>2. /\ \A s \in inFlight' : s.claim \in LiveClaims
        /\ \A s \in inFlight' : s.op = "succeed" => s.claim.task \in effects
    BY <2>1, LeaveOnTheWireType DEF LeaveHandler, IInv
  <2>3. /\ pc[w] = "handle" /\ pc' = [pc EXCEPT ![w] = report]
        /\ beat' = [beat EXCEPT ![w] = Silent] /\ held' = held
    BY <2>1 DEF LeaveHandler
  <2>4. LiveClaims' \subseteq LiveClaims
    BY <2>2, <2>3 DEF LiveClaims
  <2>5. Phase'
    BY <2>1, <2>3 DEF Phase, IInv, Typed
  <2>6. ReportsHaveEffect'
    BY <1>1, <2>1, <2>2, <2>3 DEF ReportsHaveEffect, IInv, Typed
  <2> QED BY <2>3, <2>4, <2>5, <2>6
<1>5. ASSUME NEW w \in Workers, Report(w) \/ ReportUnanswered(w) \/ Crash(w)
      PROVE  Goal
  <2>1. PICK p \in {"idle", "down"} : pc' = [pc EXCEPT ![w] = p]
    BY <1>5 DEF Report, ReportUnanswered, Crash
  <2>2. /\ \A s \in inFlight' : s.claim \in LiveClaims
        /\ \A s \in inFlight' : s.op = "succeed" => s.claim.task \in effects
    <3>1. CASE Report(w)
      BY <3>1 DEF Report, LiveClaims, IInv, ReportsHaveEffect
    <3>2. CASE ReportUnanswered(w) \/ Crash(w)
      BY <3>2, LeaveOnTheWireType DEF ReportUnanswered, Crash, IInv
    <3> QED BY <1>5, <3>1, <3>2
  <2>3. /\ held' = [held EXCEPT ![w] = NoClaim]
        /\ \/ beat' = [beat EXCEPT ![w] = Silent]
           \/ beat' = beat /\ pc[w] # "handle"
    BY <1>5 DEF Report, ReportUnanswered, Crash
  <2>4. \A v \in Workers : held'[v] \in {held[v], NoClaim}
    BY <2>3 DEF IInv, Typed
  <2>5. LiveClaims' \subseteq LiveClaims
    BY <2>2, <2>4 DEF LiveClaims
  <2>6. Phase'
    BY <2>1, <2>3 DEF Phase, IInv, Typed
  <2>7. ReportsHaveEffect'
    BY <1>1, <2>1, <2>2, <2>3 DEF ReportsHaveEffect, IInv, Typed
  <2> QED BY <2>4, <2>5, <2>6, <2>7
<1>6. ASSUME NEW w \in Workers, Renew(w) \/ RenewUnanswered(w)
      PROVE  Goal
  <2>1. /\ \A s \in inFlight' : s.claim \in LiveClaims
        /\ \A s \in inFlight' : s.op = "succeed" => s.claim.task \in effects
    <3>1. CASE Renew(w)
      BY <3>1 DEF Renew, LiveClaims, IInv, ReportsHaveEffect
    <3>2. CASE RenewUnanswered(w)
      BY <3>2, LeaveOnTheWireType DEF RenewUnanswered, IInv
    <3> QED BY <1>6, <3>1, <3>2
  <2>2. /\ held' = held /\ pc' = pc
        /\ beat[w] # Silent
        /\ \A v \in Workers : beat'[v] # Silent => beat[v] # Silent
    BY <1>6, LeaseAssumption DEF Renew, RenewUnanswered, Silent, Late, IInv, Typed
  <2> QED BY <1>1, <2>1, <2>2 DEF LiveClaims, Phase, ReportsHaveEffect, IInv
<1>7. ASSUME NEW s \in inFlight, Deliver(s)
      PROVE  Goal
  BY <1>1, <1>7 DEF Deliver, LiveClaims, Phase, ReportsHaveEffect, IInv
<1>8. CASE Tick
  <2>1. UNCHANGED <<pc, held, inFlight>>
    BY <1>8 DEF Tick
  <2>2. ASSUME NEW w \in Workers, beat[w] = Silent
        PROVE  beat'[w] = Silent
    <3>1. beat'[w] = IF beat[w] = 0 THEN Late
                     ELSE IF beat[w] <= BeatSeconds THEN beat[w] - 1 ELSE beat[w]
      BY <1>8 DEF Tick
    <3> QED BY <2>2, <3>1, LeaseAssumption DEF Silent
  <2> QED BY <1>1, <2>1, <2>2 DEF LiveClaims, Phase, ReportsHaveEffect, IInv
<1>9. ASSUME NEW w \in Workers,
             \/ RecoverExhaustedLeases(w) \/ PollMisses(w) \/ Restart(w)
             \/ \E t \in Tasks : ClaimUnanswered(w, t)
      PROVE  Goal
  BY <1>3, <1>9 DEF RecoverExhaustedLeases, PollMisses, Restart, ClaimUnanswered
<1>10. ASSUME NEW t \in Tasks, NEW m \in AttemptLimits, NEW d \in EnqueueDelays,
              Enqueue(t, m, d)
       PROVE  Goal
  BY <1>2, <1>10 DEF Enqueue
<1> QED BY <1>4, <1>5, <1>6, <1>7, <1>8, <1>9, <1>10 DEF Next, WorkerStep

\* A claim draws a token larger than every token of the task before it.
LEMMA NewClaim ==
  ASSUME IInv, Next, NEW w \in Workers, NEW t \in Tasks, ClaimTask(w, t)
  PROVE  /\ \A c \in LiveClaims' : ClaimSound(c)'
         /\ \A u, v \in Workers : held'[u] # NoClaim /\ held'[u] = held'[v] => u = v
         /\ Phase'
         /\ ReportsHaveEffect'
<1>1. PICK new \in Claim :
        new = [task |-> t, locked_by |-> w, lease_token |-> minted[t] + 1,
               attempts |-> row[t].attempts + 1,
               max_attempts |-> row[t].max_attempts]
  <2>1. row[t] \in Row /\ minted[t] \in Nat
    BY DEF IInv, Typed
  <2>2. /\ minted[t] + 1 \in Nat /\ row[t].attempts + 1 \in Nat
        /\ row[t].max_attempts \in Nat
    BY <2>1 DEF Row
  <2>3. [task |-> t, locked_by |-> w, lease_token |-> minted[t] + 1,
         attempts |-> row[t].attempts + 1,
         max_attempts |-> row[t].max_attempts] \in Claim
    BY <2>2 DEF Claim
  <2> QED BY <2>3
<1>2. row[t] \in Row /\ minted[t] \in Nat
  BY DEF IInv, Typed
<1>3. /\ pc[w] = "claim"
      /\ pc' = [pc EXCEPT ![w] = "handle"]
      /\ held' = [held EXCEPT ![w] = new]
      /\ beat'[w] # Silent => t \in HandledTasks
      /\ \A v \in Workers \ {w} : beat'[v] = beat[v]
      /\ UNCHANGED <<effects, inFlight>>
  BY <1>1 DEF ClaimTask, IInv, Typed
<1>4. held'[w] = new /\ \A v \in Workers \ {w} : held'[v] = held[v]
  BY <1>3 DEF IInv, Typed
<1>5. LiveClaims' \subseteq LiveClaims \cup {new}
  BY <1>3, <1>4 DEF LiveClaims
<1>6. ClaimSound(new)'
  <2>1. /\ minted'[t] = minted[t] + 1
        /\ row'[t] = Reserved(row[t], w, minted[t] + 1)
    BY DEF ClaimTask, Reserve, IInv, Typed
  <2>2. /\ row'[t].attempts = row[t].attempts + 1
        /\ row'[t].max_attempts = row[t].max_attempts
        /\ row'[t].locked_by = w
        /\ row'[t].lease_token = minted[t] + 1
    BY <1>2, <2>1 DEF Reserved, Row
  <2>3. /\ new.task = t /\ new.lease_token = minted[t] + 1 /\ new.locked_by = w
        /\ new.attempts = row[t].attempts + 1
        /\ new.max_attempts = row[t].max_attempts
    BY <1>1
  <2>4. minted[t] \in Nat /\ row[t].attempts \in Nat
    BY <1>2 DEF Row
  <2> QED BY <2>1, <2>2, <2>3, <2>4 DEF ClaimSound
<1>7. ASSUME NEW c \in LiveClaims
      PROVE  ClaimSound(c)' /\ c # new
  <2>1. ClaimSound(c) /\ c \in Claim
    BY LiveClaimsType DEF IInv
  <2>2. c # new
    BY <1>1, <1>2, <2>1 DEF ClaimSound
  <2> QED BY <2>1, <2>2, ClaimsStaySound
<1>8. \A v \in Workers \ {w} : held[v] # new
  <2> SUFFICES ASSUME NEW v \in Workers, held[v] = new
               PROVE  held[v] \in LiveClaims
    BY <1>7
  <2> QED BY NotAClaim DEF LiveClaims
<1>9. Phase'
  <2>1. new # NoClaim /\ new.task = t
    BY <1>1, NotAClaim
  <2> QED BY <1>3, <1>4, <2>1 DEF Phase, IInv, Typed
<1>10. ReportsHaveEffect'
  BY <1>3, <1>4 DEF ReportsHaveEffect, IInv, Typed
<1>11. \A c \in LiveClaims' : ClaimSound(c)'
  BY <1>5, <1>6, <1>7
<1>12. \A u, v \in Workers : held'[u] # NoClaim /\ held'[u] = held'[v] => u = v
  BY <1>4, <1>8 DEF IInv
<1> QED BY <1>9, <1>10, <1>11, <1>12

LEMMA InvInit == Init => IInv
<1> SUFFICES ASSUME Init PROVE IInv
  OBVIOUS
<1>1. Typed
  <2>1. AbsentRow \in Row
    BY DEF AbsentRow, Row, NoToken
  <2>2. Silent \in 0..Silent
    BY LeaseAssumption DEF Silent
  <2> QED BY <2>1, <2>2 DEF Init, Typed
<1>2. LeaseState /\ AttemptBudget /\ SuccessHasEffect
  BY DEF Init, AbsentRow, LeaseState, LeaseColumns, AttemptBudget, SuccessHasEffect, NoToken
<1>3. Phase /\ ReportsHaveEffect
  BY DEF Init, Phase, ReportsHaveEffect
<1>4. LiveClaims = {}
  BY DEF Init, LiveClaims
<1> QED BY <1>1, <1>2, <1>3, <1>4 DEF Init, IInv

LEMMA InvStep == IInv /\ [Next]_vars => IInv'
<1> SUFFICES ASSUME IInv, [Next]_vars PROVE IInv'
  OBVIOUS
<1>1. CASE UNCHANGED vars
  BY <1>1 DEF vars, IInv, Typed, LeaseState, Phase, AttemptBudget,
              SuccessHasEffect, ReportsHaveEffect, LiveClaims, ClaimSound
<1>2. ASSUME Next
      PROVE  Typed' /\ LeaseState' /\ AttemptBudget' /\ SuccessHasEffect'
  BY <1>2, TypeStep, RowInvariantsStep
<1>3. ASSUME NEW w \in Workers, NEW t \in Tasks, ClaimTask(w, t), Next
      PROVE  IInv'
  BY <1>2, <1>3, NewClaim DEF IInv
<1>4. CASE Next /\ \A w \in Workers, t \in Tasks : ~ClaimTask(w, t)
  <2>1. /\ LiveClaims' \subseteq LiveClaims
        /\ \A w \in Workers : held'[w] \in {held[w], NoClaim}
        /\ Phase'
        /\ ReportsHaveEffect'
    BY <1>4, NoNewClaim
  <2>2. \A c \in LiveClaims' : ClaimSound(c)'
    BY <1>4, <2>1, LiveClaimsType, ClaimsStaySound DEF IInv
  <2>3. \A w, v \in Workers : held'[w] # NoClaim /\ held'[w] = held'[v] => w = v
    BY <2>1 DEF IInv
  <2> QED BY <1>2, <1>4, <2>1, <2>2, <2>3 DEF IInv
<1> QED BY <1>1, <1>3, <1>4

LEMMA Invariance == Spec => []IInv
BY InvInit, InvStep, PTL DEF Spec

-----------------------------------------------------------------------------
(* Leases *)

\* A success or a failure that is still on the wire was given up by the worker
\* that sent it: nobody runs a handler on its reservation.
ReportsAreLetGo ==
  \A s \in inFlight, w \in Workers :
    s.op \in {"succeed", "fail"} => held[w] # s.claim

\* A punctual heartbeat renews before its lease runs out.
LeaseCoversBeat ==
  \A w \in Workers :
    beat[w] \in 0..BeatSeconds =>
      OwnsLease(held[w]) /\ beat[w] < row[held[w].task].lease

LeaseInv == ReportsAreLetGo /\ LeaseCoversBeat

\* The current reservation of a task is one claim.
LEMMA OneCurrentClaim ==
  ASSUME IInv, NEW c \in LiveClaims, NEW d \in LiveClaims, c.task = d.task,
         c.lease_token = row[c.task].lease_token, d.lease_token = row[c.task].lease_token
  PROVE  c = d
<1>1. c \in Claim /\ d \in Claim
  BY LiveClaimsType DEF IInv
<1>2. /\ c.attempts = d.attempts /\ c.max_attempts = d.max_attempts
      /\ c.locked_by = d.locked_by
  BY DEF IInv, ClaimSound
<1> QED
  BY <1>1, <1>2 DEF Claim

\* What is new on the wire and reports was sent by a worker that lets go.
LEMMA NewReport ==
  ASSUME IInv, Next, NEW s \in inFlight', s \notin inFlight, s.op \in {"succeed", "fail"}
  PROVE  \E w \in Workers :
           /\ s.claim = held[w] /\ held[w] \in Claim
           /\ held' = [held EXCEPT ![w] = NoClaim]
<1>1. ASSUME NEW w \in Workers, ReportUnanswered(w) \/ Crash(w)
      PROVE  /\ s.claim = held[w] /\ held[w] \in Claim
             /\ held' = [held EXCEPT ![w] = NoClaim]
  <2>1. s \in OnTheWire(w) /\ held' = [held EXCEPT ![w] = NoClaim]
    BY <1>1 DEF ReportUnanswered, Crash, LeaveOnTheWire
  <2>2. s.claim = held[w] /\ pc[w] \in {"handle", "succeed", "fail"}
    BY <2>1, OnTheWireType DEF IInv
  <2> QED
    BY <2>1, <2>2, HeldIsClaim DEF IInv
<1>2. ASSUME NEW w \in Workers, WorkerStep(w), ~ReportUnanswered(w), ~Crash(w)
      PROVE  FALSE
  <2>1. inFlight' = inFlight \/ \E S \in SUBSET {x \in OnTheWire(w) : x.op = "renew"} :
                                  LeaveOnTheWire(S)
    BY <1>2 DEF WorkerStep, RecoverExhaustedLeases, ClaimTask, ClaimUnanswered, PollMisses,
                HandlerReturns, HandlerRaises, LeaveHandler, Report, Renew, RenewUnanswered,
                Restart
  <2> QED
    BY <2>1 DEF LeaveOnTheWire
<1>3. ASSUME NEW x \in inFlight, Deliver(x)
      PROVE  FALSE
  BY <1>3 DEF Deliver
<1> QED
  BY <1>1, <1>2, <1>3 DEF Next, Enqueue, Tick

\* A worker that claims gets a reservation that no statement carries.
LEMMA ClaimIsFresh ==
  ASSUME IInv, NEW w \in Workers, NEW t \in Tasks, ClaimTask(w, t)
  PROVE  /\ \A c \in LiveClaims : c # held'[w]
         /\ \A v \in Workers \ {w} : held'[v] = held[v]
         /\ inFlight' = inFlight
<1>1. minted[t] \in Nat /\ held \in [Workers -> Claim \cup {NoClaim}]
  BY DEF IInv, Typed
<1>2. held'[w] = [task |-> t, locked_by |-> w, lease_token |-> minted[t] + 1,
                  attempts |-> row[t].attempts + 1, max_attempts |-> row[t].max_attempts]
  BY <1>1 DEF ClaimTask
<1>3. held'[w].task = t /\ held'[w].lease_token = minted[t] + 1
  BY <1>2
<1>4. ASSUME NEW c \in LiveClaims, c = held'[w]
      PROVE  FALSE
  <2>1. c.lease_token <= minted[c.task]
    BY DEF IInv, ClaimSound
  <2> QED
    BY <1>1, <1>3, <1>4, <2>1
<1> QED
  BY <1>1, <1>4 DEF ClaimTask

LEMMA LetGoStep ==
  ASSUME IInv, ReportsAreLetGo, Next
  PROVE  ReportsAreLetGo'
<1> SUFFICES ASSUME NEW s \in inFlight', NEW v \in Workers, s.op \in {"succeed", "fail"}
             PROVE  held'[v] # s.claim
  BY DEF ReportsAreLetGo
<1>1. CASE s \notin inFlight
  <2>1. PICK w \in Workers : /\ s.claim = held[w] /\ held[w] \in Claim
                             /\ held' = [held EXCEPT ![w] = NoClaim]
    BY <1>1, NewReport
  <2> QED
    BY <2>1, NotAClaim DEF IInv, Typed
<1>2. CASE s \in inFlight
  <2>1. s.claim \in LiveClaims /\ s.claim \in Claim /\ held[v] # s.claim
    BY <1>2, LiveClaimsType DEF LiveClaims, ReportsAreLetGo, IInv
  <2>2. ASSUME NEW w \in Workers, NEW t \in Tasks, ClaimTask(w, t)
        PROVE  held'[v] # s.claim
    BY <2>1, <2>2, ClaimIsFresh
  <2>3. CASE \A w \in Workers, t \in Tasks : ~ClaimTask(w, t)
    BY <2>1, <2>3, NoNewClaim, NotAClaim
  <2> QED
    BY <2>2, <2>3
<1> QED
  BY <1>1, <1>2

\* An UPDATE under the lease, as the row of a task sees it.
LEMMA LeaseUpdateRow ==
  ASSUME Typed, NEW c \in Claim, NEW op \in {"renew", "succeed", "fail"},
         ExecuteLeaseUpdate(c, op), NEW t \in Tasks
  PROVE  \/ row'[t] = row[t]
         \/ /\ c.task = t /\ OwnsLease(c)
            /\ op = "renew" => row'[t] = [row[t] EXCEPT !.lease = LeaseSeconds]
<1>1. c.task \in Tasks
  BY DEF Claim
<1>2. CASE ~OwnsLease(c) \/ c.task # t
  BY <1>1, <1>2 DEF ExecuteLeaseUpdate, Typed
<1>3. CASE OwnsLease(c) /\ c.task = t
  BY <1>1, <1>3 DEF ExecuteLeaseUpdate, Typed, Settled
<1> QED
  BY <1>2, <1>3

\* A running row is settled by the reservation that owns it, and only when no
\* handler runs on that reservation.
Concluded(t) ==
  \E c \in LiveClaims :
    /\ c.task = t /\ OwnsLease(c)
    /\ \A w \in Workers : pc[w] = "handle" => held[w] # c

LEMMA LeaseWays ==
  ASSUME IInv, LeaseInv, Next, NEW t \in Tasks
  PROVE  \/ row'[t] = row[t]
         \/ row[t].status = "absent"
         \/ Exhausted(t) /\ row'[t].status = "failed"
         \/ Claimable(t) /\ row'[t].status = "running"
         \/ row'[t] = [row[t] EXCEPT !.lease = LeaseSeconds]
         \/ Tick
         \/ Concluded(t)
<1> USE DEF IInv
<1> DEFINE Goal == \/ row'[t] = row[t]
                   \/ row[t].status = "absent"
                   \/ Exhausted(t) /\ row'[t].status = "failed"
                   \/ Claimable(t) /\ row'[t].status = "running"
                   \/ row'[t] = [row[t] EXCEPT !.lease = LeaseSeconds]
                   \/ Tick
                   \/ Concluded(t)
<1>1. row[t] \in Row
  BY DEF Typed
<1>2. ASSUME NEW u \in Tasks, NEW m \in AttemptLimits, NEW d \in EnqueueDelays, Enqueue(u, m, d)
      PROVE  Goal
  BY <1>2 DEF Enqueue, Typed
<1>3. ASSUME NEW w \in Workers, RecoverExhaustedLeases(w)
      PROVE  Goal
  BY <1>1, <1>3 DEF RecoverExhaustedLeases, Released, Row
<1>4. ASSUME NEW w \in Workers, NEW u \in Tasks, Reserve(w, u)
      PROVE  Goal
  <2>1. CASE u = t
    BY <1>1, <1>4, <2>1 DEF Reserve, Reserved, Typed, Row
  <2>2. CASE u # t
    BY <1>4, <2>2 DEF Reserve, Typed
  <2> QED
    BY <2>1, <2>2
<1>5. ASSUME NEW w \in Workers, Report(w)
      PROVE  Goal
  <2>1. /\ pc[w] \in {"succeed", "fail"} /\ ExecuteLeaseUpdate(held[w], pc[w])
        /\ held[w] \in Claim /\ held[w] \in LiveClaims
    BY <1>5, HeldIsClaim DEF Report
  <2>2. \A v \in Workers : pc[v] = "handle" => held[v] # held[w]
    BY <2>1, NotAClaim
  <2>3. row'[t] = row[t] \/ (held[w].task = t /\ OwnsLease(held[w]))
    BY <2>1, LeaseUpdateRow
  <2> QED
    BY <2>1, <2>2, <2>3 DEF Concluded
<1>6. ASSUME NEW w \in Workers, Renew(w)
      PROVE  Goal
  <2>1. beat[w] # Silent /\ ExecuteLeaseUpdate(held[w], "renew")
    BY <1>6, LeaseAssumption DEF Renew, Silent, Late
  <2>2. held[w] \in Claim
    BY <2>1, HeldIsClaim DEF Phase
  <2> QED
    BY <2>1, <2>2, LeaseUpdateRow
<1>7. ASSUME NEW s \in inFlight, Deliver(s)
      PROVE  Goal
  <2>1. /\ s.claim \in LiveClaims /\ s.claim \in Claim
        /\ s.op \in {"renew", "act", "succeed", "fail"}
    BY DEF LiveClaims, Typed, Statement
  <2>2. CASE s.op = "act"
    BY <1>7, <2>2 DEF Deliver
  <2>3. CASE s.op = "renew"
    <3>1. ExecuteLeaseUpdate(s.claim, "renew")
      BY <1>7, <2>3 DEF Deliver
    <3> QED
      BY <2>1, <3>1, LeaseUpdateRow
  <2>4. CASE s.op \in {"succeed", "fail"}
    <3>1. ExecuteLeaseUpdate(s.claim, s.op)
      BY <1>7, <2>4 DEF Deliver
    <3>2. row'[t] = row[t] \/ (s.claim.task = t /\ OwnsLease(s.claim))
      BY <2>1, <2>4, <3>1, LeaseUpdateRow
    <3>3. \A v \in Workers : pc[v] = "handle" => held[v] # s.claim
      BY <2>4 DEF LeaseInv, ReportsAreLetGo
    <3> QED
      BY <2>1, <3>2, <3>3 DEF Concluded
  <2> QED
    BY <2>1, <2>2, <2>3, <2>4
<1>8. ASSUME NEW w \in Workers, WorkerStep(w)
      PROVE  Goal
  BY <1>3, <1>4, <1>5, <1>6, <1>8
     DEF WorkerStep, ClaimTask, ClaimUnanswered, PollMisses, HandlerReturns, HandlerRaises,
         LeaveHandler, ReportUnanswered, RenewUnanswered, Crash, Restart
<1> QED
  BY <1>2, <1>7, <1>8 DEF Next

\* A worker that goes on beating holds what it held, and beats on time only
\* after a claim, a renewal or a wait.
LEMMA BeatWays ==
  ASSUME IInv, Next, NEW w \in Workers, beat'[w] \in 0..BeatSeconds
  PROVE  \/ \E t \in Tasks : ClaimTask(w, t)
         \/ Renew(w)
         \/ /\ beat[w] \in 0..BeatSeconds /\ held'[w] = held[w]
            /\ Tick => beat'[w] < beat[w]
            /\ ~Tick => beat'[w] = beat[w]
<1>1. beat[w] \in 0..Silent /\ beat \in [Workers -> 0..Silent]
  BY DEF IInv, Typed
<1>2. CASE Tick
  <2>1. beat'[w] = (IF beat[w] = 0 THEN Late
                    ELSE IF beat[w] <= BeatSeconds THEN beat[w] - 1 ELSE beat[w])
    BY <1>2 DEF Tick
  <2>2. held'[w] = held[w]
    BY <1>2 DEF Tick
  <2> QED
    BY <1>1, <1>2, <2>1, <2>2, LeaseAssumption DEF Late, Silent
<1>3. CASE ~Tick
  <2>1. ASSUME NEW v \in Workers, WorkerStep(v), \A t \in Tasks : ~ClaimTask(w, t), ~Renew(w)
        PROVE  beat'[w] = beat[w]
    <3>1. Silent \notin 0..BeatSeconds
      BY LeaseAssumption DEF Silent
    <3>2. \/ beat' = beat \/ beat' = [beat EXCEPT ![v] = Silent]
          \/ v # w /\ \E n : beat' = [beat EXCEPT ![v] = n]
      BY <2>1 DEF WorkerStep, RecoverExhaustedLeases, ClaimTask, ClaimUnanswered, PollMisses,
                  HandlerReturns, HandlerRaises, LeaveHandler, Report, ReportUnanswered, Renew,
                  RenewUnanswered, Crash, Restart
    <3> QED
      BY <1>1, <3>1, <3>2
  <2>2. ASSUME NEW s \in inFlight, Deliver(s)
        PROVE  beat'[w] = beat[w]
    BY <2>2 DEF Deliver
  <2>3. ASSUME \A t \in Tasks : ~ClaimTask(w, t), ~Renew(w)
        PROVE  beat'[w] = beat[w]
    BY <1>3, <2>1, <2>2, <2>3 DEF Next, Enqueue
  <2>4. ASSUME \A t \in Tasks : ~ClaimTask(w, t), beat'[w] = beat[w]
        PROVE  held'[w] = held[w]
    <3>1. beat[w] # Silent
      BY <2>4, LeaseAssumption DEF Silent
    <3>2. held[w] \in Claim /\ pc[w] = "handle"
      BY <3>1, HeldIsClaim DEF IInv, Phase
    <3>3. ASSUME NEW v \in Workers, NEW t \in Tasks, ClaimTask(v, t)
          PROVE  held'[w] = held[w]
      BY <2>4, <3>3, ClaimIsFresh
    <3>4. CASE \A v \in Workers, t \in Tasks : ~ClaimTask(v, t)
      <4>1. held'[w] \in {held[w], NoClaim} /\ Phase'
        BY <3>4, NoNewClaim
      <4>2. beat'[w] # Silent
        BY <2>4, <3>1
      <4> QED
        BY <4>1, <4>2 DEF Phase
    <3> QED
      BY <3>3, <3>4
  <2> QED
    BY <1>3, <2>3, <2>4
<1> QED
  BY <1>2, <1>3

LEMMA LeaseCoversBeatStep ==
  ASSUME IInv, LeaseInv, Next
  PROVE  LeaseCoversBeat'
<1> USE DEF IInv
<1> SUFFICES ASSUME NEW w \in Workers, beat'[w] \in 0..BeatSeconds
             PROVE  OwnsLease(held[w])' /\ beat'[w] < row'[held'[w].task].lease
  BY DEF LeaseCoversBeat
<1>1. ASSUME NEW t \in Tasks, ClaimTask(w, t)
      PROVE  OwnsLease(held[w])' /\ beat'[w] < row'[held'[w].task].lease
  <2>1. /\ row[t] \in Row
        /\ held'[w] = [task |-> t, locked_by |-> w, lease_token |-> minted[t] + 1,
                       attempts |-> row[t].attempts + 1, max_attempts |-> row[t].max_attempts]
        /\ row'[t] = Reserved(row[t], w, minted[t] + 1)
    BY <1>1 DEF ClaimTask, Reserve, Typed
  <2>2. /\ held'[w].task = t /\ held'[w].locked_by = w /\ held'[w].lease_token = minted[t] + 1
        /\ row'[t].status = "running" /\ row'[t].locked_by = w
        /\ row'[t].lease_token = minted[t] + 1 /\ row'[t].lease = LeaseSeconds
    BY <2>1 DEF Reserved, Row
  <2> QED
    BY <2>2, LeaseAssumption DEF OwnsLease
<1>2. CASE Renew(w)
  <2>1. beat[w] # Silent
    BY <1>2, LeaseAssumption DEF Renew, Silent, Late
  <2>2. held[w] \in Claim
    BY <2>1, HeldIsClaim DEF Phase
  <2>3. OwnsLease(held[w]) /\ held' = held
    BY <1>2, LeaseAssumption DEF Renew, Silent, Typed
  <2> DEFINE t == held[w].task
  <2>4. row[t] \in Row /\ t \in Tasks
    BY <2>2 DEF Typed, Claim
  <2>5. row'[t] = [row[t] EXCEPT !.lease = LeaseSeconds]
    BY <1>2, <2>3, <2>4 DEF Renew, ExecuteLeaseUpdate, Settled, Typed
  <2>6. /\ row'[t].status = row[t].status /\ row'[t].locked_by = row[t].locked_by
        /\ row'[t].lease_token = row[t].lease_token /\ row'[t].lease = LeaseSeconds
    BY <2>4, <2>5 DEF Row
  <2> QED
    BY <2>3, <2>6, LeaseAssumption DEF OwnsLease
<1>3. CASE /\ beat[w] \in 0..BeatSeconds /\ held'[w] = held[w]
           /\ Tick => beat'[w] < beat[w]
           /\ ~Tick => beat'[w] = beat[w]
  <2> DEFINE c == held[w]
             t == c.task
  <2>1. beat[w] # Silent /\ beat[w] \in Nat /\ beat'[w] \in Nat
    BY <1>3, LeaseAssumption DEF Silent
  <2>2. pc[w] = "handle" /\ c \in Claim /\ c \in LiveClaims
    BY <2>1, HeldIsClaim DEF Phase
  <2>3. row[t] \in Row /\ t \in Tasks /\ row[t].lease \in Nat
    BY <2>2 DEF Typed, Claim, Row
  <2>4. OwnsLease(c) /\ beat[w] < row[t].lease
    BY <1>3 DEF LeaseInv, LeaseCoversBeat
  <2>5. ~Concluded(t)
    <3> SUFFICES ASSUME NEW d \in LiveClaims, d.task = t, OwnsLease(d),
                        \A v \in Workers : pc[v] = "handle" => held[v] # d
                 PROVE  FALSE
      BY DEF Concluded
    <3> QED
      BY <2>2, <2>4, OneCurrentClaim DEF OwnsLease
  <2>6. row[t].status = "running" /\ ~Exhausted(t) /\ ~Claimable(t)
    BY <2>4 DEF OwnsLease, Exhausted, Claimable
  <2>7. \/ row'[t] = row[t]
        \/ row'[t] = [row[t] EXCEPT !.lease = LeaseSeconds]
        \/ Tick
    BY <2>3, <2>5, <2>6, LeaseWays
  <2>8. /\ row'[t].status = row[t].status /\ row'[t].locked_by = row[t].locked_by
        /\ row'[t].lease_token = row[t].lease_token /\ beat'[w] < row'[t].lease
    <3>1. CASE ~Tick /\ row'[t] = row[t]
      BY <1>3, <2>4, <3>1
    <3>2. CASE ~Tick /\ row'[t] = [row[t] EXCEPT !.lease = LeaseSeconds]
      BY <1>3, <2>3, <3>2, LeaseAssumption DEF Row
    <3>3. CASE Tick
      <4>1. row'[t] = [row[t] EXCEPT !.available = Sooner(row[t].available),
                                     !.lease = Sooner(row[t].lease)]
        BY <2>3, <3>3 DEF Tick
      <4>2. row'[t].lease = row[t].lease - 1
        BY <2>1, <2>3, <2>4, <4>1 DEF Row, Sooner
      <4>3. beat'[w] < row'[t].lease
        BY <1>3, <2>1, <2>3, <2>4, <3>3, <4>2
      <4> QED
        BY <2>3, <4>1, <4>3 DEF Row
    <3> QED
      BY <2>7, <3>1, <3>2, <3>3
  <2>9. 0 < row'[t].lease
    <3>1. row'[t] \in Row
      BY <2>3, TypeStep DEF Typed
    <3> QED
      BY <2>1, <2>8, <3>1 DEF Row
  <2> QED
    BY <1>3, <2>4, <2>8, <2>9 DEF OwnsLease
<1> QED
  BY <1>1, <1>2, <1>3, BeatWays

LEMMA LeaseInvariance == Spec => [](IInv /\ LeaseInv)
<1>1. Init => LeaseInv
  <2>1. Silent \notin 0..BeatSeconds
    BY LeaseAssumption DEF Silent
  <2> QED
    BY <2>1 DEF Init, LeaseInv, ReportsAreLetGo, LeaseCoversBeat
<1>2. IInv /\ LeaseInv /\ [Next]_vars => LeaseInv'
  <2>1. CASE UNCHANGED vars
    BY <2>1 DEF vars, LeaseInv, ReportsAreLetGo, LeaseCoversBeat, OwnsLease
  <2> QED
    BY <2>1, LetGoStep, LeaseCoversBeatStep DEF LeaseInv
<1> QED
  BY <1>1, <1>2, Invariance, PTL DEF Spec

-----------------------------------------------------------------------------
(* The theorems *)

\* Every state of the queue and its workers is well typed: a worker never carries
\* a record that claim did not return, and no statement of queue.py leaves a row
\* that ck_task_queue_lease_state refuses.
THEOREM TypeCorrect == Spec => []TypeOK
<1>1. IInv => TypeOK
  BY DEF IInv, LeaseState, TypeOK
<1> QED BY <1>1, Invariance, PTL

\* queue.py: attempts stay within max_attempts, a task waiting for a retry has
\* one left, and only an exhausted task is failed.
THEOREM AttemptBudgetHolds == Spec => []AttemptBudget
<1>1. IInv => AttemptBudget
  BY DEF IInv
<1> QED BY <1>1, Invariance, PTL

\* A task is only marked succeeded once its effect is committed.
THEOREM SuccessHasEffectHolds == Spec => []SuccessHasEffect
<1>1. IInv => SuccessHasEffect
  BY DEF IInv
<1> QED BY <1>1, Invariance, PTL

\* Two workers never hold the same reservation, and the holder of the current
\* one knows the attempt it stands for.
THEOREM OneHolderHolds == Spec => []OneHolder
<1>1. IInv => OneHolder
  BY DEF IInv, OneHolder, ClaimSound
<1> QED BY <1>1, Invariance, PTL

\* A settled task is never touched again.
THEOREM SettledIsFinalHolds == Spec => SettledIsFinal
<1>1. IInv /\ [Next]_vars =>
        [ \A t \in Tasks : row[t].status \in Final =>
            /\ row'[t].status = row[t].status
            /\ row'[t].attempts = row[t].attempts
            /\ row'[t].lease_token = NoToken ]_vars
  <2> SUFFICES ASSUME IInv, Next, NEW t \in Tasks, row[t].status \in Final
               PROVE  /\ row'[t].status = row[t].status
                      /\ row'[t].attempts = row[t].attempts
                      /\ row'[t].lease_token = NoToken
    OBVIOUS
  <2>1. RowStep(t)
    BY EveryRowStep
  <2> QED BY <2>1 DEF RowStep, RowKept, RowReserved, RowAccepted, RowReleased,
                      Final, IInv, LeaseState
<1> QED BY <1>1, Invariance, PTL DEF Spec, SettledIsFinal

\* main.py: a handler whose heartbeat is punctual owns its lease, so no other
\* worker runs the task, whatever late statements arrive.
THEOREM PunctualOwnsLeaseHolds == Spec => []PunctualOwnsLease
<1>1. LeaseInv => PunctualOwnsLease
  BY DEF LeaseInv, LeaseCoversBeat, PunctualOwnsLease
<1> QED BY <1>1, LeaseInvariance, PTL

\* ADR-0006: a worker with an old lease never concludes the task, and nobody
\* concludes it under a handler that still runs on the current reservation.
THEOREM NoStaleSettlementHolds == Spec => NoStaleSettlement
<1>1. IInv /\ LeaseInv /\ [Next]_vars =>
        [ \A t \in Tasks :
            row[t].status = "running" /\ row'[t].status # "running" =>
              \/ row'[t].status = "failed" /\ row[t].lease = 0
              \/ /\ row[t].lease > 0
                 /\ \E c \in LiveClaims : c.task = t /\ c.lease_token = row[t].lease_token
                 /\ \A w \in Workers :
                      pc[w] = "handle" /\ held[w].task = t =>
                        held[w].lease_token # row[t].lease_token ]_vars
  <2> SUFFICES ASSUME IInv, LeaseInv, Next, NEW t \in Tasks,
                      row[t].status = "running", row'[t].status # "running"
               PROVE  \/ row'[t].status = "failed" /\ row[t].lease = 0
                      \/ /\ row[t].lease > 0
                         /\ \E c \in LiveClaims :
                              c.task = t /\ c.lease_token = row[t].lease_token
                         /\ \A w \in Workers :
                              pc[w] = "handle" /\ held[w].task = t =>
                                held[w].lease_token # row[t].lease_token
    OBVIOUS
  <2>1. row[t] \in Row
    BY DEF IInv, Typed
  <2>2. CASE Exhausted(t) /\ row'[t].status = "failed"
    BY <2>2 DEF Exhausted
  <2>3. CASE Concluded(t)
    <3>1. PICK c \in LiveClaims :
            /\ c.task = t /\ OwnsLease(c)
            /\ \A w \in Workers : pc[w] = "handle" => held[w] # c
      BY <2>3 DEF Concluded
    <3>2. ASSUME NEW w \in Workers, pc[w] = "handle", held[w].task = t,
                 held[w].lease_token = row[t].lease_token
          PROVE  FALSE
      <4>1. held[w] \in LiveClaims
        BY <3>2, HeldIsClaim DEF IInv
      <4> QED
        BY <3>1, <3>2, <4>1, OneCurrentClaim DEF OwnsLease
    <3> QED
      BY <3>1, <3>2 DEF OwnsLease
  <2>4. CASE row'[t] = [row[t] EXCEPT !.lease = LeaseSeconds]
    BY <2>1, <2>4 DEF Row
  <2>5. CASE Tick
    BY <2>1, <2>5 DEF Tick, Row
  <2> QED
    BY <2>2, <2>3, <2>4, <2>5, LeaseWays
<1> QED BY <1>1, LeaseInvariance, PTL DEF Spec, NoStaleSettlement

-----------------------------------------------------------------------------
(* The refinement: each step of the queue and its workers is a step of     *)
(* TaskContract or changes nothing that the contract speaks of.            *)


Tries == [t \in Tasks |-> row[t].attempts]
Budget == [t \in Tasks |-> row[t].max_attempts]

\* Nothing the contract speaks of changes.
Stutters == UNCHANGED <<Outcome, Tries, Budget, effects>>

ContractStep == Contract!Next \/ Stutters

-----------------------------------------------------------------------------
\* A step that leaves status and attempts of every row as they were stutters.
LEMMA SameRowsStutter ==
  ASSUME \A t \in Tasks : /\ row'[t].status = row[t].status
                          /\ row'[t].attempts = row[t].attempts
                          /\ row'[t].max_attempts = row[t].max_attempts,
         UNCHANGED effects
  PROVE  Stutters
BY DEF Stutters, Outcome, Tries, Budget

LEMMA EnqueueRefines ==
  ASSUME IInv, NEW t \in Tasks, NEW m \in AttemptLimits, NEW d \in EnqueueDelays,
         Enqueue(t, m, d)
  PROVE  ContractStep
<1>1. CASE row[t].status = "absent"
  <2>1. row' = [row EXCEPT ![t] = NewRow(m, d)]
    BY <1>1 DEF Enqueue, IInv, Typed
  <2>2. row[t].attempts = 0 /\ row \in [Tasks -> Row]
    BY <1>1 DEF IInv, LeaseState, Typed
  <2>3. /\ row'[t].status = "pending" /\ row'[t].attempts = 0
        /\ row'[t].max_attempts = m
        /\ \A u \in Tasks : u # t => row'[u] = row[u]
    BY <2>1, <2>2 DEF NewRow, AbsentRow
  <2>4. Outcome[t] = "absent" /\ effects' = effects
    BY <1>1 DEF Outcome, Enqueue
  <2>5. Outcome' = [Outcome EXCEPT ![t] = "accepted"]
    BY <2>3 DEF Outcome
  <2>6. Tries' = Tries
    BY <2>2, <2>3 DEF Tries
  <2>7. Budget' = [Budget EXCEPT ![t] = m]
    BY <2>3 DEF Budget
  <2>8. Contract!Accept(t, m)
    BY <2>4, <2>5, <2>6, <2>7 DEF Contract!Accept, Tries, Budget
  <2> QED BY <2>8 DEF ContractStep, Contract!Next
<1>2. CASE row[t].status # "absent"
  <2>1. row' = row /\ effects' = effects
    BY <1>2 DEF Enqueue, IInv, Typed
  <2> QED BY <2>1, SameRowsStutter DEF ContractStep
<1> QED BY <1>1, <1>2

LEMMA RecoverRefines ==
  ASSUME IInv, NEW w \in Workers, RecoverExhaustedLeases(w)
  PROVE  ContractStep
<1> DEFINE S == { t \in Tasks : Exhausted(t) }
<1>1. \A t \in Tasks : row[t] \in Row
  BY DEF IInv, Typed
<1>2. ASSUME NEW t \in S
      PROVE  Outcome[t] = "accepted" /\ Tries[t] = Budget[t]
  BY <1>1 DEF Exhausted, IInv, AttemptBudget, Row, Outcome, Tries, Budget
<1>3. ASSUME NEW t \in Tasks
      PROVE  /\ row'[t].attempts = row[t].attempts
             /\ row'[t].max_attempts = row[t].max_attempts
             /\ row'[t].status = IF t \in S THEN "failed" ELSE row[t].status
  BY <1>1 DEF RecoverExhaustedLeases, Released, Row
<1>4. /\ Outcome' = [t \in Tasks |-> IF t \in S THEN "failed" ELSE Outcome[t]]
      /\ Tries' = Tries
      /\ Budget' = Budget
      /\ effects' = effects
  BY <1>3 DEF Outcome, Tries, Budget, RecoverExhaustedLeases
<1>5. Contract!GiveUp(S)
  BY <1>2, <1>4 DEF Contract!GiveUp, Tries, Budget
<1> QED BY <1>5 DEF ContractStep, Contract!Next

LEMMA ReserveRefines ==
  ASSUME IInv, NEW w \in Workers, NEW t \in Tasks, Reserve(w, t), UNCHANGED effects
  PROVE  ContractStep
<1>1. row \in [Tasks -> Row] /\ Claimable(t)
  BY DEF Reserve, IInv, Typed
<1>2. /\ Outcome[t] = "accepted" /\ Tries[t] < Budget[t]
      /\ Outcome' = Outcome
      /\ Tries' = [Tries EXCEPT ![t] = @ + 1]
      /\ Budget' = Budget
  BY <1>1 DEF Reserve, Reserved, Claimable, Outcome, Tries, Budget, Row
<1>3. Contract!Try(t)
  BY <1>2 DEF Contract!Try, Tries, Budget
<1> QED BY <1>3 DEF ContractStep, Contract!Next

\* An effect is committed by a worker, or late from the wire, only for a task
\* that was tried.
LEMMA ActRefines ==
  ASSUME IInv, NEW c \in LiveClaims, UNCHANGED row, effects' = effects \cup {c.task}
  PROVE  ContractStep
<1>1. c.task \in Tasks /\ 0 < row[c.task].attempts
  BY LiveClaimsType DEF IInv, ClaimSound, Claim
<1>2. Contract!Act(c.task)
  BY <1>1 DEF Contract!Act, Outcome
<1> QED BY <1>1, <1>2 DEF ContractStep, Contract!Next

\* One UPDATE under the lease renews, retries, fails or completes the task.
LEMMA LeaseUpdateRefines ==
  ASSUME IInv, NEW c \in LiveClaims, NEW op \in {"renew", "succeed", "fail"},
         op = "succeed" => c.task \in effects,
         ExecuteLeaseUpdate(c, op), UNCHANGED effects
  PROVE  ContractStep
<1> DEFINE t == c.task
<1>1. /\ t \in Tasks /\ c.attempts \in Nat /\ c.max_attempts \in Nat
      /\ row \in [Tasks -> Row] /\ row[t] \in Row
      /\ row[t].attempts <= row[t].max_attempts
  BY LiveClaimsType DEF IInv, Claim, Typed, AttemptBudget
<1>2. CASE ~OwnsLease(c)
  BY <1>2, SameRowsStutter DEF ExecuteLeaseUpdate, ContractStep
<1>3. CASE OwnsLease(c)
  <2>1. /\ row[t].status = "running"
        /\ c.attempts = row[t].attempts /\ c.max_attempts = row[t].max_attempts
    BY <1>1, <1>3 DEF OwnsLease, IInv, ClaimSound
  <2>2. row' = [row EXCEPT ![t] = Settled(c, op)]
    BY <1>3 DEF ExecuteLeaseUpdate
  <2>3. Outcome[t] = "accepted"
    BY <1>1, <2>1 DEF Outcome
  <2>4. CASE op = "renew" \/ (op = "fail" /\ c.attempts < c.max_attempts)
    <3>1. /\ Settled(c, op).status \in {"pending", "running"}
          /\ Settled(c, op).attempts = row[t].attempts
          /\ Settled(c, op).max_attempts = row[t].max_attempts
      BY <1>1, <2>1, <2>4 DEF Settled, Released, Row
    <3>2. Stutters
      BY <1>1, <2>1, <2>2, <3>1 DEF Stutters, Outcome, Tries, Budget
    <3> QED BY <3>2 DEF ContractStep
  <2>5. CASE op = "succeed"
    <3>1. Settled(c, op) = Released(row[t], "succeeded", row[t].available)
      BY <2>5 DEF Settled
    <3>2. /\ Outcome' = [Outcome EXCEPT ![t] = "succeeded"]
          /\ Tries' = Tries
          /\ Budget' = Budget
      BY <1>1, <2>2, <3>1 DEF Released, Row, Outcome, Tries, Budget
    <3>3. Contract!Succeed(t)
      BY <2>3, <2>5, <3>2 DEF Contract!Succeed, Tries, Budget
    <3> QED BY <1>1, <3>3 DEF ContractStep, Contract!Next
  <2>6. CASE op = "fail" /\ c.attempts >= c.max_attempts
    <3>1. Settled(c, op) = Released(row[t], "failed", row[t].available)
      BY <1>1, <2>6 DEF Settled
    <3>2. /\ Outcome' = [u \in Tasks |-> IF u \in {t} THEN "failed" ELSE Outcome[u]]
          /\ Tries' = Tries
          /\ Budget' = Budget
      BY <1>1, <2>2, <3>1 DEF Released, Row, Outcome, Tries, Budget
    <3>3. Tries[t] = Budget[t]
      BY <1>1, <2>1, <2>6 DEF Tries, Budget, Row
    <3>4. Contract!GiveUp({t})
      BY <2>3, <3>2, <3>3 DEF Contract!GiveUp, Tries, Budget
    <3> QED BY <1>1, <3>4 DEF ContractStep, Contract!Next
  <2>7. c.attempts < c.max_attempts \/ c.attempts >= c.max_attempts
    BY <1>1
  <2>8. op = "renew" \/ op = "succeed" \/ op = "fail"
    OBVIOUS
  <2> QED BY <2>4, <2>5, <2>6, <2>7, <2>8
<1> QED BY <1>2, <1>3

-----------------------------------------------------------------------------
LEMMA HandlerRefines ==
  ASSUME IInv, NEW w \in Workers, HandlerReturns(w) \/ HandlerRaises(w)
  PROVE  ContractStep
<1>1. pc[w] = "handle" /\ UNCHANGED row
  BY DEF HandlerReturns, HandlerRaises, LeaveHandler
<1>2. held[w] \in LiveClaims
  BY <1>1, HeldIsClaim DEF IInv
<1>3. effects' = effects \/ effects' = effects \cup {held[w].task}
  BY DEF HandlerReturns, HandlerRaises
<1>4. CASE effects' = effects
  BY <1>1, <1>4, SameRowsStutter DEF ContractStep
<1>5. CASE effects' = effects \cup {held[w].task}
  BY <1>1, <1>2, <1>5, ActRefines
<1> QED BY <1>3, <1>4, <1>5

LEMMA DeliverRefines ==
  ASSUME IInv, NEW s \in inFlight, Deliver(s)
  PROVE  ContractStep
<1>1. s.claim \in LiveClaims /\ s.op \in {"renew", "act", "succeed", "fail"}
  BY DEF LiveClaims, IInv, Typed, Statement
<1>2. CASE s.op = "act"
  BY <1>1, <1>2, ActRefines DEF Deliver
<1>3. CASE s.op # "act"
  <2>1. s.op = "succeed" => s.claim.task \in effects
    BY DEF IInv, ReportsHaveEffect
  <2> QED BY <1>1, <1>3, <2>1, LeaseUpdateRefines DEF Deliver
<1> QED BY <1>2, <1>3

LEMMA TickRefines ==
  ASSUME IInv, Tick
  PROVE  ContractStep
<1>1. \A t \in Tasks : row'[t] = [row[t] EXCEPT !.available = Sooner(@), !.lease = Sooner(@)]
  BY DEF Tick
<1>2. \A t \in Tasks : row[t] \in Row
  BY DEF IInv, Typed
<1> QED BY <1>1, <1>2, SameRowsStutter DEF Row, Tick, ContractStep

\* One step per action of a worker.
LEMMA WorkerRefines ==
  ASSUME IInv, NEW w \in Workers, WorkerStep(w)
  PROVE  ContractStep
<1>1. CASE RecoverExhaustedLeases(w)
  BY <1>1, RecoverRefines
<1>2. ASSUME NEW t \in Tasks, ClaimTask(w, t) \/ ClaimUnanswered(w, t)
      PROVE  ContractStep
  BY <1>2, ReserveRefines DEF ClaimTask, ClaimUnanswered
<1>3. CASE HandlerReturns(w) \/ HandlerRaises(w)
  BY <1>3, HandlerRefines
<1>4. CASE Report(w)
  <2>1. pc[w] \in {"succeed", "fail"} /\ (pc[w] = "succeed" => held[w].task \in effects)
    BY <1>4 DEF Report, IInv, ReportsHaveEffect
  <2>2. held[w] \in LiveClaims
    BY <2>1, HeldIsClaim DEF IInv
  <2> QED BY <1>4, <2>1, <2>2, LeaseUpdateRefines DEF Report
<1>5. CASE Renew(w)
  <2>1. beat[w] # Silent
    BY <1>5, LeaseAssumption DEF Renew, Silent, Late
  <2>2. held[w] \in LiveClaims
    BY <2>1, HeldIsClaim DEF IInv, Phase
  <2> QED BY <1>5, <2>2, LeaseUpdateRefines DEF Renew
<1>6. CASE PollMisses(w) \/ ReportUnanswered(w) \/ RenewUnanswered(w) \/ Crash(w) \/ Restart(w)
  <2>1. UNCHANGED <<row, effects>>
    BY <1>6 DEF PollMisses, ReportUnanswered, RenewUnanswered, Crash, Restart
  <2> QED BY <2>1, SameRowsStutter DEF ContractStep
<1> QED BY <1>1, <1>2, <1>3, <1>4, <1>5, <1>6 DEF WorkerStep

LEMMA NextRefines == IInv /\ [Next]_vars => [Contract!Next]_<<Outcome, Tries, Budget, effects>>
<1> SUFFICES ASSUME IInv, [Next]_vars PROVE ContractStep
  BY DEF ContractStep, Stutters
<1>1. CASE UNCHANGED vars
  BY <1>1 DEF vars, ContractStep, Stutters, Outcome, Tries, Budget
<1>2. CASE Next
  BY <1>2, EnqueueRefines, WorkerRefines, DeliverRefines, TickRefines DEF Next
<1> QED BY <1>1, <1>2

LEMMA InitRefines == Init => Contract!Init
BY DEF Init, AbsentRow, Contract!Init, Outcome

-----------------------------------------------------------------------------
\* The queue with its workers keeps the contract a caller relies on: a task is
\* tried at most max_attempts times, succeeds only with its effect committed,
\* fails only exhausted, and is then never touched again.
THEOREM KeepsContractHolds == Spec => KeepsContract
<1>1. IInv /\ [Next]_vars => [Contract!Next]_(Contract!vars)
  BY NextRefines DEF Contract!vars, Tries, Budget
<1> QED BY <1>1, InitRefines, Invariance, PTL DEF Spec, KeepsContract, Contract!Spec
=============================================================================
