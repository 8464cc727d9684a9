---------------------------- MODULE BankingSync -----------------------------
(***************************************************************************)
(* One bank connection and the calls that meet on it: manual runs          *)
(* (ManualBankingSyncService.run), disconnection                           *)
(* (BankingConnectionDisconnectionService.disconnect) and the registration *)
(* of a provider item (PluggyConnectionRegistrationService.register),      *)
(* which makes the connection in the first place.                          *)
(*                                                                         *)
(* Every store method is one PostgreSQL transaction, so it is one step;    *)
(* provider calls happen between them.  A session advisory lock is held by *)
(* a disconnection from its readiness check to its finalization, provider  *)
(* calls included; the writers take the same lock for their transaction    *)
(* only, so their step needs that no session holds it.  Any transaction    *)
(* may be undone, or commit while its answer is lost; any caller may die;  *)
(* the session that holds the lock may be cut while its caller lives on.   *)
(*                                                                         *)
(* What a page writes is the subject of module SyncCycle; here a page only *)
(* counts.                                                                 *)
(***************************************************************************)
EXTENDS Naturals, FiniteSets

CONSTANTS
  Callers,      \* requests being served, each by a thread of its own
  Keys,         \* idempotency keys; the run of a key is its sync_runs row
  Accounts,     \* external accounts that the provider may list
  PageLimit     \* max_pages_per_run

ASSUME PageLimitAssumption == PageLimit \in Nat \ {0}

Nobody == "nobody"
ASSUME CallersAssumption == Nobody \notin Callers

VARIABLES
  connection,   \* status of the connections row, see TypeOK
  item,         \* the provider's side of the connection
  run,          \* integrations.sync_runs
  stored,       \* pages of a run whose transaction committed
  accounts,     \* status of the external_accounts rows
  capabilities, \* whether connection_capabilities has rows
  session,      \* who holds the session advisory lock
  pc,           \* where each caller is
  call,         \* the locals of each caller
  orphaned      \* history: active runs whose executor was cut off

vars == <<connection, item, run, stored, accounts, capabilities, session, pc, call, orphaned>>

-----------------------------------------------------------------------------
(* Types *)

Active == {"requested", "running"}
Terminal == {"partial", "succeeded", "failed"}

Run ==
  [status : {"absent"} \cup Active \cup Terminal,
   attempts : Nat,             \* attempt_count
   seen : 0..PageLimit]        \* records_seen, counted in pages

NoRun == [status |-> "absent", attempts |-> 0, seen |-> 0]

\* "replace", "prepare" and "apply" are about to run a writer's transaction
\* inside the try of run; "close" is _finish_internal_error.
Executing == {"list", "replace", "prepare", "read", "apply", "finish", "close"}
Syncing == {"mark"} \cup Executing
Disconnecting == {"lock", "ready", "ask", "revoke", "finalize"}
Registering == {"register", "capabilities"}

Call ==
  [key : Keys,
   pages : 0..PageLimit,       \* pages_committed
   plan : Terminal]            \* the status finish_sync is called with

NoCall == [key |-> Nobody]
Observation == [saw : {"linked", "gone"}]

\* A connection that was never registered is "none"; one that is DISCONNECTED is
\* "finalized" when a disconnection closed it and "observed" when a registration
\* did; the row does not tell them apart.
TypeOK ==
  /\ connection \in {"none", "open", "finalized", "observed"}
  /\ item \in {"linked", "gone"}
  /\ run \in [Keys -> Run]
  /\ stored \in [Keys -> 0..PageLimit]
  /\ accounts \in [Accounts -> {"absent", "active", "disconnected"}]
  /\ capabilities \in {"none", "known"}
  /\ session \in Callers \cup {Nobody}
  /\ pc \in [Callers -> {"idle"} \cup Registering \cup Syncing \cup Disconnecting]
  /\ call \in [Callers -> Call \cup Observation \cup {NoCall}]
  /\ \A c \in Callers : pc[c] \in Syncing => call[c] \in Call
  /\ \A c \in Callers : pc[c] \in Registering => call[c] \in Observation
  /\ orphaned \subseteq Keys

-----------------------------------------------------------------------------
(* Helpers *)

\* Mutated: the gate does not exclude a session that holds the lock.
GateIgnored == TRUE

\* pg_advisory_xact_lock waits while a session holds the lock.
GateFree == session = Nobody

Disconnected == connection \in {"finalized", "observed"}

ActiveRuns == {k \in Keys : run[k].status \in Active}

Goto(c, place) == pc' = [pc EXCEPT ![c] = place]

\* Mutated: the guard leaves its session lock behind in the pool.
ReturnWithLock(c) ==
  /\ pc' = [pc EXCEPT ![c] = "idle"]
  /\ call' = [call EXCEPT ![c] = NoCall]
  /\ session' = session

\* The caller's request ends; a lock its session holds is released.
Return(c) ==
  /\ pc' = [pc EXCEPT ![c] = "idle"]
  /\ call' = [call EXCEPT ![c] = NoCall]
  /\ session' = IF session = c THEN Nobody ELSE session

\* Mutated: the count of committed pages is not looked at.
ErrorStatusBlind(pages) == "failed"

\* The status that an error gives the run.
ErrorStatus(pages) == IF pages > 0 THEN "partial" ELSE "failed"

Requested == [status |-> "requested", attempts |-> 0, seen |-> 0]

Running(k) ==
  [status |-> "running", attempts |-> run[k].attempts + 1, seen |-> run[k].seen]

\* finish_sync of an execution: it is called only after mark_sync_running, so
\* the source status that it can meet and accept is "running".
Settles(k, status, pages) ==
  /\ run[k].status = "running"
  /\ run' = [run EXCEPT ![k] =
               [status |-> status, attempts |-> run[k].attempts, seen |-> pages]]

-----------------------------------------------------------------------------
(* A manual run *)

\* Mutated: begin_manual_sync without the unique index of active runs.
BeginOverActive(c, k) ==
  /\ pc[c] = "idle"
  /\ GateFree
  /\ \/ run[k].status = "requested" /\ run' = run
     \/ /\ run[k].status = "absent"
        /\ connection = "open"
        /\ run' = [run EXCEPT ![k] = Requested]
  /\ Goto(c, "mark")
  /\ call' = [call EXCEPT ![c] = [key |-> k, pages |-> 0, plan |-> "failed"]]
  /\ UNCHANGED <<connection, item, stored, accounts, capabilities, session, orphaned>>

\* begin_manual_sync and the tests of run on the row it returns.  A key that
\* is terminal or running is answered from its row; a new key is refused when
\* the connection is DISCONNECTED or another run is active: nothing changes.
Begin(c, k) ==
  /\ pc[c] = "idle"
  /\ GateFree
  /\ \/ run[k].status = "requested" /\ run' = run
     \/ /\ run[k].status = "absent"
        /\ connection = "open"
        /\ ActiveRuns = {}
        /\ run' = [run EXCEPT ![k] = Requested]
  /\ Goto(c, "mark")
  /\ call' = [call EXCEPT ![c] = [key |-> k, pages |-> 0, plan |-> "failed"]]
  /\ UNCHANGED <<connection, item, stored, accounts, capabilities, session, orphaned>>

BeginUnanswered(c, k) ==
  /\ pc[c] = "idle"
  /\ GateFree
  /\ run[k].status = "absent"
  /\ connection = "open"
  /\ ActiveRuns = {}
  /\ run' = [run EXCEPT ![k] = Requested]
  /\ UNCHANGED <<connection, item, stored, accounts, capabilities, session, pc, call, orphaned>>

\* mark_sync_running takes no gate and does not look at the connection's status.
MarkRunning(c) ==
  /\ pc[c] = "mark"
  /\ run[call[c].key].status = "requested"
  /\ run' = [run EXCEPT ![call[c].key] = Running(call[c].key)]
  /\ Goto(c, "list")
  /\ UNCHANGED <<connection, item, stored, accounts, capabilities, session, call, orphaned>>

\* The update commits but run sees an error, which no handler catches.
MarkUnanswered(c) ==
  /\ pc[c] = "mark"
  /\ run[call[c].key].status = "requested"
  /\ run' = [run EXCEPT ![call[c].key] = Running(call[c].key)]
  /\ orphaned' = orphaned \cup {call[c].key}
  /\ Return(c)
  /\ UNCHANGED <<connection, item, stored, accounts, capabilities>>

\* Another caller marked the run first: SyncTransitionError leaves run.
MarkRefused(c) ==
  /\ pc[c] = "mark"
  /\ run[call[c].key].status # "requested"
  /\ Return(c)
  /\ UNCHANGED <<connection, item, run, stored, accounts, capabilities, orphaned>>

\* Mutated: the page limit is compared with > instead of >=.
ProviderAnswersOnceMore(c) ==
  /\ item = "linked"
  /\ \/ pc[c] = "list" /\ Goto(c, "replace")
     \/ pc[c] = "read" /\ call[c].pages <= PageLimit /\ Goto(c, "apply")
  /\ UNCHANGED <<connection, item, run, stored, accounts, capabilities, session, call, orphaned>>

\* list_accounts and list_transactions answer with data.
ProviderAnswers(c) ==
  /\ item = "linked"
  /\ \/ pc[c] = "list" /\ Goto(c, "replace")
     \/ pc[c] = "read" /\ call[c].pages < PageLimit /\ Goto(c, "apply")
  /\ UNCHANGED <<connection, item, run, stored, accounts, capabilities, session, call, orphaned>>

\* Mutated: a provider error leaves run without finish_sync.
ProviderErrorEscapes(c) ==
  /\ pc[c] \in {"list", "read"}
  /\ Return(c)
  /\ UNCHANGED <<connection, item, run, stored, accounts, capabilities, orphaned>>

\* A BankingProviderError, from the provider or from a timeout.
ProviderFails(c) ==
  /\ pc[c] \in {"list", "read"}
  /\ Goto(c, "finish")
  /\ call' = [call EXCEPT ![c] =
       [key |-> call[c].key, pages |-> call[c].pages,
        plan |-> ErrorStatus(call[c].pages)]]
  /\ UNCHANGED <<connection, item, run, stored, accounts, capabilities, session, orphaned>>

\* The page limit is reached, or the account limit, or the record limit before
\* or after a page was read; the page just read is dropped.
LimitReached(c) ==
  /\ pc[c] = "read"
  /\ Goto(c, "finish")
  /\ call' = [call EXCEPT ![c] =
       [key |-> call[c].key, pages |-> call[c].pages, plan |-> "partial"]]
  /\ UNCHANGED <<connection, item, run, stored, accounts, capabilities, session, orphaned>>

\* replace_external_accounts: upserts what was listed, touches nothing else.
ReplaceAccounts(c) ==
  /\ pc[c] = "replace"
  /\ GateFree
  /\ connection = "open"
  /\ \E listed \in SUBSET Accounts :
       accounts' = [a \in Accounts |->
                      IF a \in listed THEN "active" ELSE accounts[a]]
  /\ Goto(c, "prepare")
  /\ UNCHANGED <<connection, item, run, stored, capabilities, session, call, orphaned>>

\* prepare_sync_cycle: there are accounts to read, or none is pending.
PrepareCycle(c) ==
  /\ pc[c] = "prepare"
  /\ GateFree
  /\ connection = "open"
  /\ \/ Goto(c, "read") /\ UNCHANGED call
     \/ /\ Goto(c, "finish")
        /\ call' = [call EXCEPT ![c] =
             [key |-> call[c].key, pages |-> call[c].pages, plan |-> "succeeded"]]
  /\ UNCHANGED <<connection, item, run, stored, accounts, capabilities, session, orphaned>>

\* apply_transaction_page: more pages follow, or it was the last account's
\* last page.
ApplyPage(c) ==
  /\ pc[c] = "apply"
  /\ GateFree
  /\ connection = "open"
  /\ stored' = [stored EXCEPT ![call[c].key] = stored[call[c].key] + 1]
  /\ \E last \in BOOLEAN :
       /\ Goto(c, IF last THEN "finish" ELSE "read")
       /\ call' = [call EXCEPT ![c] =
            [key |-> call[c].key, pages |-> call[c].pages + 1,
             plan |-> IF last THEN "succeeded" ELSE call[c].plan]]
  /\ UNCHANGED <<connection, item, run, accounts, capabilities, session, orphaned>>

ApplyUnanswered(c) ==
  /\ pc[c] = "apply"
  /\ GateFree
  /\ connection = "open"
  /\ stored' = [stored EXCEPT ![call[c].key] = stored[call[c].key] + 1]
  /\ Goto(c, "close")
  /\ UNCHANGED <<connection, item, run, accounts, capabilities, session, call, orphaned>>

\* A writer is refused because the connection is DISCONNECTED: run goes to
\* _finish_internal_error.
WriterRefused(c) ==
  /\ pc[c] \in {"replace", "prepare", "apply"}
  /\ GateFree
  /\ connection # "open"
  /\ Goto(c, "close")
  /\ UNCHANGED <<connection, item, run, stored, accounts, capabilities, session, call, orphaned>>

\* finish_sync from the end of the loop, a limit or a provider error.
Finish(c) ==
  /\ pc[c] = "finish"
  /\ Settles(call[c].key, call[c].plan, call[c].pages)
  /\ Return(c)
  /\ UNCHANGED <<connection, item, stored, accounts, capabilities, orphaned>>

FinishUnanswered(c) ==
  /\ pc[c] = "finish"
  /\ Settles(call[c].key, call[c].plan, call[c].pages)
  /\ Goto(c, "close")
  /\ UNCHANGED <<connection, item, stored, accounts, capabilities, session, call, orphaned>>

\* _finish_internal_error; whether its answer is lost makes no difference.
Close(c) ==
  /\ pc[c] = "close"
  /\ Settles(call[c].key, ErrorStatus(call[c].pages), call[c].pages)
  /\ Return(c)
  /\ UNCHANGED <<connection, item, stored, accounts, capabilities, orphaned>>

\* The run is already settled by the call whose answer was lost: run raises.
CloseRefused(c) ==
  /\ pc[c] = "close"
  /\ run[call[c].key].status # "running"
  /\ Return(c)
  /\ UNCHANGED <<connection, item, run, stored, accounts, capabilities, orphaned>>

-----------------------------------------------------------------------------
(* A disconnection *)

\* _load_connection: a DISCONNECTED connection is answered at once.
AskDisconnect(c) ==
  /\ pc[c] = "idle"
  /\ connection = "open"
  /\ Goto(c, "lock")
  /\ UNCHANGED <<connection, item, run, stored, accounts, capabilities, session, call, orphaned>>

Lock(c) ==
  /\ pc[c] = "lock"
  /\ GateFree
  /\ session' = c
  /\ Goto(c, "ready")
  /\ UNCHANGED <<connection, item, run, stored, accounts, capabilities, call, orphaned>>

\* The readiness transaction.
Ready(c) ==
  /\ pc[c] = "ready"
  /\ session = c
  /\ connection = "open"
  /\ ActiveRuns = {}
  /\ Goto(c, "ask")
  /\ UNCHANGED <<connection, item, run, stored, accounts, capabilities, session, call, orphaned>>

\* provider.get_connection answers.
AskProvider(c) ==
  /\ pc[c] = "ask"
  /\ Goto(c, IF item = "gone" THEN "finalize" ELSE "revoke")
  /\ UNCHANGED <<connection, item, run, stored, accounts, capabilities, session, call, orphaned>>

\* provider.disconnect takes effect, with an answer or without one.
Revoke(c) ==
  /\ pc[c] = "revoke"
  /\ item' = "gone"
  /\ \/ Goto(c, "finalize") /\ UNCHANGED <<session, call>>
     \/ Return(c)
  /\ UNCHANGED <<connection, run, stored, accounts, capabilities, orphaned>>

\* _finalize_connection_disconnection; the caller's next step is the same
\* whether it learns of the commit or not.
Finalize(c) ==
  /\ pc[c] = "finalize"
  /\ session = c
  /\ connection = "open"
  /\ ActiveRuns = {}
  /\ connection' = "finalized"
  /\ accounts' = [a \in Accounts |->
       IF accounts[a] = "absent" THEN "absent" ELSE "disconnected"]
  /\ Return(c)
  /\ UNCHANGED <<item, run, stored, capabilities, orphaned>>

\* The provider refuses or times out, in either of the two calls.
ProviderRefuses(c) ==
  /\ pc[c] \in {"ask", "revoke"}
  /\ Return(c)
  /\ UNCHANGED <<connection, item, run, stored, accounts, capabilities, orphaned>>

\* The session is gone, the connection already DISCONNECTED or a run active.
DisconnectRefused(c) ==
  /\ pc[c] \in {"ready", "finalize"}
  /\ session # c \/ connection # "open" \/ ActiveRuns # {}
  /\ Return(c)
  /\ UNCHANGED <<connection, item, run, stored, accounts, capabilities, orphaned>>

\* The server drops the session: its advisory lock is released, and the caller
\* learns of it at its next transaction.
SessionCut(c) ==
  /\ session = c
  /\ session' = Nobody
  /\ UNCHANGED <<connection, item, run, stored, accounts, capabilities, pc, call, orphaned>>

-----------------------------------------------------------------------------
(* A registration of the item, and the rest of the world *)

\* transport.get_item, before any lock; an item of somebody else is refused.
Inspect(c) ==
  /\ pc[c] = "idle"
  /\ Goto(c, "register")
  /\ call' = [call EXCEPT ![c] = [saw |-> item]]
  /\ UNCHANGED <<connection, item, run, stored, accounts, capabilities, session, orphaned>>

\* Mutated: the upsert also overwrites a DISCONNECTED row.
ObservedAlways(c) == IF call[c].saw = "gone" THEN "observed" ELSE "open"

\* The status that was observed is inserted or replaces the stored one, unless
\* that is DISCONNECTED.
Observed(c) ==
  IF Disconnected THEN connection
  ELSE IF call[c].saw = "gone" THEN "observed" ELSE "open"

\* register_connection: only a row that exists has a gate to wait at.
RegisterRow(c) ==
  /\ pc[c] = "register"
  /\ connection = "none" \/ GateFree
  /\ connection' = Observed(c)
  /\ UNCHANGED <<item, run, stored, accounts, capabilities, orphaned>>

\* A DISCONNECTED connection is answered as one that is assigned already.
Register(c) ==
  /\ RegisterRow(c)
  /\ IF Disconnected THEN Return(c)
     ELSE Goto(c, "capabilities") /\ UNCHANGED <<call, session>>

RegisterUnanswered(c) == RegisterRow(c) /\ Return(c)

\* replace_capabilities, in a transaction of its own: refused if the connection
\* was closed meanwhile, by this very registration for instance.
ReplaceCapabilities(c) ==
  /\ pc[c] = "capabilities"
  /\ GateFree
  /\ capabilities' = IF Disconnected THEN capabilities ELSE "known"
  /\ Return(c)
  /\ UNCHANGED <<connection, item, run, stored, accounts, orphaned>>

\* The item is removed at the provider without us.
ProviderDrops ==
  /\ item = "linked"
  /\ item' = "gone"
  /\ UNCHANGED <<connection, run, stored, accounts, capabilities, session, pc, call, orphaned>>

\* A transaction is undone, a page conflicts with what is stored, or the
\* service itself raises.
Undone(c) ==
  /\ \/ /\ pc[c] \in {"mark", "lock", "ready", "finalize"} \cup Registering
        /\ Return(c)
        /\ UNCHANGED orphaned
     \/ /\ pc[c] \in Executing \ {"close"}
        /\ Goto(c, "close")
        /\ UNCHANGED <<session, call, orphaned>>
     \/ /\ pc[c] = "close"
        /\ Return(c)
        /\ orphaned' = orphaned \cup ({call[c].key} \cap ActiveRuns)
  /\ UNCHANGED <<connection, item, run, stored, accounts, capabilities>>

\* The process of a caller dies; its sessions end with it.
Crash(c) ==
  /\ pc[c] # "idle"
  /\ orphaned' = orphaned \cup
       (IF pc[c] \in Executing THEN {call[c].key} \cap ActiveRuns ELSE {})
  /\ Return(c)
  /\ UNCHANGED <<connection, item, run, stored, accounts, capabilities>>

-----------------------------------------------------------------------------
(* Specification *)

Init ==
  /\ connection = "none"
  /\ item = "linked"
  /\ run = [k \in Keys |-> NoRun]
  /\ stored = [k \in Keys |-> 0]
  /\ accounts = [a \in Accounts |-> "absent"]
  /\ capabilities = "none"
  /\ session = Nobody
  /\ pc = [c \in Callers |-> "idle"]
  /\ call = [c \in Callers |-> NoCall]
  /\ orphaned = {}

\* The steps of a call that meets no fault.
Progress(c) ==
  \/ MarkRunning(c) \/ MarkRefused(c)
  \/ ProviderAnswers(c) \/ ProviderFails(c) \/ LimitReached(c)
  \/ ReplaceAccounts(c) \/ PrepareCycle(c) \/ ApplyPage(c) \/ WriterRefused(c)
  \/ Finish(c) \/ Close(c) \/ CloseRefused(c)
  \/ Lock(c) \/ Ready(c) \/ AskProvider(c) \/ Revoke(c) \/ ProviderRefuses(c)
  \/ Finalize(c) \/ DisconnectRefused(c)
  \/ Register(c) \/ ReplaceCapabilities(c)

Fault(c) ==
  \/ MarkUnanswered(c) \/ ApplyUnanswered(c) \/ FinishUnanswered(c)
  \/ RegisterUnanswered(c) \/ Undone(c) \/ SessionCut(c) \/ Crash(c)

Arrive(c) ==
  \/ \E k \in Keys : Begin(c, k) \/ BeginUnanswered(c, k)
  \/ AskDisconnect(c)
  \/ Inspect(c)

Next ==
  \/ \E c \in Callers : Arrive(c) \/ Progress(c) \/ Fault(c)
  \/ ProviderDrops

Spec == Init /\ [][Next]_vars

\* PostgreSQL serves the waiters of an advisory lock in the order they came, so
\* a waiter that is passed over for ever is excluded: hence the strong fairness.
\* Provider calls end by an answer or a timeout.  New calls, faults and the
\* provider's own changes are owed nothing.
FairSpec == Spec /\ \A c \in Callers : SF_vars(Progress(c))

-----------------------------------------------------------------------------
(* Properties *)

\* At most one run of the connection is active, a run is marked once however
\* often its key is replayed, at most one caller executes, and until it comes
\* to its finish the run it executes is the running one.
SingleFlight ==
  /\ Cardinality(ActiveRuns) <= 1
  /\ \A k \in Keys :
       run[k].attempts = IF run[k].status \in {"absent", "requested"} THEN 0 ELSE 1
  /\ \A c \in Callers :
       pc[c] \in Executing \ {"close"} => run[call[c].key].status = "running"
  /\ \A c, d \in Callers :
       pc[c] \in Executing /\ pc[d] \in Executing /\ call[c].key = call[d].key
         => c = d

\* While a disconnection that still owns the lock talks to the provider no run
\* is active, though begin_manual_sync may be called at any time; once it was
\* finalized it left nothing behind: the provider let the item go, no run is
\* active, no account is still marked active.
DisconnectionIsClean ==
  /\ \A c \in Callers :
       session = c /\ pc[c] \in {"ask", "revoke", "finalize"} => ActiveRuns = {}
  /\ connection = "finalized" =>
       /\ item = "gone"
       /\ ActiveRuns = {}
       /\ \A a \in Accounts : accounts[a] # "active"

\* A settled run reports the pages that it stored.  Only the page whose answer
\* was lost may be missing, and a run that succeeded misses none.
ReportsWhatItStored ==
  \A k \in Keys :
    /\ run[k].status \in Terminal =>
         run[k].seen <= stored[k] /\ stored[k] <= run[k].seen + 1
    /\ run[k].status = "succeeded" => run[k].seen = stored[k]
    /\ run[k].status = "failed" => run[k].seen = 0

\* Every path through run ends in finish_sync: a run stays running without an
\* executor only if that was cut off between two of its transactions.
EveryPathCloses ==
  \A k \in Keys :
    run[k].status = "running" /\ k \notin orphaned =>
      \E c \in Callers : pc[c] \in Executing /\ call[c].key = k

\* Once the connection is DISCONNECTED it stays so, no account, capability or
\* page is written any more and no run is begun, whatever was already under way.
ClosedTakesNoWrite ==
  [][Disconnected =>
       /\ connection' = connection
       /\ stored' = stored
       /\ accounts' = accounts
       /\ capabilities' = capabilities
       /\ \A k \in Keys : run[k].status = "absent" => run'[k].status = "absent"]_vars

\* Every call comes to an end, those that wait for the advisory lock included.
EveryCallReturns == \A c \in Callers : pc[c] # "idle" ~> pc[c] = "idle"

\* "active banking synchronization prevents disconnection": no run is active
\* on a connection that is DISCONNECTED.
DisconnectedHasNoRun == Disconnected => ActiveRuns = {}
=============================================================================
