------------------------------- MODULE Ledger -------------------------------
(***************************************************************************)
(* The append-only ledger of one residence: accounts, movements, transfers *)
(* between two accounts, reversals of both, opening balances and the audit *)
(* trail written with them (financial_account_store.py,                    *)
(* financial_movement_store.py, financial_transfer_store.py,               *)
(* financial_opening_balance_store.py and migrations 0011 to 0019).        *)
(*                                                                         *)
(* Every call is one READ COMMITTED transaction: each statement sees what  *)
(* is committed when it runs and the rows its own transaction wrote, an    *)
(* insert waits for an open transaction that wrote the same unique value,  *)
(* and row locks are held to the end.  A step of a caller is one statement *)
(* that other transactions can disturb.  One operator owns every account,  *)
(* all of one currency and ACTIVE: the code has no operation that closes   *)
(* an account or a membership, and row level security is outside.          *)
(* A request digest is the request itself without its key.                 *)
(***************************************************************************)
EXTENDS Integers, FiniteSets, Sequences

CONSTANTS
  Callers,   \* connections that API requests run on
  Accounts,  \* bound: the ids that accounts draw
  Founded,   \* the accounts that were opened before
  Dates,     \* effective dates
  Requests,  \* the calls clients make, before their target is chosen
  MaxCalls   \* bound: calls made in a behaviour

Ops == {"create", "reverse", "transfer", "untransfer", "open", "account"}
Keyed == {"create", "income", "expense", "reverse", "transfer", "untransfer"}
NoKey == "no key"

\* What a client asks for, with what it is worth.
IsRequest(r, ops) ==
  /\ DOMAIN r = {"op", "key", "from", "to", "amount", "date", "target"}
  /\ r.op \in ops /\ r.amount \in Int /\ r.date \in Dates
  /\ r.op \in Keyed => r.key # NoKey

\* The drafts of the stores refuse a transfer within one account.
ASSUME RequestsAssumption ==
  \A r \in Requests : IsRequest(r, Ops) /\ (r.op = "transfer" => r.from # r.to)
ASSUME CallersAssumption == IsFiniteSet(Callers)
ASSUME DatesAssumption == Dates \subseteq Nat
ASSUME MaxCallsAssumption == MaxCalls \in Nat
ASSUME FoundedAssumption == Founded \subseteq Accounts

VARIABLES
  accounts,   \* finance.accounts, committed
  movements,  \* finance.movements, the committed rows
  transfers,  \* finance.transfers with its transfer_legs, committed
  openings,   \* finance.account_opening_balances, committed
  audit,      \* finance.audit_events, committed
  pc,         \* the statement each caller runs next
  req,        \* its request
  work,       \* the rows its open transaction inserted
  lock,       \* the movement rows it locked FOR UPDATE
  answer,     \* what its last call returned
  calls       \* calls made so far

tables == <<accounts, movements, transfers, openings, audit>>
vars == <<tables, pc, req, work, lock, answer, calls>>

None == 0   \* a null reference; ids are positive
NoWork == [accounts |-> {}, movements |-> {}, transfers |-> {}, openings |-> {},
           audit |-> {}]

-----------------------------------------------------------------------------
(* What a statement of c reads *)

\* Movements, transfers and openings in the snapshot of a statement of c.
SeenMovements(c) == movements \cup work[c].movements
SeenTransfers(c) == transfers \cup work[c].transfers

\* The committed row that holds the key of c's request, in the table of its
\* operation; legs of a transfer have fresh keys that no client knows.
RowsWithKey(c) ==
  {row \in IF req[c].op \in {"create", "reverse"} THEN movements ELSE transfers :
     row.key = req[c].key}

Digest(r) == [r EXCEPT !.key = NoKey]

Standard(rows) == {row \in rows : row.reverses = None}
Reversals(rows, id) == {row \in rows : row.reverses = id /\ id # None}
ById(rows, id) == CHOOSE row \in rows : row.id = id
HasStandard(rows, id) == \E row \in Standard(rows) : row.id = id

\* No movement takes effect before the opening balance of its account.
NotBeforeOpening(account, date) ==
  \A o \in openings : o.account = account => date >= o.date

-----------------------------------------------------------------------------
(* What a call writes *)

\* Mutated: a reversal repeats the amount.
CancellingSameSign(rows, id) ==
  LET original == ById(rows, id)
  IN [account |-> original.account, amount |-> original.amount, reverses |-> id]

\* A movement that cancels the movement with this id.
Cancelling(rows, id) ==
  LET original == ById(rows, id)
  IN [account |-> original.account, amount |-> -original.amount, reverses |-> id]

\* The movements of a call, in the order it inserts them.  The first leg of a
\* reversed transfer cancels the destination, the second the source.
Legs(c) ==
  LET r == req[c]
      original == ById(transfers, r.target)
  IN CASE r.op = "create" ->
            <<[account |-> r.from, amount |-> r.amount, reverses |-> None]>>
       [] r.op = "reverse" -> <<Cancelling(movements, r.target)>>
       [] r.op = "transfer" ->
            <<[account |-> r.from, amount |-> -r.amount, reverses |-> None],
              [account |-> r.to, amount |-> r.amount, reverses |-> None]>>
       [] r.op = "untransfer" ->
            <<Cancelling(movements, original.legs[2]),
              Cancelling(movements, original.legs[1])>>

Leg(c) == Legs(c)[Cardinality(work[c].movements) + 1]

Undoes(c) == req[c].op \in {"reverse", "untransfer"}
IsTransfer(c) == req[c].op \in {"transfer", "untransfer"}
LastLeg(c) == ~IsTransfer(c) \/ work[c].movements # {}

\* The movement that the next leg reverses, None when it reverses nothing.
LegTarget(c) ==
  LET t == ById(transfers, req[c].target)
  IN CASE req[c].op = "reverse" -> req[c].target
       [] req[c].op = "untransfer" ->
            t.legs[IF work[c].movements = {} THEN 2 ELSE 1]
       [] OTHER -> None

Ids(rows) == {row.id : row \in rows}
LegIds(rows) == UNION {{t.legs[1], t.legs[2]} : t \in rows}

AllMovements == movements \cup UNION {work[c].movements : c \in Callers}
AllTransfers == transfers \cup UNION {work[c].transfers : c \in Callers}
UsedMovementIds == Ids(AllMovements) \cup LegIds(AllTransfers)
UsedAccountIds ==
  accounts \cup {req[c].from : c \in {d \in Callers : pc[d] # "idle"}}
UsedTransferIds == Ids(AllTransfers)

\* A new uuid; a free number.
Fresh(used) == CHOOSE n \in 1..(Cardinality(used) + 1) : n \notin used

\* An open transaction inserts a row.
WithAccount(w, a) == [w EXCEPT !.accounts = w.accounts \cup {a}]
WithMovement(w, m) == [w EXCEPT !.movements = w.movements \cup {m}]
WithTransfer(w, t) == [w EXCEPT !.transfers = w.transfers \cup {t}]
WithOpening(w, o) == [w EXCEPT !.openings = w.openings \cup {o}]
WithAudit(w, events) == [w EXCEPT !.audit = w.audit \cup events]

-----------------------------------------------------------------------------
Init ==
  /\ accounts = Founded
  /\ movements = {} /\ transfers = {} /\ openings = {} /\ audit = {}
  /\ pc = [c \in Callers |-> "idle"]
  /\ req = [c \in Callers |-> [op |-> "none"]]
  /\ work = [c \in Callers |-> NoWork]
  /\ lock = [c \in Callers |-> {}]
  /\ answer = [c \in Callers |-> "none"]
  /\ calls = 0

\* Mutated: a row lock outlives its transaction.
ReturnWithLock(c, kind) ==
  /\ answer' = [answer EXCEPT ![c] = kind]
  /\ pc' = [pc EXCEPT ![c] = "idle"]
  /\ work' = [work EXCEPT ![c] = NoWork]
  /\ UNCHANGED <<req, lock, calls>>

\* The transaction of c is over; its locks go, and its rows unless committed.
Return(c, kind) ==
  /\ answer' = [answer EXCEPT ![c] = kind]
  /\ pc' = [pc EXCEPT ![c] = "idle"]
  /\ work' = [work EXCEPT ![c] = NoWork]
  /\ lock' = [lock EXCEPT ![c] = {}]
  /\ UNCHANGED <<req, calls>>

Refuse(c, kind) == Return(c, kind) /\ UNCHANGED tables

Goto(c, label) ==
  /\ pc' = [pc EXCEPT ![c] = label]
  /\ UNCHANGED <<tables, req, answer, calls>>

FirstStatement(op) ==
  IF op = "account" THEN "register" ELSE IF op = "open" THEN "anchor" ELSE "lookup"

\* What a reversal may name: a row the client can know of, or none that exists.
Targets(op) ==
  CASE op = "reverse" -> Ids(movements) \cup {None}
    [] op = "untransfer" -> Ids(transfers) \cup {None}
    [] OTHER -> {None}

\* The rows a request names: a new account has an id of its own.
Names(r) ==
  /\ r.target \in Targets(r.op)
  /\ r.op = "account" => r.from \notin UsedAccountIds

\* The store is called with a request.
Begin(c, r) ==
  /\ pc[c] = "idle" /\ calls < MaxCalls
  /\ req' = [req EXCEPT ![c] = r]
  /\ pc' = [pc EXCEPT ![c] = FirstStatement(r.op)]
  /\ answer' = [answer EXCEPT ![c] = "none"]
  /\ calls' = calls + 1
  /\ UNCHANGED <<tables, work, lock>>

\* A client makes a call: a new one, a retry with the same key, or another
\* request under a key already used.
Ask(c) ==
  \E r \in Requests : \E t \in Targets(r.op) :
    LET named == [r EXCEPT !.target = t]
    IN Names(named) /\ Begin(c, named)

\* Mutated: the digest of the stored request is not compared.
ReplayedAny(c) == "ok"

\* A key that already names an effect returns it, or conflicts.
Replayed(c) ==
  IF \E row \in RowsWithKey(c) : row.digest = Digest(req[c]) THEN "ok" ELSE "conflict"

\* The statement that follows a key nobody used.
AfterLookup(op) ==
  IF op = "transfer" THEN "claim" ELSE IF op = "untransfer" THEN "original" ELSE "guard"

Lookup(c) ==
  /\ pc[c] = "lookup"
  /\ IF RowsWithKey(c) # {}
     THEN Refuse(c, Replayed(c))
     ELSE Goto(c, AfterLookup(req[c].op)) /\ UNCHANGED <<work, lock>>

\* reverse_transfer reads the transfer and its reversal before it writes.
Original(c) ==
  /\ pc[c] = "original"
  /\ IF ~HasStandard(transfers, req[c].target) THEN Refuse(c, "not_found")
     ELSE IF Reversals(transfers, req[c].target) # {} THEN Refuse(c, "already")
     ELSE Goto(c, "claim") /\ UNCHANGED <<work, lock>>

\* The two transfers cannot both be stored.
TransferClash(c, row) ==
  \/ row.key = req[c].key
  \/ req[c].op = "untransfer" /\ row.reverses = req[c].target

\* The insert of c waits for the transaction of d, which holds such a transfer.
AwaitsTransfer(c, d) == \E row \in work[d].transfers : TransferClash(c, row)

NewTransfer(c) ==
  LET first == Fresh(UsedMovementIds)
  IN [id |-> Fresh(UsedTransferIds),
      reverses |-> req[c].target,
      key |-> req[c].key,
      digest |-> Digest(req[c]),
      legs |-> <<first, Fresh(UsedMovementIds \cup {first})>>]

\* The accounts of a new transfer; those of a reversal are known to exist.
AccountsExist(c) ==
  req[c].op = "transfer" => {req[c].from, req[c].to} \subseteq accounts

\* The accounts are read, then the insert of the transfer with ON CONFLICT DO
\* NOTHING, then of its legs.
Claim(c) ==
  /\ pc[c] = "claim"
  /\ \/ /\ ~AccountsExist(c)
        /\ Refuse(c, "not_found")
     \/ /\ AccountsExist(c)
        /\ \A d \in Callers \ {c} : ~AwaitsTransfer(c, d)
        /\ IF \E row \in transfers : TransferClash(c, row)
           THEN Goto(c, "reread") /\ UNCHANGED <<work, lock>>
           ELSE /\ Goto(c, "guard")
                /\ work' = [work EXCEPT ![c] = WithTransfer(work[c], NewTransfer(c))]
                /\ UNCHANGED lock

\* An insert that lost to another transaction reads the winner.
Reread(c) ==
  /\ pc[c] = "reread"
  /\ Refuse(c, IF RowsWithKey(c) # {} THEN Replayed(c) ELSE "already")

\* The reads that precede the insert of a movement.
Guard(c) ==
  /\ pc[c] = "guard"
  /\ IF \/ Undoes(c) /\ ~HasStandard(movements, LegTarget(c))
        \/ Leg(c).account \notin accounts
     THEN Refuse(c, "not_found")
     ELSE IF ~NotBeforeOpening(Leg(c).account, req[c].date)
     THEN Refuse(c, "before_opening")
     ELSE /\ Goto(c, IF Undoes(c) THEN "lock" ELSE "policy")
          /\ UNCHANGED <<work, lock>>

\* lock_standard_movement_for_reversal waits for whoever holds the row.
AwaitsRow(c, d) == LegTarget(c) \in lock[d]

Lock(c) ==
  /\ pc[c] = "lock"
  /\ \A d \in Callers \ {c} : ~AwaitsRow(c, d)
  /\ Goto(c, "recheck")
  /\ lock' = [lock EXCEPT ![c] = @ \cup {LegTarget(c)}]
  /\ UNCHANGED work

\* With the lock: the key again (not for a leg), then the earlier reversal.
Recheck(c) ==
  /\ pc[c] = "recheck"
  /\ IF ~IsTransfer(c) /\ RowsWithKey(c) # {} THEN Refuse(c, Replayed(c))
     ELSE IF Reversals(movements, LegTarget(c)) # {} THEN Refuse(c, "already")
     ELSE Goto(c, "policy") /\ UNCHANGED <<work, lock>>

NewId(c) ==
  IF IsTransfer(c)
  THEN (CHOOSE t \in work[c].transfers : TRUE).legs[Cardinality(work[c].movements) + 1]
  ELSE Fresh(UsedMovementIds)

\* The trigger of 0015: a leg of a transfer is reversed only by the opposite leg
\* of the reversal of that transfer.
LegAllowed(c) ==
  \A t \in Standard(SeenTransfers(c)) : \A i \in 1..2 :
    Undoes(c) /\ t.legs[i] = LegTarget(c)
      => \E u \in Reversals(SeenTransfers(c), t.id) : u.legs[3 - i] = NewId(c)

\* The insert of a movement begins: row policy and BEFORE trigger.
Policy(c) ==
  /\ pc[c] = "policy"
  /\ IF NotBeforeOpening(Leg(c).account, req[c].date) /\ LegAllowed(c)
     THEN Goto(c, "index") /\ UNCHANGED <<work, lock>>
     ELSE Refuse(c, "error")

NewMovement(c) ==
  [id |-> NewId(c),
   account |-> Leg(c).account,
   amount |-> Leg(c).amount,
   date |-> req[c].date,
   reverses |-> Leg(c).reverses,
   key |-> IF IsTransfer(c) THEN NoKey ELSE req[c].key,
   digest |-> Digest(req[c])]

\* Mutated: no unique index on the key of a movement.
KeyClashNever(c, row) == FALSE

KeyClash(c, row) == ~IsTransfer(c) /\ row.key = req[c].key
ReversalClash(c, row) == Undoes(c) /\ row.reverses = LegTarget(c)

AwaitsMovement(c, d) ==
  \E row \in work[d].movements : KeyClash(c, row) \/ ReversalClash(c, row)

\* The insert ends: its unique indexes.  Only create_movement says ON CONFLICT.
Index(c) ==
  /\ pc[c] = "index"
  /\ \A d \in Callers \ {c} : ~AwaitsMovement(c, d)
  /\ IF \E row \in movements : KeyClash(c, row)
     THEN IF req[c].op = "create"
          THEN Goto(c, "reread") /\ UNCHANGED <<work, lock>>
          ELSE Refuse(c, "conflict")
     ELSE IF \E row \in movements : ReversalClash(c, row)
     THEN Refuse(c, "already")
     ELSE /\ Goto(c, IF LastLeg(c) THEN "audit" ELSE "guard")
          /\ work' = [work EXCEPT ![c] = WithMovement(work[c], NewMovement(c))]
          /\ UNCHANGED lock

\* create_account inserts the account: no key, nothing it could clash with.
Register(c) ==
  /\ pc[c] = "register"
  /\ Goto(c, "audit")
  /\ work' = [work EXCEPT ![c] = WithAccount(work[c], req[c].from)]
  /\ UNCHANGED lock

NewOpening(c) ==
  [account |-> req[c].from, amount |-> req[c].amount, date |-> req[c].date]

AwaitsOpening(c, d) == \E o \in work[d].openings : o.account = req[c].from

\* create_opening_balance reads the account and inserts: no key, no movements.
Anchor(c) ==
  /\ pc[c] = "anchor"
  /\ \/ /\ req[c].from \notin accounts
        /\ Refuse(c, "not_found")
     \/ /\ req[c].from \in accounts
        /\ \A d \in Callers \ {c} : ~AwaitsOpening(c, d)
        /\ IF \E o \in openings : o.account = req[c].from
           THEN Refuse(c, "exists")
           ELSE /\ Goto(c, "audit")
                /\ work' = [work EXCEPT ![c] = WithOpening(work[c], NewOpening(c))]
                /\ UNCHANGED lock

\* Mutated: the legs of a transfer get events of their own as well.
AuditEventsOfLegs(w) ==
  {[type |-> "TRANSFER", subject |-> t.id] : t \in w.transfers}
    \cup {[type |-> "OPENING_BALANCE", subject |-> o.account] : o \in w.openings}
    \cup {[type |-> "ACCOUNT", subject |-> a] : a \in w.accounts}
    \cup {[type |-> "MOVEMENT", subject |-> m.id] : m \in w.movements}

\* The audit events of a transaction: one for a movement written alone, one
\* for a transfer and none for its legs, one for an opening or an account.
AuditEvents(w) ==
  {[type |-> "TRANSFER", subject |-> t.id] : t \in w.transfers}
    \cup {[type |-> "OPENING_BALANCE", subject |-> o.account] : o \in w.openings}
    \cup {[type |-> "ACCOUNT", subject |-> a] : a \in w.accounts}
    \cup (IF w.transfers = {}
          THEN {[type |-> "MOVEMENT", subject |-> m.id] : m \in w.movements}
          ELSE {})

Audit(c) ==
  /\ pc[c] = "audit"
  /\ Goto(c, "commit")
  /\ work' = [work EXCEPT ![c] = WithAudit(work[c], AuditEvents(work[c]))]
  /\ UNCHANGED lock

\* The deferred triggers: the legs of a transfer, an event for every row.
Complete(w) ==
  /\ \A t \in w.transfers : {t.legs[1], t.legs[2]} = Ids(w.movements)
  /\ AuditEvents(w) \subseteq w.audit

Store(w) ==
  /\ accounts' = accounts \cup w.accounts
  /\ movements' = movements \cup w.movements
  /\ transfers' = transfers \cup w.transfers
  /\ openings' = openings \cup w.openings
  /\ audit' = audit \cup w.audit

\* The transaction commits; the answer may be lost on its way.
Commit(c) ==
  /\ pc[c] = "commit"
  /\ Complete(work[c])
  /\ Store(work[c])
  /\ \E kind \in {"ok", "lost"} : Return(c, kind)

\* The connection, the process or the server dies: the server rolls back.
Cut(c) ==
  /\ pc[c] # "idle"
  /\ Refuse(c, "lost")

Statement(c) ==
  \/ Lookup(c) \/ Original(c) \/ Claim(c) \/ Reread(c) \/ Guard(c) \/ Lock(c)
  \/ Recheck(c) \/ Policy(c) \/ Index(c) \/ Anchor(c) \/ Register(c) \/ Audit(c)
  \/ Commit(c)

\* The bound on calls is reached; a wait that never ends is a deadlock instead.
Done ==
  /\ calls = MaxCalls
  /\ \A c \in Callers : pc[c] = "idle"
  /\ UNCHANGED vars

Next == (\E c \in Callers : Ask(c) \/ Statement(c) \/ Cut(c)) \/ Done

Spec == Init /\ [][Next]_vars
-----------------------------------------------------------------------------
(* Properties *)

\* ADR-0020, ADR-0021: retries never repeat an effect.  A key names one
\* movement or one transfer, whatever calls and retries race under it.
OneEffectPerKey ==
  /\ \A m, n \in movements : m.key = n.key /\ m.key # NoKey => m = n
  /\ \A t, u \in transfers : t.key = u.key => t = u

MovementOf(id) == ById(movements, id)

\* ADR-0020, ADR-0021: a movement is reversed at most once, by a movement of the
\* same account that cancels it exactly, and a reversal is never reversed.  A
\* transfer is never half stored or half reversed: both legs are there and sum
\* to zero on two accounts; when either is reversed the transfer is, and the
\* legs of that reversal are what reversed them.
EffectsAreWhole ==
  /\ \A r \in movements : r.reverses # None =>
       /\ \E m \in Standard(movements) :
            m.id = r.reverses /\ m.account = r.account /\ m.amount + r.amount = 0
       /\ Cardinality(Reversals(movements, r.reverses)) = 1
  /\ \A t \in transfers :
       /\ {t.legs[1], t.legs[2]} \subseteq Ids(movements)
       /\ MovementOf(t.legs[1]).amount + MovementOf(t.legs[2]).amount = 0
       /\ MovementOf(t.legs[1]).account # MovementOf(t.legs[2]).account
       /\ \A i \in 1..2 : \A r \in Reversals(movements, t.legs[i]) :
            \E u \in Reversals(transfers, t.id) :
              /\ r.id = u.legs[3 - i]
              /\ MovementOf(u.legs[i]).reverses = t.legs[3 - i]

\* ADR-0023: the trail and the ledger are committed together.  Every movement
\* written alone, transfer, opening and new account has its event, a leg has
\* none of its own, and no event tells of a row that is not there.
AuditMatchesLedger ==
  audit =
    {[type |-> "TRANSFER", subject |-> t.id] : t \in transfers}
      \cup {[type |-> "OPENING_BALANCE", subject |-> o.account] : o \in openings}
      \cup {[type |-> "ACCOUNT", subject |-> a] : a \in accounts \ Founded}
      \cup {[type |-> "MOVEMENT", subject |-> id] :
               id \in Ids(movements) \ LegIds(transfers)}

\* ADR-0020:16: an opening balance cannot coexist with a movement before it.
OpeningPrecedesMovements ==
  \A o \in openings : \A m \in movements : o.account = m.account => m.date >= o.date

\* The statement of c waits for the transaction of d to end.
WaitsFor(c, d) ==
  /\ c # d
  /\ \/ pc[c] = "claim" /\ AccountsExist(c) /\ AwaitsTransfer(c, d)
     \/ pc[c] = "lock" /\ AwaitsRow(c, d)
     \/ pc[c] = "index" /\ AwaitsMovement(c, d)
     \/ pc[c] = "anchor" /\ req[c].from \in accounts /\ AwaitsOpening(c, d)

\* No call is held up for ever.  It waits, for a row lock or for a unique value,
\* only for calls under way; the waits never close a circle: among any calls
\* there is one that waits for none of them; and no deferred trigger stops the
\* commit of a transaction that has come to it.
WaitsNeverClose ==
  /\ \A c, d \in Callers : WaitsFor(c, d) => pc[d] # "idle"
  /\ \A calling \in (SUBSET Callers) \ {{}} :
       \E c \in calling : \A d \in calling : ~WaitsFor(c, d)
  /\ \A c \in Callers : pc[c] = "commit" => Complete(work[c])

\* ADR-0021:107: the same key with the same digest replays the transfer.  A
\* retry is not told that the transfer was already reversed.
RetryIsReplayed ==
  \A c \in Callers :
    answer[c] = "already" => \A row \in RowsWithKey(c) : row.digest # Digest(req[c])
=============================================================================
