----------------------------- MODULE SyncCycle ------------------------------
(***************************************************************************)
(* The full scan of a connection's transactions, spread over many manual   *)
(* runs: the cycle and its members (banking_fairness_store.py), the        *)
(* recovery cursors and the pages (banking_observation_store.py), and the  *)
(* loop of ManualBankingSyncService.run that moves them.                   *)
(*                                                                         *)
(* BankingSync shows that a connection has one executing run at a time, so *)
(* this module has one run, whose transactions nobody else disturbs; a     *)
(* provider call and the transaction it leads to are one step.  A run that *)
(* fails, for whatever reason, changes none of this state on its way out:  *)
(* an undone page, a page older than the cursor, a provider error all end  *)
(* in RunFails.  A cursor is opaque in the code; here it is the number of  *)
(* the page it was returned with.                                          *)
(***************************************************************************)
EXTENDS Naturals, FiniteSets

CONSTANTS
  Accounts,      \* external accounts of type BANK or CREDIT, the eligible ones
  Pages,         \* pages that a full scan of each account takes
  PageLimit,     \* max_pages_per_run
  AccountLimit,  \* max_accounts_per_run
  Upgraded       \* the database may hold cursors older than the first cycle

ASSUME PagesAssumption == Pages \in [Accounts -> Nat \ {0}]
ASSUME LimitsAssumption ==
  PageLimit \in Nat \ {0} /\ AccountLimit \in Nat \ {0}
ASSUME UpgradedAssumption == Upgraded \in BOOLEAN

VARIABLES
  cycle,       \* status of the latest sync_cycles row
  member,      \* sync_cycle_accounts of the latest cycle
  cursor,      \* sync_cursors; 0 is no row
  pc,          \* where the run is
  listed,      \* the eligible accounts of the run's snapshot
  todo,        \* accounts of the plan that the run has not come to
  current,     \* the account being read
  pageCount,   \* pages_committed of the run
  doneCount,   \* processed_accounts of the run
  scanned,     \* history: pages of an account stored in this scan
  founders,    \* history: the accounts that the latest cycle began with
  begun        \* history: the pages each account had when the run's plan was made

stored == <<cycle, member, cursor>>
locals == <<pc, listed, todo, current, pageCount, doneCount>>
history == <<scanned, founders, begun>>
vars == <<stored, locals, history>>

NoAccount == "none"
NoPages == [a \in Accounts |-> 0]
ASSUME AccountsAssumption == NoAccount \notin Accounts

-----------------------------------------------------------------------------
(* Rows *)

\* The membership of an account that has no row: joined is that there is one,
\* active is active_in_latest_snapshot, pages is pages_committed, and done that
\* completed_at is set.
Absent == [joined |-> FALSE, active |-> FALSE, pages |-> 0, done |-> FALSE]

-----------------------------------------------------------------------------
(* The store *)

\* A member that competes for the cycle's pages.
PendingIn(rows) == {a \in Accounts : rows[a].active /\ ~rows[a].done}

\* Mutated: members outside the snapshot keep the cycle open.
CycleStatusOfAll(rows) ==
  IF \E a \in Accounts : rows[a].joined /\ ~rows[a].done THEN "open" ELSE "completed"

\* The status that a cycle takes when its members are as in rows.
CycleStatus(rows) == IF PendingIn(rows) = {} THEN "completed" ELSE "open"

\* Members outside the snapshot are set inactive, those of the snapshot are
\* inserted or set active again with the progress they have.
Joined(rows, eligible) ==
  [a \in Accounts |->
     [rows[a] EXCEPT !.active = a \in eligible,
                     !.joined = rows[a].joined \/ a \in eligible]]

\* Mutated: the cursors of a completed cycle are left alone.
CursorsKept(eligible) == cursor

\* A new cycle after a completed one discards the cursors of its accounts.
CursorsOfNewCycle(eligible) ==
  IF cycle = "none" THEN cursor
  ELSE [a \in Accounts |-> IF a \in eligible THEN 0 ELSE cursor[a]]

\* _commit_cursor: the terminal page has no next cursor and removes the row.
CursorAfter(a, page) == IF page = Pages[a] THEN 0 ELSE page

\* _advance_cycle_account
Advanced(a, page) ==
  [member[a] EXCEPT !.pages = member[a].pages + 1, !.done = page = Pages[a]]

\* Mutated: a recovery cursor always comes first.
BeforeByCursor(a, b) == cursor[a] > 0 \/ cursor[b] = 0

\* The order of the plan: fewest pages, then a recovery cursor; what is left is
\* the order in which members joined, which this module leaves open.
Before(a, b) ==
  \/ member[a].pages < member[b].pages
  \/ member[a].pages = member[b].pages /\ (cursor[a] > 0 \/ cursor[b] = 0)

-----------------------------------------------------------------------------
(* A run *)

\* What a plan compares: the pages that every account has got so far.
PagesIn(rows) == [a \in Accounts |-> rows[a].pages]

EndRun ==
  /\ begun' = NoPages
  /\ UNCHANGED <<scanned, founders>>
  /\ pc' = "idle"
  /\ listed' = {}
  /\ todo' = {}
  /\ current' = NoAccount
  /\ pageCount' = 0
  /\ doneCount' = 0

\* begin_manual_sync to replace_external_accounts, with any snapshot.
Start ==
  /\ pc = "idle"
  /\ pc' = "prepare"
  /\ listed' \in SUBSET Accounts
  /\ UNCHANGED <<stored, todo, current, pageCount, doneCount, history>>

\* prepare_sync_cycle inside an open cycle.
ContinueCycle ==
  /\ pc = "prepare"
  /\ cycle = "open"
  /\ member' = Joined(member, listed)
  /\ cycle' = CycleStatus(member')
  /\ todo' = PendingIn(member')
  /\ begun' = PagesIn(member')
  /\ pc' = "pick"
  /\ UNCHANGED <<cursor, listed, current, pageCount, doneCount, scanned, founders>>

\* prepare_sync_cycle when no cycle is open.  Cursors that are there before the
\* first cycle belong to a scan that goes on.
NewCycle ==
  /\ pc = "prepare"
  /\ cycle # "open"
  /\ member' = Joined([a \in Accounts |-> Absent], listed)
  /\ cycle' = CycleStatus(member')
  /\ cursor' = CursorsOfNewCycle(listed)
  /\ todo' = PendingIn(member')
  /\ begun' = PagesIn(member')
  /\ pc' = "pick"
  /\ founders' = listed
  /\ scanned' = IF cycle = "none" THEN scanned ELSE [a \in Accounts |-> {}]
  /\ UNCHANGED <<listed, current, pageCount, doneCount>>

\* The next account of the plan, which starts from its cursor.
Pick ==
  /\ pc = "pick"
  /\ doneCount < AccountLimit
  /\ \E a \in todo :
       /\ \A b \in todo : Before(a, b)
       /\ current' = a
       /\ todo' = todo \ {a}
  /\ pc' = "read"
  /\ UNCHANGED <<stored, listed, pageCount, doneCount, history>>

\* The plan is done (SUCCEEDED), or the account limit is reached (PARTIAL).
PlanEnds ==
  /\ pc = "pick"
  /\ todo = {} \/ doneCount >= AccountLimit
  /\ EndRun
  /\ UNCHANGED stored

\* list_transactions from the cursor and apply_transaction_page of the page.
ReadPage ==
  /\ pc = "read"
  /\ pageCount < PageLimit
  /\ LET page == cursor[current] + 1 IN
     /\ cursor' = [cursor EXCEPT ![current] = CursorAfter(current, page)]
     /\ member' = [member EXCEPT ![current] = Advanced(current, page)]
     /\ cycle' = IF page = Pages[current] THEN CycleStatus(member') ELSE cycle
     /\ scanned' = [scanned EXCEPT ![current] = scanned[current] \cup {page}]
     /\ IF page = Pages[current]
          THEN /\ pc' = "pick"
               /\ current' = NoAccount
               /\ doneCount' = doneCount + 1
          ELSE UNCHANGED <<pc, current, doneCount>>
  /\ pageCount' = pageCount + 1
  /\ UNCHANGED <<listed, todo, founders, begun>>

PageLimitReached ==
  /\ pc = "read"
  /\ pageCount >= PageLimit
  /\ EndRun
  /\ UNCHANGED stored

\* A provider error, an undone or conflicting transaction, the record limit.
RunFails ==
  /\ pc # "idle"
  /\ EndRun
  /\ UNCHANGED stored

-----------------------------------------------------------------------------
(* Specification *)

Init ==
  /\ cycle = "none"
  /\ member = [a \in Accounts |-> Absent]
  /\ cursor \in [Accounts -> UNION {0..(Pages[a] - 1) : a \in Accounts}]
  /\ \A a \in Accounts : IF Upgraded THEN cursor[a] < Pages[a] ELSE cursor[a] = 0
  /\ pc = "idle"
  /\ listed = {}
  /\ todo = {}
  /\ current = NoAccount
  /\ pageCount = 0
  /\ doneCount = 0
  /\ scanned = [a \in Accounts |-> 1..cursor[a]]
  /\ founders = {}
  /\ begun = NoPages

PrepareCycle == ContinueCycle \/ NewCycle

Next == Start \/ PrepareCycle \/ Pick \/ PlanEnds \/ ReadPage \/ PageLimitReached \/ RunFails

Spec == Init /\ [][Next]_vars

\* The operator keeps asking for runs, and no step of a run meets an error every
\* time that it is tried.
FairSpec ==
  /\ Spec
  /\ WF_vars(Start) /\ WF_vars(PlanEnds) /\ WF_vars(PageLimitReached)
  /\ SF_vars(PrepareCycle) /\ SF_vars(Pick) /\ SF_vars(ReadPage)

-----------------------------------------------------------------------------
(* Properties *)

\* An account that was in the snapshot with which the cycle began has stored
\* exactly the pages up to its cursor, and all of them when it is done, however
\* many runs it took and however often it left the snapshot in between; and no
\* cursor outlives the scan it belongs to.
FoundersFullyScanned ==
  /\ \A a \in founders :
       scanned[a] = IF member[a].done THEN 1..Pages[a] ELSE 1..cursor[a]
  /\ \A a \in Accounts : member[a].done => cursor[a] = 0

\* Within a cycle a page goes to an account only if, when the run made its plan,
\* no account of the snapshot that is still pending had been served less, be it
\* the first account of the run or a later one; and what this compares is never
\* lost, not even by an account that leaves the snapshot and comes back.
LeastServedIsServed ==
  [][\A a, b \in Accounts :
       /\ member'[a].pages > member[a].pages /\ b \in PendingIn(member)
            => begun[a] <= begun[b]
       /\ cycle = "open" =>
            /\ member'[a].pages >= member[a].pages
            /\ member[a].done => member'[a].done
            /\ member[a].joined => member'[a].joined]_vars

\* Every cycle is completed.
CycleCompletes == cycle = "open" ~> cycle = "completed"

\* A recovery cursor belongs to the scan that produced it: no member of the
\* latest cycle continues from a cursor of a cycle that is completed.
CursorBelongsToCycle ==
  \A a \in Accounts :
    member[a].active /\ cursor[a] > 0 => cursor[a] \in scanned[a]
=============================================================================
