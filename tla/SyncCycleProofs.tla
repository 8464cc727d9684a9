-------------------------- MODULE SyncCycleProofs ---------------------------
(***************************************************************************)
(* The full scan of SyncCycle, for any accounts, lengths of scan and       *)
(* limits of a run.  That a founder's pages are exactly those up to its    *)
(* cursor is not inductive: the account a run reads must not be done yet   *)
(* (Plan), and what was stored before the first cycle must be what the     *)
(* cursors of that time stand for (Scans).  That the least served account  *)
(* is served needs the whole plan to be what is still pending, and that    *)
(* what a run has not come to has got no page since its plan was made.     *)
(***************************************************************************)
EXTENDS SyncCycle, TLAPS

Row == [joined : BOOLEAN, active : BOOLEAN, pages : Nat, done : BOOLEAN]

Types ==
  /\ cycle \in {"none", "open", "completed"}
  /\ member \in [Accounts -> Row]
  /\ cursor \in [Accounts -> Nat]
  /\ \A a \in Accounts : cursor[a] < Pages[a]
  /\ pc \in {"idle", "prepare", "pick", "read"}
  /\ listed \subseteq Accounts
  /\ todo \subseteq Accounts
  /\ current \in Accounts \cup {NoAccount}
  /\ pageCount \in Nat /\ doneCount \in Nat
  /\ scanned \in [Accounts -> SUBSET Nat]
  /\ founders \subseteq Accounts
  /\ begun \in [Accounts -> Nat]

\* What a run has not come to is what is pending, as it was when the plan was
\* made; the account it reads had got no more than these.
Plan ==
  /\ pc = "pick" =>
       /\ cycle # "none" /\ todo = PendingIn(member)
       /\ \A b \in todo : member[b].pages = begun[b]
  /\ pc = "read" =>
       /\ cycle # "none"
       /\ current \in PendingIn(member) /\ current \notin todo
       /\ PendingIn(member) = todo \cup {current}
       /\ \A b \in todo : member[b].pages = begun[b] /\ begun[current] <= begun[b]

\* Before the first cycle the cursors stand for the whole of what is stored.
Scans ==
  /\ cycle = "none" =>
       \A a \in Accounts : ~member[a].done /\ scanned[a] = 1..cursor[a]
  /\ FoundersFullyScanned

\* The latest cycle is open exactly as long as a member competes for its pages.
CycleIsOpenWhilePending == cycle # "none" => cycle = CycleStatus(member)

IInv == Types /\ Plan /\ Scans /\ CycleIsOpenWhilePending

-----------------------------------------------------------------------------
(* The store *)

\* The members that a snapshot prepares keep their progress.
LEMMA JoinedKeeps ==
  ASSUME NEW rows \in [Accounts -> Row], NEW eligible \in SUBSET Accounts
  PROVE  /\ Joined(rows, eligible) \in [Accounts -> Row]
         /\ \A a \in Accounts :
              /\ Joined(rows, eligible)[a].pages = rows[a].pages
              /\ Joined(rows, eligible)[a].done = rows[a].done
              /\ Joined(rows, eligible)[a].joined = (rows[a].joined \/ a \in eligible)
              /\ Joined(rows, eligible)[a].active = (a \in eligible)
<1> DEFINE J == Joined(rows, eligible)
<1>1. ASSUME NEW a \in Accounts
      PROVE  /\ J[a] \in Row
             /\ J[a].pages = rows[a].pages /\ J[a].done = rows[a].done
             /\ J[a].joined = (rows[a].joined \/ a \in eligible)
             /\ J[a].active = (a \in eligible)
  <2>1. rows[a] \in Row
    OBVIOUS
  <2> DEFINE here == a \in eligible
             was == rows[a].joined \/ a \in eligible
  <2>2. J[a] = [rows[a] EXCEPT !.active = here, !.joined = was]
    BY DEF Joined
  <2>3. here \in BOOLEAN /\ was \in BOOLEAN
    OBVIOUS
  <2>4. /\ J[a] \in Row
        /\ J[a].pages = rows[a].pages /\ J[a].done = rows[a].done
        /\ J[a].joined = was /\ J[a].active = here
    <3> HIDE DEF here, was, J
    <3> QED
      BY <2>1, <2>2, <2>3 DEF Row
  <2> QED
    BY <2>4, Zenon
<1>2. J = [a \in Accounts |-> J[a]]
  BY DEF Joined
<1> QED
  BY <1>1, <1>2, Zenon

\* The page that a run stores of the account it reads.
LEMMA PageKeeps ==
  ASSUME Types, NEW a \in Accounts, NEW page \in Nat, page = cursor[a] + 1,
         member' = [member EXCEPT ![a] = Advanced(a, page)],
         cursor' = [cursor EXCEPT ![a] = CursorAfter(a, page)]
  PROVE  /\ member' \in [Accounts -> Row]
         /\ member'[a].pages = member[a].pages + 1
         /\ member'[a].done = (page = Pages[a])
         /\ member'[a].active = member[a].active
         /\ member'[a].joined = member[a].joined
         /\ \A b \in Accounts \ {a} : member'[b] = member[b] /\ cursor'[b] = cursor[b]
         /\ cursor' \in [Accounts -> Nat]
         /\ cursor'[a] = IF page = Pages[a] THEN 0 ELSE page
         /\ \A b \in Accounts : cursor'[b] < Pages[b]
<1>1. member[a] \in Row /\ Pages[a] \in Nat \ {0} /\ cursor[a] < Pages[a]
  BY PagesAssumption DEF Types
<1>2. /\ member'[a] \in Row
      /\ member'[a].pages = member[a].pages + 1 /\ member'[a].done = (page = Pages[a])
      /\ member'[a].active = member[a].active /\ member'[a].joined = member[a].joined
  <2> DEFINE last == page = Pages[a]
             more == member[a].pages + 1
  <2>1. member'[a] = [member[a] EXCEPT !.pages = more, !.done = last]
    BY DEF Advanced, Types
  <2>2. more \in Nat /\ last \in BOOLEAN
    BY <1>1 DEF Row
  <2>3. /\ member'[a] \in Row
        /\ member'[a].pages = more /\ member'[a].done = last
        /\ member'[a].active = member[a].active /\ member'[a].joined = member[a].joined
    <3> HIDE DEF more, last
    <3>1. member'[a] \in Row
      <4>1. member'[a] = [joined |-> member[a].joined, active |-> member[a].active,
                          pages |-> more, done |-> last]
        BY <1>1, <2>1 DEF Row
      <4>2. member[a].joined \in BOOLEAN /\ member[a].active \in BOOLEAN
        BY <1>1 DEF Row
      <4> QED
        BY <2>2, <4>1, <4>2 DEF Row
    <3>2. member'[a].pages = more /\ member'[a].done = last
      BY <1>1, <2>1 DEF Row
    <3>3. member'[a].active = member[a].active /\ member'[a].joined = member[a].joined
      BY <1>1, <2>1 DEF Row
    <3> QED
      BY <3>1, <3>2, <3>3
  <2> QED
    BY <2>3, Zenon
<1>3. \A b \in Accounts \ {a} : member'[b] = member[b] /\ cursor'[b] = cursor[b]
  BY DEF Types
<1>4. member' \in [Accounts -> Row]
  BY <1>2, <1>3, Zenon DEF Types
<1>5. cursor'[a] = (IF page = Pages[a] THEN 0 ELSE page)
  BY DEF CursorAfter, Types
<1>6. cursor' \in [Accounts -> Nat]
  BY <1>5 DEF CursorAfter, Types
<1>7. \A b \in Accounts : cursor'[b] < Pages[b]
  BY <1>1, <1>3, <1>5 DEF Types
<1> QED
  BY <1>2, <1>3, <1>4, <1>5, <1>6, <1>7

-----------------------------------------------------------------------------
(* The steps *)

LEMMA InitHolds == Init => IInv
<1> SUFFICES ASSUME Init PROVE IInv
  OBVIOUS
<1>1. \A a \in Accounts : cursor[a] \in Nat /\ cursor[a] < Pages[a]
  <2> SUFFICES ASSUME NEW a \in Accounts PROVE cursor[a] \in Nat /\ cursor[a] < Pages[a]
    OBVIOUS
  <2>1. \A b \in Accounts : 0..(Pages[b] - 1) \subseteq Nat
    BY PagesAssumption
  <2>2. UNION {0..(Pages[b] - 1) : b \in Accounts} \subseteq Nat
    BY <2>1
  <2>3. cursor[a] \in Nat
    BY <2>2 DEF Init
  <2> QED
    BY <2>3, PagesAssumption DEF Init
<1>2. cursor \in [Accounts -> Nat]
  BY <1>1 DEF Init
<1>3. member \in [Accounts -> Row] /\ \A a \in Accounts : ~member[a].done
  BY DEF Init, Absent, Row
<1>4. Types
  BY <1>1, <1>2, <1>3 DEF Init, Types, NoPages
<1>5. Scans
  BY <1>3 DEF Init, Scans, FoundersFullyScanned
<1> QED
  BY <1>4, <1>5 DEF Init, IInv, Plan, CycleIsOpenWhilePending

\* A run that ends, for whatever reason, leaves the store as it is.
LEMMA RunEnds ==
  ASSUME IInv, EndRun, UNCHANGED stored
  PROVE  IInv'
<1>1. Types'
  BY DEF IInv, Types, EndRun, NoPages, stored
<1>2. Plan'
  BY DEF EndRun, Plan
<1>3. Scans' /\ CycleIsOpenWhilePending'
  BY DEF IInv, EndRun, Scans, FoundersFullyScanned, CycleIsOpenWhilePending, CycleStatus,
         PendingIn, stored
<1> QED
  BY <1>1, <1>2, <1>3 DEF IInv

\* The pages that a plan compares.
LEMMA PagesInIs ==
  ASSUME NEW rows \in [Accounts -> Row]
  PROVE  /\ PagesIn(rows) \in [Accounts -> Nat]
         /\ \A a \in Accounts : PagesIn(rows)[a] = rows[a].pages
BY DEF PagesIn, Row

LEMMA StartStep ==
  ASSUME IInv, Start
  PROVE  IInv'
<1>1. Types'
  BY DEF IInv, Types, Start, stored, history
<1>2. Plan'
  BY DEF Start, Plan
<1>3. Scans' /\ CycleIsOpenWhilePending'
  BY DEF IInv, Start, Scans, FoundersFullyScanned, CycleIsOpenWhilePending, CycleStatus, PendingIn,
         stored, history
<1> QED
  BY <1>1, <1>2, <1>3 DEF IInv

LEMMA ContinueCycleStep ==
  ASSUME IInv, ContinueCycle
  PROVE  IInv'
<1>1. /\ member \in [Accounts -> Row] /\ listed \in SUBSET Accounts
      /\ member' = Joined(member, listed)
  BY DEF IInv, Types, ContinueCycle
<1>2. /\ member' \in [Accounts -> Row]
      /\ \A a \in Accounts : member'[a].done = member[a].done
  BY <1>1, JoinedKeeps
<1>3. /\ cycle' = CycleStatus(member') /\ cycle' \in {"open", "completed"}
      /\ PendingIn(member') \subseteq Accounts
  BY DEF ContinueCycle, CycleStatus, PendingIn
<1> DEFINE P == PagesIn(member')
<1>4. P \in [Accounts -> Nat] /\ \A a \in Accounts : P[a] = member'[a].pages
  BY <1>2, PagesInIs
<1>5. begun' = P
  BY DEF ContinueCycle
<1>6. Types'
  BY <1>2, <1>3, <1>4, <1>5 DEF IInv, Types, ContinueCycle
<1>7. Plan'
  <2> HIDE DEF P
  <2> QED
    BY <1>3, <1>4, <1>5 DEF ContinueCycle, Plan, PendingIn
<1>8. Scans'
  BY <1>2, <1>3 DEF IInv, Types, ContinueCycle, Scans, FoundersFullyScanned
<1>9. CycleIsOpenWhilePending'
  BY <1>3 DEF CycleIsOpenWhilePending, CycleStatus, PendingIn
<1> QED
  BY <1>6, <1>7, <1>8, <1>9 DEF IInv

LEMMA NewCycleStep ==
  ASSUME IInv, NewCycle
  PROVE  IInv'
<1> DEFINE Rows == [a \in Accounts |-> Absent]
<1>1. /\ Rows \in [Accounts -> Row] /\ listed \in SUBSET Accounts
      /\ \A a \in Accounts : ~Rows[a].done
      /\ member' = Joined(Rows, listed)
  BY DEF IInv, Types, NewCycle, Absent, Row
<1>2. member' \in [Accounts -> Row] /\ \A a \in Accounts : ~member'[a].done
  <2> HIDE DEF Rows
  <2> QED
    BY <1>1, JoinedKeeps
<1>3. /\ cycle' = CycleStatus(member') /\ cycle' \in {"open", "completed"}
      /\ PendingIn(member') \subseteq Accounts
  BY DEF NewCycle, CycleStatus, PendingIn
<1>4. /\ cursor' \in [Accounts -> Nat]
      /\ \A a \in Accounts : cursor'[a] < Pages[a]
      /\ scanned' \in [Accounts -> SUBSET Nat]
      /\ \A a \in listed : scanned'[a] = 1..cursor'[a]
  <2>1. CASE cycle = "none"
    BY <2>1 DEF IInv, Types, Scans, NewCycle, CursorsOfNewCycle
  <2>2. CASE cycle # "none"
    <3>1. cursor' = [a \in Accounts |-> IF a \in listed THEN 0 ELSE cursor[a]]
      BY <2>2 DEF NewCycle, CursorsOfNewCycle
    <3>2. scanned' = [a \in Accounts |-> {}]
      BY <2>2 DEF NewCycle
    <3>3. 1..0 = {}
      OBVIOUS
    <3> QED
      BY <3>1, <3>2, <3>3, PagesAssumption DEF IInv, Types
  <2> QED
    BY <2>1, <2>2
<1> DEFINE P == PagesIn(member')
<1>5. P \in [Accounts -> Nat] /\ \A a \in Accounts : P[a] = member'[a].pages
  BY <1>2, PagesInIs
<1>6. begun' = P
  BY DEF NewCycle
<1>7. Types'
  BY <1>2, <1>3, <1>4, <1>5, <1>6 DEF IInv, Types, NewCycle
<1>8. Plan'
  <2> HIDE DEF P
  <2> QED
    BY <1>3, <1>5, <1>6 DEF NewCycle, Plan, PendingIn
<1>9. Scans'
  BY <1>2, <1>3, <1>4 DEF IInv, Types, NewCycle, Scans, FoundersFullyScanned
<1>10. CycleIsOpenWhilePending'
  BY <1>3 DEF CycleIsOpenWhilePending, CycleStatus, PendingIn
<1> QED
  BY <1>7, <1>8, <1>9, <1>10 DEF IInv

LEMMA PickStep ==
  ASSUME IInv, Pick
  PROVE  IInv'
<1>1. PICK a \in todo :
        /\ \A b \in todo : Before(a, b)
        /\ current' = a
        /\ todo' = todo \ {a}
  BY DEF Pick
<1>2. /\ UNCHANGED <<stored, listed, pageCount, doneCount, history>> /\ pc' = "read"
      /\ pc = "pick" /\ Types /\ cycle # "none" /\ todo = PendingIn(member)
  BY DEF Pick, IInv, Plan
<1>3. Types'
  BY <1>1, <1>2 DEF Types, stored, history
<1>4. PendingIn(member') = PendingIn(member)
  BY <1>2 DEF stored
<1>5. ASSUME NEW b \in todo'
      PROVE  member'[b].pages = begun'[b] /\ begun'[a] <= begun'[b]
  <2>1. b \in todo /\ a \in Accounts /\ b \in Accounts
    BY <1>1, <1>2 DEF Types
  <2>2. member[a] \in Row /\ member[b] \in Row
    BY <1>2, <2>1 DEF Types
  <2>3. member[a].pages \in Nat /\ member[b].pages \in Nat
    BY <2>2 DEF Row
  <2>4. member[a].pages <= member[b].pages
    BY <1>1, <2>1, <2>3 DEF Before
  <2>5. member[a].pages = begun[a] /\ member[b].pages = begun[b]
    BY <1>1, <1>2, <2>1 DEF IInv, Plan
  <2> QED
    BY <1>2, <2>4, <2>5 DEF stored, history
<1>6. Plan'
  BY <1>1, <1>2, <1>4, <1>5 DEF Plan, stored
<1>7. Scans' /\ CycleIsOpenWhilePending'
  BY <1>2 DEF IInv, Scans, FoundersFullyScanned, CycleIsOpenWhilePending, CycleStatus,
              PendingIn, stored, history
<1> QED
  BY <1>3, <1>6, <1>7 DEF IInv

\* What the page of a run's account does to the store.
LEMMA ReadPageFacts ==
  ASSUME IInv, ReadPage
  PROVE  /\ pc = "read" /\ current \in Accounts /\ ~member[current].done /\ member[current].active
         /\ Pages[current] \in Nat \ {0}
         /\ cursor[current] + 1 \in Nat
         /\ member' \in [Accounts -> Row]
         /\ member'[current].pages = member[current].pages + 1
         /\ member'[current].done = (cursor[current] + 1 = Pages[current])
         /\ member'[current].active = member[current].active
         /\ member'[current].joined = member[current].joined
         /\ \A b \in Accounts \ {current} : member'[b] = member[b] /\ cursor'[b] = cursor[b]
         /\ cursor' \in [Accounts -> Nat]
         /\ cursor'[current] = IF cursor[current] + 1 = Pages[current]
                                 THEN 0 ELSE cursor[current] + 1
         /\ \A b \in Accounts : cursor'[b] < Pages[b]
<1>1. /\ pc = "read" /\ current \in Accounts /\ ~member[current].done
      /\ member[current].active /\ Types
  BY DEF IInv, Plan, ReadPage, PendingIn
<1>2. Pages[current] \in Nat \ {0} /\ cursor[current] + 1 \in Nat
  BY <1>1, PagesAssumption DEF Types
<1>3. /\ member' = [member EXCEPT ![current] = Advanced(current, cursor[current] + 1)]
      /\ cursor' = [cursor EXCEPT ![current] = CursorAfter(current, cursor[current] + 1)]
  BY DEF ReadPage
<1> QED
  BY <1>1, <1>2, <1>3, PageKeeps

LEMMA ReadPageStep ==
  ASSUME IInv, ReadPage
  PROVE  IInv'
<1> DEFINE page == cursor[current] + 1
           last == page = Pages[current]
<1>1. /\ pc = "read" /\ current \in Accounts /\ ~member[current].done /\ member[current].active
      /\ Pages[current] \in Nat \ {0} /\ page \in Nat /\ cursor[current] \in Nat
      /\ member' \in [Accounts -> Row]
      /\ member'[current].pages = member[current].pages + 1
      /\ member'[current].done = last
      /\ member'[current].active = member[current].active
      /\ \A b \in Accounts \ {current} : member'[b] = member[b] /\ cursor'[b] = cursor[b]
      /\ cursor' \in [Accounts -> Nat]
      /\ cursor'[current] = IF last THEN 0 ELSE page
      /\ \A b \in Accounts : cursor'[b] < Pages[b]
  BY ReadPageFacts DEF IInv, Types
<1>2. /\ cycle' = IF last THEN CycleStatus(member') ELSE cycle
      /\ scanned' = [scanned EXCEPT ![current] = scanned[current] \cup {page}]
      /\ pageCount' = pageCount + 1
      /\ IF last THEN pc' = "pick" /\ current' = NoAccount /\ doneCount' = doneCount + 1
                 ELSE UNCHANGED <<pc, current, doneCount>>
      /\ UNCHANGED <<listed, todo, founders, begun>>
  BY DEF ReadPage
<1>3. /\ Types /\ cycle # "none" /\ current \notin todo
      /\ PendingIn(member) = todo \cup {current}
      /\ \A b \in todo : member[b].pages = begun[b] /\ begun[current] <= begun[b]
      /\ FoundersFullyScanned /\ cycle = CycleStatus(member)
  BY <1>1 DEF IInv, Plan, Scans, CycleIsOpenWhilePending
<1>4. scanned[current] \cup {page} \subseteq Nat
  BY <1>1, <1>3 DEF Types
<1>5. /\ \A b \in Accounts \ {current} : scanned'[b] = scanned[b]
      /\ scanned'[current] = scanned[current] \cup {page}
      /\ scanned' \in [Accounts -> SUBSET Nat]
  BY <1>1, <1>2, <1>3, <1>4, Zenon DEF Types
<1>6. cycle' \in {"open", "completed"}
  BY <1>2, <1>3 DEF CycleStatus, Types
<1>7. Types'
  BY <1>1, <1>2, <1>3, <1>5, <1>6 DEF Types
<1>8. PendingIn(member') = IF last THEN todo ELSE todo \cup {current}
  <2> HIDE DEF last
  <2>1. ASSUME NEW a \in Accounts
        PROVE  (member'[a].active /\ ~member'[a].done) <=>
               (a \in PendingIn(member) /\ ~(a = current /\ last))
    BY <1>1, <2>1 DEF PendingIn
  <2>2. PendingIn(member') = {a \in PendingIn(member) : ~(a = current /\ last)}
    BY <2>1 DEF PendingIn
  <2> QED
    BY <1>3, <2>2
<1>9. Plan'
  <2>1. ASSUME NEW b \in todo
        PROVE  member'[b].pages = begun'[b] /\ begun'[current] <= begun'[b]
    <3>1. b \in Accounts \ {current}
      BY <1>3 DEF Types
    <3> QED
      BY <1>1, <1>2, <1>3, <3>1
  <2>2. CASE last
    BY <1>2, <1>6, <1>8, <2>1, <2>2 DEF Plan
  <2>3. CASE ~last
    BY <1>1, <1>2, <1>3, <1>6, <1>8, <2>1, <2>3 DEF Plan
  <2> QED
    BY <2>2, <2>3
<1>10. Scans'
  <2>1. ASSUME NEW a \in founders'
        PROVE  scanned'[a] = IF member'[a].done THEN 1..Pages[a] ELSE 1..cursor'[a]
    <3>1. a \in founders /\ a \in Accounts
      BY <1>2, <1>3, <2>1 DEF Types
    <3>2. CASE a # current
      <4>1. member'[a] = member[a] /\ cursor'[a] = cursor[a] /\ scanned'[a] = scanned[a]
        BY <1>1, <1>5, <3>1, <3>2
      <4> QED
        BY <1>3, <3>1, <4>1 DEF FoundersFullyScanned
    <3>3. CASE a = current
      <4>1. scanned[a] = 1..cursor[a]
        BY <1>1, <1>3, <3>1, <3>3 DEF FoundersFullyScanned
      <4>2. 1..cursor[a] \cup {cursor[a] + 1} = 1..(cursor[a] + 1)
        BY <1>1, <3>3
      <4>3. scanned'[a] = 1..page
        BY <1>5, <3>3, <4>1, <4>2
      <4> QED
        BY <1>1, <3>3, <4>3
    <3> QED
      BY <3>2, <3>3
  <2>2. ASSUME NEW a \in Accounts, member'[a].done
        PROVE  cursor'[a] = 0
    <3>1. CASE a = current
      BY <1>1, <2>2, <3>1
    <3>2. CASE a # current
      BY <1>1, <1>3, <2>2, <3>2 DEF FoundersFullyScanned
    <3> QED
      BY <3>1, <3>2
  <2> QED
    BY <1>6, <2>1, <2>2 DEF Scans, FoundersFullyScanned
<1>11. CycleIsOpenWhilePending'
  <2>1. CASE last
    BY <1>2, <2>1 DEF CycleIsOpenWhilePending, CycleStatus, PendingIn
  <2>2. CASE ~last
    <3>1. PendingIn(member') # {} /\ PendingIn(member) # {}
      BY <1>3, <1>8, <2>2
    <3>2. cycle' = "open"
      BY <1>2, <1>3, <2>2, <3>1 DEF CycleStatus
    <3> QED
      BY <3>1, <3>2 DEF CycleIsOpenWhilePending, CycleStatus, PendingIn
  <2> QED
    BY <2>1, <2>2
<1> QED
  BY <1>7, <1>9, <1>10, <1>11 DEF IInv

LEMMA NextKeeps == IInv /\ [Next]_vars => IInv'
<1> SUFFICES ASSUME IInv, [Next]_vars PROVE IInv'
  OBVIOUS
<1>1. CASE UNCHANGED vars
  BY <1>1 DEF IInv, Types, Plan, Scans, FoundersFullyScanned, CycleIsOpenWhilePending,
              CycleStatus, PendingIn, vars, stored, locals, history
<1>2. CASE Start
  BY <1>2, StartStep
<1>3. CASE PrepareCycle
  BY <1>3, ContinueCycleStep, NewCycleStep DEF PrepareCycle
<1>4. CASE Pick
  BY <1>4, PickStep
<1>5. CASE PlanEnds \/ PageLimitReached \/ RunFails
  BY <1>5, RunEnds DEF PlanEnds, PageLimitReached, RunFails
<1>6. CASE ReadPage
  BY <1>6, ReadPageStep
<1> QED
  BY <1>1, <1>2, <1>3, <1>4, <1>5, <1>6 DEF Next

-----------------------------------------------------------------------------
(* Theorems *)

\* The inductive invariant holds of every run of the loop in service.py over the
\* rows of banking_fairness_store.py and banking_observation_store.py.
THEOREM Invariance == Spec => []IInv
BY InitHolds, NextKeeps, PTL DEF Spec

\* However many manual runs it takes, however they fail and whatever leaves the
\* snapshot in between, an account the cycle began with has stored exactly the
\* pages up to its recovery cursor, all of them once it is done.
THEOREM FoundersFullyScannedHolds == Spec => []FoundersFullyScanned
<1>1. IInv => FoundersFullyScanned
  BY DEF IInv, Scans
<1> QED
  BY <1>1, Invariance, PTL

\* prepare_sync_cycle and _complete_cycle_if_ready agree on the status: a cycle
\* never closes over a pending member, nor stays open without one.
THEOREM CycleIsOpenWhilePendingHolds == Spec => []CycleIsOpenWhilePending
<1>1. IInv => CycleIsOpenWhilePending
  BY DEF IInv
<1> QED
  BY <1>1, Invariance, PTL

\* A page goes to an account that had no more pages, when the run's plan was made,
\* than any account still pending; and within a cycle no progress is lost.
THEOREM LeastServedIsServedHolds == Spec => LeastServedIsServed
<1> DEFINE Fair(a, b) ==
      /\ member'[a].pages > member[a].pages /\ b \in PendingIn(member)
           => begun[a] <= begun[b]
      /\ cycle = "open" =>
           /\ member'[a].pages >= member[a].pages
           /\ member[a].done => member'[a].done
           /\ member[a].joined => member'[a].joined
<1>1. ASSUME IInv, [Next]_vars, NEW a \in Accounts, NEW b \in Accounts
      PROVE  Fair(a, b)
  <2>1. /\ member \in [Accounts -> Row] /\ listed \in SUBSET Accounts
        /\ begun[a] \in Nat /\ member[a].pages \in Nat /\ member[b].pages \in Nat
    BY <1>1 DEF IInv, Types, Row
  <2>2. CASE UNCHANGED member
    BY <2>1, <2>2
  <2>3. CASE ContinueCycle
    <3>1. /\ member'[a].pages = member[a].pages /\ member'[a].done = member[a].done
          /\ member'[a].joined = (member[a].joined \/ a \in listed)
      BY <2>1, <2>3, JoinedKeeps DEF ContinueCycle
    <3>2. member'[a].pages >= member[a].pages /\ ~(member'[a].pages > member[a].pages)
      BY <2>1, <3>1
    <3> QED
      BY <3>1, <3>2, Zenon
  <2>4. CASE NewCycle
    <3> DEFINE Rows == [x \in Accounts |-> Absent]
    <3>1. Rows \in [Accounts -> Row] /\ Rows[a].pages = 0
      BY DEF Absent, Row
    <3>2. member' = Joined(Rows, listed)
      BY <2>4 DEF NewCycle
    <3>3. member'[a].pages = 0
      <4> HIDE DEF Rows
      <4> QED
        BY <2>1, <3>1, <3>2, JoinedKeeps
    <3> QED
      BY <2>1, <2>4, <3>3 DEF NewCycle
  <2>5. CASE ReadPage
    <3>1. /\ pc = "read" /\ current \in Accounts /\ ~member[current].done
          /\ member'[current].pages = member[current].pages + 1
          /\ member'[current].joined = member[current].joined
          /\ \A x \in Accounts \ {current} : member'[x] = member[x]
      BY <1>1, <2>5, ReadPageFacts
    <3>2. /\ PendingIn(member) = todo \cup {current}
          /\ \A x \in todo : begun[current] <= begun[x]
      BY <1>1, <3>1 DEF IInv, Plan
    <3>3. CASE a = current
      BY <2>1, <3>1, <3>2, <3>3
    <3>4. CASE a # current
      BY <2>1, <3>1, <3>4
    <3> QED
      BY <3>3, <3>4
  <2>6. CASE Start \/ Pick \/ PlanEnds \/ PageLimitReached \/ RunFails \/ UNCHANGED vars
    <3>1. UNCHANGED member
      BY <2>6 DEF Start, Pick, PlanEnds, PageLimitReached, RunFails, vars, stored
    <3> QED
      BY <2>2, <3>1
  <2> QED
    BY <1>1, <2>3, <2>4, <2>5, <2>6 DEF Next, PrepareCycle
<1>2. IInv /\ [Next]_vars => [\A a, b \in Accounts :
       /\ member'[a].pages > member[a].pages /\ b \in PendingIn(member)
            => begun[a] <= begun[b]
       /\ cycle = "open" =>
            /\ member'[a].pages >= member[a].pages
            /\ member[a].done => member'[a].done
            /\ member[a].joined => member'[a].joined]_vars
  BY <1>1
<1> QED
  BY <1>2, Invariance, PTL DEF Spec, LeastServedIsServed
=============================================================================
