---------------------------- MODULE LedgerProofs ----------------------------
(***************************************************************************)
(* Five inductive arguments, for any number of callers, accounts, keys and *)
(* calls.                                                                  *)
(*                                                                         *)
(* One effect per key.  A key is claimed by the insert that writes it:     *)
(* from then on no other open transaction and no committed row holds it.   *)
(* IInv says so of the rows in flight, which OneEffectPerKey does not      *)
(* mention.                                                                *)
(*                                                                         *)
(* Whole effects and their trail.  WholeInv says of every open transaction *)
(* what its rows are worth at the statement it has come to, that they      *)
(* clash with no committed row and with no other transaction, and that     *)
(* what a reversal cancels is committed and stands; and of the tables that *)
(* what reverses a leg is a leg of the reversal of its transfer.  Then a   *)
(* commit is whole whatever committed since its statements read.           *)
(*                                                                         *)
(* True answers.  Answers says what the rows, the work in flight and the   *)
(* answers were asked for; that a movement which was rechecked under its   *)
(* lock stays unreversed until its transaction ends; and that a status     *)
(* once told is never undone by a commit.                                  *)
(*                                                                         *)
(* True statements.  ReadInv says what a client that reads has been shown  *)
(* so far: rows that are still in the tables.  A sum over rows is a fold,  *)
(* so what it is of a union is shown of the least set of rows for which it *)
(* would fail: adding one row to a set adds its amount to the sum.         *)
(*                                                                         *)
(* Waits.  HoldInv says which rows and unique values a call holds at each  *)
(* statement.  A call that waits has a higher Rank than the one it waits   *)
(* for, so of any calls one of the lowest rank waits for none of them.     *)
(***************************************************************************)
EXTENDS FinancialApi, FiniteSetTheorems, FunctionTheorems, SequenceTheorems,
        WellFoundedInduction, TLAPS

Fields == {"accounts", "movements", "transfers", "openings", "audit"}

Shape ==
  /\ DOMAIN pc = Callers /\ DOMAIN req = Callers /\ DOMAIN work = Callers
  /\ \A c \in Callers : DOMAIN work[c] = Fields

Before == {"idle", "lookup", "original", "claim", "reread", "anchor", "register"}
Inserting == {"guard", "lock", "recheck", "policy", "index"}

Blank(w) == w.movements = {} /\ w.transfers = {}

\* What c may have written when its next statement is label.
MayBeAt(c, label) ==
  /\ label \in Before => Blank(work[c])
  /\ label \in Inserting /\ ~IsTransfer(c) => Blank(work[c])
  /\ label \in {"claim", "original"} => IsTransfer(c)

Unwritten == \A c \in Callers : MayBeAt(c, pc[c])

\* The same key twice in one table.
SameMovementKey(m, n) == m.key = n.key /\ m.key # NoKey

OneInFlight ==
  \A c \in Callers :
    /\ \A m, n \in work[c].movements : SameMovementKey(m, n) => m = n
    /\ \A t, u \in work[c].transfers : t = u

ClearOfTables ==
  \A c \in Callers :
    /\ \A m \in movements : \A n \in work[c].movements : ~SameMovementKey(m, n)
    /\ \A t \in transfers : \A u \in work[c].transfers : t.key # u.key

ClearOfOthers ==
  \A c, d \in Callers : c # d =>
    /\ \A m \in work[c].movements : \A n \in work[d].movements : ~SameMovementKey(m, n)
    /\ \A t \in work[c].transfers : \A u \in work[d].transfers : t.key # u.key

IInv ==
  /\ Shape
  /\ Unwritten
  /\ OneInFlight
  /\ ClearOfTables
  /\ ClearOfOthers
  /\ OneEffectPerKey

\* Nothing is written before the first call.
LEMMA InitInv == Init => IInv
  BY DEF Init, IInv, Shape, Fields, Unwritten, MayBeAt, Before, Inserting, Blank,
         IsTransfer, NoWork, OneInFlight, ClearOfTables, ClearOfOthers, OneEffectPerKey

\* A transaction that ends without a commit leaves the tables as they were and
\* takes its rows with it.
LEMMA RefuseKeeps ==
  ASSUME IInv, NEW c \in Callers, NEW kind, Refuse(c, kind)
  PROVE  IInv'
<1> USE DEF Refuse, Return, tables
<1>1. /\ work'[c] = NoWork /\ pc'[c] = "idle"
      /\ \A d \in Callers \ {c} : work'[d] = work[d] /\ pc'[d] = pc[d]
      /\ UNCHANGED <<movements, transfers, req>>
  BY DEF IInv, Shape
<1>2. Shape'
  BY DEF IInv, Shape, Fields, NoWork
<1>3. Unwritten'
  BY <1>1 DEF IInv, Unwritten, MayBeAt, Before, Inserting, Blank, IsTransfer, NoWork
<1>4. OneInFlight'
  BY <1>1 DEF IInv, OneInFlight, SameMovementKey, NoWork
<1>5. ClearOfTables'
  BY <1>1 DEF IInv, ClearOfTables, SameMovementKey, NoWork
<1>6. ClearOfOthers'
  BY <1>1 DEF IInv, ClearOfOthers, SameMovementKey, NoWork
<1>7. OneEffectPerKey'
  BY <1>1 DEF IInv, OneEffectPerKey
<1> QED
  BY <1>2, <1>3, <1>4, <1>5, <1>6, <1>7 DEF IInv

\* A statement that only reads goes to a label where its transaction may be.
LEMMA GotoKeeps ==
  ASSUME IInv, NEW c \in Callers, NEW label,
         Goto(c, label), UNCHANGED work, MayBeAt(c, label)
  PROVE  IInv'
<1> USE DEF Goto, tables
<1>1. Shape'
  BY DEF IInv, Shape
<1>2. Unwritten'
  BY DEF IInv, Shape, Unwritten, MayBeAt, IsTransfer
<1>3. OneInFlight' /\ ClearOfTables' /\ ClearOfOthers' /\ OneEffectPerKey'
  BY DEF IInv, OneInFlight, ClearOfTables, ClearOfOthers, OneEffectPerKey
<1> QED
  BY <1>1, <1>2, <1>3 DEF IInv

LEMMA BeginKeeps ==
  ASSUME IInv, NEW c \in Callers, NEW r, Begin(c, r)
  PROVE  IInv'
<1> USE DEF Begin, tables
<1>1. /\ Blank(work[c])
      /\ pc'[c] \in {"anchor", "lookup", "register"}
      /\ \A d \in Callers \ {c} : pc'[d] = pc[d] /\ req'[d] = req[d]
      /\ UNCHANGED <<movements, transfers, work>>
  BY DEF IInv, Shape, Unwritten, MayBeAt, Before, FirstStatement
<1>2. Shape'
  BY DEF IInv, Shape
<1>3. Unwritten'
  BY <1>1 DEF IInv, Unwritten, MayBeAt, Before, Inserting, Blank, IsTransfer
<1>4. OneInFlight' /\ ClearOfTables' /\ ClearOfOthers' /\ OneEffectPerKey'
  BY <1>1 DEF IInv, OneInFlight, ClearOfTables, ClearOfOthers, OneEffectPerKey
<1> QED
  BY <1>2, <1>3, <1>4 DEF IInv

LEMMA AskKeeps ==
  ASSUME IInv, NEW c \in Callers, Ask(c)
  PROVE  IInv'
  BY BeginKeeps DEF Ask

LEMMA ReadingStatementsKeep ==
  ASSUME IInv, NEW c \in Callers,
         Lookup(c) \/ Original(c) \/ Reread(c) \/ Guard(c) \/ Lock(c)
           \/ Recheck(c) \/ Policy(c)
  PROVE  IInv'
<1>0. MayBeAt(c, pc[c])
  BY DEF IInv, Unwritten
<1>1. CASE Lookup(c)
  <2>1. MayBeAt(c, AfterLookup(req[c].op))
    BY <1>0, <1>1 DEF Lookup, MayBeAt, Before, Inserting, AfterLookup, IsTransfer
  <2> QED
    BY <1>1, <2>1, RefuseKeeps, GotoKeeps DEF Lookup
<1>2. CASE Original(c)
  <2>1. MayBeAt(c, "claim")
    BY <1>0, <1>2 DEF Original, MayBeAt, Before, Inserting
  <2> QED
    BY <1>2, <2>1, RefuseKeeps, GotoKeeps DEF Original
<1>3. CASE Reread(c)
  BY <1>3, RefuseKeeps DEF Reread
<1>4. CASE Guard(c)
  <2>1. MayBeAt(c, "lock") /\ MayBeAt(c, "policy")
    BY <1>0, <1>4 DEF Guard, MayBeAt, Before, Inserting
  <2> QED
    BY <1>4, <2>1, RefuseKeeps, GotoKeeps DEF Guard
<1>5. CASE Lock(c)
  <2>1. MayBeAt(c, "recheck")
    BY <1>0, <1>5 DEF Lock, MayBeAt, Before, Inserting
  <2> QED
    BY <1>5, <2>1, GotoKeeps DEF Lock
<1>6. CASE Recheck(c)
  <2>1. MayBeAt(c, "policy")
    BY <1>0, <1>6 DEF Recheck, MayBeAt, Before, Inserting
  <2> QED
    BY <1>6, <2>1, RefuseKeeps, GotoKeeps DEF Recheck
<1>7. CASE Policy(c)
  <2>1. MayBeAt(c, "index")
    BY <1>0, <1>7 DEF Policy, MayBeAt, Before, Inserting
  <2> QED
    BY <1>7, <2>1, RefuseKeeps, GotoKeeps DEF Policy
<1> QED
  BY <1>1, <1>2, <1>3, <1>4, <1>5, <1>6, <1>7

\* A key is claimed by the transfer that its transaction inserts.
LEMMA ClaimKeeps ==
  ASSUME IInv, NEW c \in Callers, Claim(c)
  PROVE  IInv'
<1> DEFINE t0 == NewTransfer(c)
<1>0. MayBeAt(c, pc[c]) /\ pc[c] = "claim" /\ Blank(work[c]) /\ IsTransfer(c)
  BY DEF IInv, Unwritten, Claim, MayBeAt, Before
<1>1. CASE Refuse(c, "not_found")
  BY <1>1, RefuseKeeps
<1>2. CASE Goto(c, "reread") /\ UNCHANGED <<work, lock>>
  <2>1. MayBeAt(c, "reread")
    BY <1>0 DEF MayBeAt, Before, Inserting
  <2> QED
    BY <1>2, <2>1, GotoKeeps
<1>3. CASE /\ ~ \E row \in transfers : TransferClash(c, row)
           /\ \A d \in Callers \ {c} : ~AwaitsTransfer(c, d)
           /\ Goto(c, "guard")
           /\ work' = [work EXCEPT ![c] = WithTransfer(work[c], NewTransfer(c))]
  <2>0. t0.key = req[c].key
    BY DEF NewTransfer
  <2> HIDE DEF t0
  <2>1. /\ work' = [work EXCEPT ![c] = WithTransfer(work[c], t0)]
        /\ pc' = [pc EXCEPT ![c] = "guard"]
        /\ UNCHANGED <<movements, transfers, req>>
    BY <1>3 DEF Goto, tables, t0
  <2>2. /\ work'[c].movements = {} /\ work'[c].transfers = {t0}
        /\ DOMAIN work'[c] = Fields
        /\ \A d \in Callers \ {c} : work'[d] = work[d] /\ pc'[d] = pc[d]
        /\ pc'[c] = "guard"
    BY <1>0, <2>1 DEF IInv, Shape, Fields, WithTransfer, Blank
  <2>3. \A d \in Callers \ {c} : \A u \in work[d].transfers : u.key # t0.key
    BY <1>3, <2>0 DEF AwaitsTransfer, TransferClash
  <2>4. \A u \in transfers : u.key # t0.key
    BY <1>3, <2>0 DEF TransferClash
  <2>5. Shape'
    BY <2>1, <2>2 DEF IInv, Shape
  <2>6. Unwritten'
    BY <1>0, <2>1, <2>2 DEF IInv, Unwritten, MayBeAt, Before, Inserting, Blank, IsTransfer
  <2>7. OneInFlight'
    BY <2>2 DEF IInv, OneInFlight, SameMovementKey
  <2>8. ClearOfTables'
    BY <2>1, <2>2, <2>4 DEF IInv, ClearOfTables, SameMovementKey
  <2>9. ClearOfOthers'
    BY <2>2, <2>3 DEF IInv, ClearOfOthers, SameMovementKey
  <2>10. OneEffectPerKey'
    BY <2>1 DEF IInv, OneEffectPerKey
  <2> QED
    BY <2>5, <2>6, <2>7, <2>8, <2>9, <2>10 DEF IInv
<1> QED
  BY <1>1, <1>2, <1>3 DEF Claim

\* A key is claimed by the movement written alone; a leg claims none.
LEMMA IndexKeeps ==
  ASSUME IInv, NEW c \in Callers, Index(c)
  PROVE  IInv'
<1> DEFINE m0 == NewMovement(c)
<1>0. MayBeAt(c, pc[c]) /\ pc[c] = "index" /\ (~IsTransfer(c) => Blank(work[c]))
  BY DEF IInv, Unwritten, Index, MayBeAt, Inserting
<1>1. CASE \/ \E row \in movements : KeyClash(c, row)
           \/ \E row \in movements : ReversalClash(c, row)
  <2>1. req[c].op = "create" => MayBeAt(c, "reread")
    BY <1>0 DEF MayBeAt, Before, Inserting, IsTransfer
  <2> QED
    BY <1>1, <2>1, RefuseKeeps, GotoKeeps DEF Index
<1>2. CASE /\ ~ \E row \in movements : KeyClash(c, row)
           /\ ~ \E row \in movements : ReversalClash(c, row)
  <2>0. m0.key = IF IsTransfer(c) THEN NoKey ELSE req[c].key
    BY DEF NewMovement
  <2> HIDE DEF m0
  <2>1. /\ work' = [work EXCEPT ![c] = WithMovement(work[c], m0)]
        /\ pc' = [pc EXCEPT ![c] = IF LastLeg(c) THEN "audit" ELSE "guard"]
        /\ UNCHANGED <<movements, transfers, req>>
    BY <1>2 DEF Index, Goto, tables, m0
  <2>2. /\ work'[c].movements = work[c].movements \cup {m0}
        /\ work'[c].transfers = work[c].transfers
        /\ DOMAIN work'[c] = Fields
        /\ \A d \in Callers \ {c} : work'[d] = work[d] /\ pc'[d] = pc[d]
        /\ pc'[c] \in {"audit", "guard"} /\ (~IsTransfer(c) => pc'[c] = "audit")
    BY <1>0, <2>1 DEF IInv, Shape, Fields, WithMovement, LastLeg
  <2>3. \A d \in Callers \ {c} : \A n \in work[d].movements :
          ~SameMovementKey(m0, n) /\ ~SameMovementKey(n, m0)
    BY <2>0 DEF Index, AwaitsMovement, KeyClash, SameMovementKey
  <2>4. \A n \in movements : ~SameMovementKey(n, m0)
    BY <1>2, <2>0 DEF KeyClash, SameMovementKey
  <2>5. \A n \in work[c].movements : ~SameMovementKey(m0, n) /\ ~SameMovementKey(n, m0)
    BY <1>0, <2>0 DEF Blank, SameMovementKey
  <2>6. Shape'
    BY <2>1, <2>2 DEF IInv, Shape
  <2>7. Unwritten'
    BY <1>0, <2>1, <2>2 DEF IInv, Unwritten, MayBeAt, Before, Inserting, Blank, IsTransfer
  <2>8. OneInFlight'
    BY <2>2, <2>5 DEF IInv, OneInFlight, SameMovementKey
  <2>9. ClearOfTables'
    BY <2>1, <2>2, <2>4 DEF IInv, ClearOfTables, SameMovementKey
  <2>10. ClearOfOthers'
    BY <2>2, <2>3 DEF IInv, ClearOfOthers
  <2>11. OneEffectPerKey'
    BY <2>1 DEF IInv, OneEffectPerKey
  <2> QED
    BY <2>6, <2>7, <2>8, <2>9, <2>10, <2>11 DEF IInv
<1> QED
  BY <1>1, <1>2

\* An account, an opening balance and an audit event hold no key.
LEMMA KeylessInsertsKeep ==
  ASSUME IInv, NEW c \in Callers, Anchor(c) \/ Register(c) \/ Audit(c)
  PROVE  IInv'
<1>1. CASE Refuse(c, "not_found") \/ Refuse(c, "exists")
  BY <1>1, RefuseKeeps
<1>2. CASE /\ UNCHANGED lock
           /\ Goto(c, "audit") \/ Goto(c, "commit")
           /\ \/ work' = [work EXCEPT ![c] = WithOpening(work[c], NewOpening(c))]
              \/ work' = [work EXCEPT ![c] = WithAccount(work[c], req[c].from)]
              \/ work' = [work EXCEPT ![c] = WithAudit(work[c], AuditEvents(work[c]))]
  <2>1. /\ work'[c].movements = work[c].movements
        /\ work'[c].transfers = work[c].transfers
        /\ DOMAIN work'[c] = Fields
        /\ DOMAIN work' = Callers
        /\ \A d \in Callers \ {c} : work'[d] = work[d]
    BY <1>2 DEF IInv, Shape, Fields, WithOpening, WithAccount, WithAudit
  <2>2. /\ pc'[c] \in {"audit", "commit"}
        /\ \A d \in Callers \ {c} : pc'[d] = pc[d]
        /\ DOMAIN pc' = Callers
        /\ UNCHANGED <<movements, transfers, req>>
    BY <1>2 DEF IInv, Shape, Goto, tables
  <2>3. Shape'
    BY <2>1, <2>2 DEF IInv, Shape
  <2>4. Unwritten'
    BY <2>1, <2>2 DEF IInv, Unwritten, MayBeAt, Before, Inserting, Blank, IsTransfer
  <2>5. OneInFlight'
    BY <2>1 DEF IInv, OneInFlight
  <2>6. ClearOfTables'
    BY <2>1, <2>2 DEF IInv, ClearOfTables
  <2>7. ClearOfOthers'
    BY <2>1 DEF IInv, ClearOfOthers
  <2>8. OneEffectPerKey'
    BY <2>2 DEF IInv, OneEffectPerKey
  <2> QED
    BY <2>3, <2>4, <2>5, <2>6, <2>7, <2>8 DEF IInv
<1> QED
  BY <1>1, <1>2 DEF Anchor, Register, Audit

\* The rows of a transaction join tables that hold none of its keys.
LEMMA CommitKeeps ==
  ASSUME IInv, NEW c \in Callers, Commit(c)
  PROVE  IInv'
<1>1. /\ work'[c] = NoWork /\ pc'[c] = "idle"
      /\ \A d \in Callers \ {c} : work'[d] = work[d] /\ pc'[d] = pc[d]
      /\ DOMAIN work' = Callers /\ DOMAIN pc' = Callers /\ UNCHANGED req
      /\ movements' = movements \cup work[c].movements
      /\ transfers' = transfers \cup work[c].transfers
  BY DEF IInv, Shape, Commit, Store, Return
<1>2. Shape'
  BY <1>1 DEF IInv, Shape, Fields, NoWork
<1>3. Unwritten'
  BY <1>1 DEF IInv, Unwritten, MayBeAt, Before, Inserting, Blank, IsTransfer, NoWork
<1>4. OneInFlight'
  BY <1>1 DEF IInv, OneInFlight, NoWork
<1>5. ClearOfTables'
  BY <1>1 DEF IInv, ClearOfTables, ClearOfOthers, NoWork
<1>6. ClearOfOthers'
  BY <1>1 DEF IInv, ClearOfOthers, NoWork
<1>7. OneEffectPerKey'
  <2>1. \A m, n \in movements' : SameMovementKey(m, n) => m = n
    BY <1>1 DEF IInv, OneInFlight, ClearOfTables, OneEffectPerKey, SameMovementKey
  <2>2. \A t, u \in transfers' : t.key = u.key => t = u
    BY <1>1 DEF IInv, OneInFlight, ClearOfTables, OneEffectPerKey
  <2> QED
    BY <2>1, <2>2 DEF OneEffectPerKey, SameMovementKey
<1> QED
  BY <1>2, <1>3, <1>4, <1>5, <1>6, <1>7 DEF IInv

\* IInv is inductive.
LEMMA NextKeeps == IInv /\ [Next]_vars => IInv'
<1> SUFFICES ASSUME IInv, [Next]_vars PROVE IInv'
  OBVIOUS
<1>1. CASE UNCHANGED vars
  BY <1>1 DEF vars, tables, IInv, Shape, Unwritten, MayBeAt, IsTransfer, OneInFlight,
              ClearOfTables, ClearOfOthers, OneEffectPerKey
<1>2. ASSUME NEW c \in Callers, Ask(c) \/ Statement(c) \/ Cut(c)
      PROVE  IInv'
  BY <1>2, AskKeeps, ReadingStatementsKeep, ClaimKeeps, IndexKeeps,
     KeylessInsertsKeep, CommitKeeps, RefuseKeeps DEF Statement, Cut
<1> QED
  BY <1>1, <1>2 DEF Next, Done

\* ADR-0020 and ADR-0021: whatever retries race, and however many connections
\* serve them, a key names one movement and one transfer at most.
THEOREM OneEffectPerKeyHolds == Spec => []OneEffectPerKey
<1>1. IInv => OneEffectPerKey
  BY DEF IInv
<1> QED
  BY InitInv, NextKeeps, <1>1, PTL DEF Spec
-----------------------------------------------------------------------------
(* Whole effects *)

NothingYet == Before \cup {"read"}
Writing == Inserting \cup {"audit", "commit"}

SameReversal(m, n) == m.reverses = n.reverses /\ m.reverses # None

\* A standard movement that m cancels exactly.
Cancels(m) ==
  \E o \in Standard(movements) :
    o.id = m.reverses /\ o.account = m.account /\ o.amount + m.amount = 0

\* No committed transfer has this movement as a leg.
NoLeg(id) == \A t \in transfers : \A i \in 1..2 : t.legs[i] # id

\* The legs of t are there; those of a reversal reverse.
LegsThere(t) ==
  \E m \in movements : \E n \in movements :
    /\ m.id = t.legs[1] /\ n.id = t.legs[2]
    /\ m.amount + n.amount = 0 /\ m.account # n.account
    /\ t.reverses # None => m.reverses # None /\ n.reverses # None

\* What reverses leg i of t is a leg of the reversal of t.
ReversedWhole(t, i, r) ==
  \E u \in transfers :
    /\ u.reverses = t.id /\ r.id = u.legs[3 - i]
    /\ \E n \in movements : n.id = u.legs[i] /\ n.reverses = t.legs[3 - i]

Ledgered ==
  /\ IsFiniteSet(movements) /\ IsFiniteSet(transfers)
  /\ \A m \in movements : m.id \in Nat \ {0} /\ m.amount \in Int
  /\ \A m, n \in movements : m.id = n.id \/ SameReversal(m, n) => m = n
  /\ \A r \in movements : r.reverses # None => Cancels(r)

Transferred ==
  /\ \A t \in transfers : t.id \in Nat \ {0} /\ LegsThere(t)
  /\ \A t, u \in transfers : t.id = u.id => t = u
  /\ \A t, u \in transfers : \A i, j \in 1..2 : t.legs[i] = u.legs[j] => t = u
  /\ \A t \in transfers : \A i \in 1..2 : \A r \in movements :
       r.reverses = t.legs[i] => ReversedWhole(t, i, r)

\* What c was asked when it is at p, for as long as its call runs.
Asked(c, p) ==
  p \notin {"idle", "read"} =>
    /\ req[c].op \in Ops /\ req[c].amount \in Int
    /\ req[c].op = "transfer" => req[c].target = None /\ req[c].from # req[c].to
    /\ p \in Inserting \cup {"lookup"} => req[c].op \notin {"open", "account"}
    /\ p \in {"anchor", "register"} => ~IsTransfer(c)
    /\ p \in {"original", "claim"} => IsTransfer(c)
    /\ p \in {"lock", "recheck"} => Undoes(c)
    /\ p = "register" => req[c].from \notin Founded

\* The rows that c inserted are new.
RowsNew(c) ==
  /\ IsFiniteSet(work[c].movements) /\ IsFiniteSet(work[c].transfers)
  /\ \A m \in work[c].movements :
       /\ m.id \in Nat \ {0} /\ m.amount \in Int
       /\ m.reverses # None => Cancels(m)
       /\ \A n \in movements : m.id # n.id /\ ~SameReversal(m, n)
       /\ \A n \in work[c].movements : m.id = n.id \/ SameReversal(m, n) => m = n
  /\ \A t \in work[c].transfers :
       /\ t.id \in Nat \ {0} /\ \A u \in transfers : t.id # u.id
       /\ \A i \in 1..2 : t.legs[i] \in Nat \ {0} /\ \A n \in movements : t.legs[i] # n.id

\* m is leg i of the transfer t that c inserts.
LegOf(c, t, m, i) ==
  /\ m.id = t.legs[i]
  /\ IF req[c].op = "transfer"
     THEN /\ m.reverses = None
          /\ m.account = IF i = 1 THEN req[c].from ELSE req[c].to
          /\ m.amount = IF i = 1 THEN -req[c].amount ELSE req[c].amount
     ELSE \E o \in Standard(transfers) : \E n \in movements :
            /\ o.id = req[c].target /\ n.id = o.legs[3 - i] /\ m.reverses = n.id
            /\ m.account = n.account /\ m.amount + n.amount = 0

OneLeg(c, t) == \E m \in work[c].movements : work[c].movements = {m} /\ LegOf(c, t, m, 1)
BothLegs(c, t) ==
  \E m \in work[c].movements : \E n \in work[c].movements :
    work[c].movements = {m, n} /\ LegOf(c, t, m, 1) /\ LegOf(c, t, n, 2)

\* What the transaction of c holds of its transfer, and of a movement alone.
Alone(c, p) ==
  ~IsTransfer(c) =>
    /\ work[c].transfers = {}
    /\ \A m, n \in work[c].movements : m = n
    /\ \A m \in work[c].movements : m.reverses # None => NoLeg(m.reverses)
    /\ p \in Inserting => work[c].movements = {}

Pair(c, p) ==
  IsTransfer(c) /\ p \in Writing =>
    \E t \in work[c].transfers :
      /\ work[c].transfers = {t} /\ t.reverses = req[c].target
      /\ t.legs[1] # t.legs[2]
      /\ IF p \in Inserting THEN work[c].movements = {} \/ OneLeg(c, t)
                            ELSE BothLegs(c, t)

\* What c is about to reverse is there to be reversed.
Aims(c, p) ==
  /\ req[c].op = "untransfer" /\ p \in Writing \cup {"claim"} =>
       HasStandard(transfers, req[c].target)
  /\ Undoes(c) /\ p \in {"lock", "recheck", "policy", "index"} =>
       HasStandard(movements, LegTarget(c))
  /\ req[c].op = "reverse" /\ p = "index" => NoLeg(req[c].target)

\* The events of a transaction are written before it commits.
Events(c, p) ==
  /\ p \in NothingYet => Blank(work[c])
  /\ work[c].audit = IF p = "commit" THEN AuditEvents(work[c]) ELSE {}
  /\ work[c].accounts \cap Founded = {}

Stage(c, p) == Asked(c, p) /\ Alone(c, p) /\ Pair(c, p) /\ Aims(c, p) /\ Events(c, p)

Transaction(c) == RowsNew(c) /\ Stage(c, pc[c])

\* Two open transactions neither draw the same ids nor reverse the same movement.
Apart(c, d) ==
  /\ \A m \in work[c].movements : \A n \in work[d].movements :
       m.id # n.id /\ ~SameReversal(m, n)
  /\ \A m \in work[c].movements : \A t \in work[d].transfers : \A i \in 1..2 :
       m.id # t.legs[i]
  /\ \A t \in work[c].transfers : \A u \in work[d].transfers :
       t.id # u.id /\ \A i, j \in 1..2 : t.legs[i] # u.legs[j]

Transactions ==
  /\ \A c \in Callers : Transaction(c)
  /\ \A c, d \in Callers : c # d => Apart(c, d)

Trail == Founded \subseteq accounts /\ AuditMatchesLedger

WholeInv == Shape /\ Ledgered /\ Transferred /\ Transactions /\ Trail

-----------------------------------------------------------------------------
(* New ids, and rows by their id *)

LEMMA FreshIsNew ==
  ASSUME NEW used, IsFiniteSet(used)
  PROVE  Fresh(used) \in Nat \ {0} /\ Fresh(used) \notin used
<1> DEFINE k == Cardinality(used)
           some == 1..(k + 1)
<1>1. k \in Nat
  BY FS_CardinalityType
<1>2. IsFiniteSet(some) /\ Cardinality(some) = k + 1
  BY <1>1, FS_Interval
<1>3. ~(some \subseteq used)
  <2> SUFFICES ASSUME some \in SUBSET used PROVE FALSE
    OBVIOUS
  <2>1. Cardinality(some) <= k
    BY FS_Subset
  <2> QED
    BY <1>1, <1>2, <2>1
<1>4. PICK n \in some : n \notin used
  BY <1>3
<1>5. Fresh(used) \in some /\ Fresh(used) \notin used
  BY <1>4 DEF Fresh
<1> QED
  BY <1>1, <1>5

LEMMA IdsFinite ==
  ASSUME NEW rows, IsFiniteSet(rows)
  PROVE  IsFiniteSet(Ids(rows))
<1> DEFINE f == [row \in rows |-> row.id]
<1>1. f \in Surjection(rows, Ids(rows))
  BY DEF Surjection, Ids
<1> QED
  BY <1>1, FS_Surjection

LEMMA LegIdsFinite ==
  ASSUME NEW rows, IsFiniteSet(rows)
  PROVE  IsFiniteSet(LegIds(rows))
<1> DEFINE pairs == {{t.legs[1], t.legs[2]} : t \in rows}
           f == [t \in rows |-> {t.legs[1], t.legs[2]}]
<1>1. f \in Surjection(rows, pairs)
  BY DEF Surjection
<1>2. IsFiniteSet(pairs)
  <2> HIDE DEF f, pairs
  <2> QED
    BY <1>1, FS_Surjection
<1>3. \A S \in pairs : IsFiniteSet(S)
  <2>1. ASSUME NEW x, NEW y
        PROVE  IsFiniteSet({x, y})
    <3>1. IsFiniteSet({x}) /\ {x, y} = {x} \cup {y}
      BY FS_Singleton
    <3> QED
      BY <3>1, FS_AddElement
  <2> QED
    BY <2>1
<1>4. IsFiniteSet(UNION pairs)
  <2> HIDE DEF pairs
  <2> QED
    BY <1>2, <1>3, FS_UNION
<1> QED
  BY <1>4 DEF LegIds

LEMMA UsedIdsFinite ==
  ASSUME WholeInv
  PROVE  IsFiniteSet(UsedMovementIds) /\ IsFiniteSet(UsedTransferIds)
<1>1. /\ IsFiniteSet(movements) /\ IsFiniteSet(transfers)
      /\ \A c \in Callers : IsFiniteSet(work[c].movements) /\ IsFiniteSet(work[c].transfers)
  BY DEF WholeInv, Ledgered, Transferred, Transactions, Transaction, RowsNew
<1> DEFINE ms == {work[c].movements : c \in Callers}
           ts == {work[c].transfers : c \in Callers}
<1>2. IsFiniteSet(ms) /\ IsFiniteSet(ts)
  <2> DEFINE f == [c \in Callers |-> work[c].movements]
             g == [c \in Callers |-> work[c].transfers]
  <2>1. f \in Surjection(Callers, ms) /\ g \in Surjection(Callers, ts)
    BY DEF Surjection
  <2> HIDE DEF f, g, ms, ts
  <2> QED
    BY <2>1, CallersAssumption, FS_Surjection
<1>3. (\A S \in ms : IsFiniteSet(S)) /\ (\A S \in ts : IsFiniteSet(S))
  BY <1>1
<1>4. IsFiniteSet(UNION ms) /\ IsFiniteSet(UNION ts)
  <2> HIDE DEF ms, ts
  <2> QED
    BY <1>2, <1>3, FS_UNION
<1>5. IsFiniteSet(AllMovements) /\ IsFiniteSet(AllTransfers)
  <2> HIDE DEF ms, ts
  <2>1. AllMovements = movements \cup UNION ms /\ AllTransfers = transfers \cup UNION ts
    BY DEF AllMovements, AllTransfers, ms, ts
  <2> QED
    BY <1>1, <1>4, <2>1, FS_Union
<1>6. /\ IsFiniteSet(Ids(AllMovements)) /\ IsFiniteSet(Ids(AllTransfers))
      /\ IsFiniteSet(LegIds(AllTransfers))
  BY <1>5, IdsFinite, LegIdsFinite
<1> QED
  BY <1>6, FS_Union DEF UsedMovementIds, UsedTransferIds

\* No row, stored or under way, has an id that is not used.
LEMMA UnusedId ==
  ASSUME NEW id, id \notin UsedMovementIds
  PROVE  /\ \A m \in movements : m.id # id
         /\ \A d \in Callers : \A m \in work[d].movements : m.id # id
         /\ \A t \in transfers : \A i \in 1..2 : t.legs[i] # id
         /\ \A d \in Callers : \A t \in work[d].transfers : \A i \in 1..2 : t.legs[i] # id
<1>1. \A m \in AllMovements : m.id # id
  BY DEF UsedMovementIds, Ids
<1>2. \A t \in AllTransfers : t.legs[1] # id /\ t.legs[2] # id
  BY DEF UsedMovementIds, LegIds
<1>3. /\ movements \subseteq AllMovements /\ transfers \subseteq AllTransfers
      /\ \A d \in Callers : work[d].movements \subseteq AllMovements
      /\ \A d \in Callers : work[d].transfers \subseteq AllTransfers
  BY DEF AllMovements, AllTransfers
<1>4. \A i \in 1..2 : i = 1 \/ i = 2
  OBVIOUS
<1> QED
  BY <1>1, <1>2, <1>3, <1>4

LEMMA UnusedTransferId ==
  ASSUME NEW id, id \notin UsedTransferIds
  PROVE  /\ \A t \in transfers : t.id # id
         /\ \A d \in Callers : \A t \in work[d].transfers : t.id # id
<1>1. \A t \in AllTransfers : t.id # id
  BY DEF UsedTransferIds, Ids
<1>2. /\ transfers \subseteq AllTransfers
      /\ \A d \in Callers : work[d].transfers \subseteq AllTransfers
  BY DEF AllTransfers
<1> QED
  BY <1>1, <1>2

LEMMA ByIdIs ==
  ASSUME NEW rows, NEW row \in rows, \A other \in rows : other.id = row.id => other = row
  PROVE  ById(rows, row.id) = row
BY DEF ById

LEMMA MovementIs ==
  ASSUME Ledgered, NEW m \in movements
  PROVE  ById(movements, m.id) = m
BY ByIdIs DEF Ledgered

LEMMA TransferIs ==
  ASSUME Transferred, NEW t \in transfers
  PROVE  ById(transfers, t.id) = t
BY ByIdIs DEF Transferred

LEMMA LegsDiffer ==
  ASSUME Ledgered, Transferred, NEW t \in transfers
  PROVE  t.legs[1] # t.legs[2]
BY DEF Ledgered, Transferred, LegsThere

-----------------------------------------------------------------------------
(* Steps that store nothing *)

\* While the tables stay as they are, only the transaction of c can change.
LEMMA LocalStep ==
  ASSUME WholeInv, NEW c \in Callers, UNCHANGED tables, Shape',
         \A d \in Callers \ {c} : work'[d] = work[d] /\ pc'[d] = pc[d] /\ req'[d] = req[d],
         Transaction(c)',
         \A d \in Callers \ {c} : Apart(c, d)' /\ Apart(d, c)'
  PROVE  WholeInv'
<1>1. UNCHANGED <<accounts, movements, transfers, openings, audit>>
  BY DEF tables
<1>2. Ledgered' /\ Transferred'
  BY <1>1 DEF WholeInv, Ledgered, Transferred, Cancels, Standard, LegsThere, ReversedWhole,
              SameReversal
<1>3. Trail'
  BY <1>1 DEF WholeInv, Trail, AuditMatchesLedger
<1>4. ASSUME NEW d \in Callers \ {c}
      PROVE  Transaction(d)'
  <2>1. /\ Transaction(d)
        /\ UNCHANGED <<movements, transfers>>
        /\ work'[d] = work[d] /\ pc'[d] = pc[d] /\ req'[d] = req[d]
    BY <1>1 DEF WholeInv, Transactions
  <2>2. RowsNew(d)'
    BY <2>1 DEF Transaction, RowsNew, Cancels, Standard, SameReversal
  <2>3. Asked(d, pc[d])' /\ Events(d, pc[d])'
    BY <2>1 DEF Transaction, Stage, Asked, IsTransfer, Undoes, Events
  <2>4. Alone(d, pc[d])'
    BY <2>1 DEF Transaction, Stage, Alone, IsTransfer, NoLeg
  <2>5. Pair(d, pc[d])'
    BY <2>1 DEF Transaction, Stage, Pair, IsTransfer, OneLeg, BothLegs, LegOf, Standard
  <2>6. Aims(d, pc[d])'
    <3>1. LegTarget(d)' = LegTarget(d)
      BY <2>1 DEF LegTarget, ById
    <3>2. Aims(d, pc[d])
      BY <2>1 DEF Transaction, Stage
    <3> QED
      BY <2>1, <3>1, <3>2 DEF Aims, Undoes, HasStandard, Standard, NoLeg
  <2> QED
    BY <2>2, <2>3, <2>4, <2>5, <2>6 DEF Transaction, Stage
<1>5. ASSUME NEW d \in Callers, NEW e \in Callers, d # e
      PROVE  Apart(d, e)'
  <2>1. CASE d = c \/ e = c
    BY <1>5, <2>1
  <2>2. CASE d # c /\ e # c
    <3>1. Apart(d, e) /\ work'[d] = work[d] /\ work'[e] = work[e]
      BY <1>5, <2>2 DEF WholeInv, Transactions
    <3> QED
      BY <3>1 DEF Apart, SameReversal
  <2> QED
    BY <2>1, <2>2
<1> QED
  BY <1>2, <1>3, <1>4, <1>5 DEF WholeInv, Transactions

\* A transaction whose movements and transfers are as they were is as new as
\* it was.
LEMMA RowsKept ==
  ASSUME WholeInv, NEW c \in Callers, UNCHANGED <<movements, transfers>>,
         work'[c].movements = work[c].movements, work'[c].transfers = work[c].transfers,
         \A d \in Callers \ {c} : work'[d] = work[d]
  PROVE  /\ RowsNew(c)'
         /\ \A d \in Callers \ {c} : Apart(c, d)' /\ Apart(d, c)'
<1>1. RowsNew(c)'
  BY DEF WholeInv, Transactions, Transaction, RowsNew, Cancels, Standard, SameReversal
<1>2. ASSUME NEW d \in Callers \ {c}
      PROVE  Apart(c, d)' /\ Apart(d, c)'
  <2>1. Apart(c, d) /\ Apart(d, c) /\ work'[d] = work[d]
    BY DEF WholeInv, Transactions
  <2> QED
    BY <2>1 DEF Apart, SameReversal
<1> QED
  BY <1>1, <1>2

\* A caller without a transaction may be idle, or read.
LEMMA NothingStaged ==
  ASSUME NEW c \in Callers, NEW p \in {"idle", "read"},
         work'[c] = NoWork, pc'[c] = p
  PROVE  Transaction(c)'
<1>1. RowsNew(c)'
  BY FS_EmptySet DEF RowsNew, NoWork
<1>2. Stage(c, p)'
  BY DEF Stage, Asked, Alone, Pair, Aims, Events, NoWork, NothingYet, Before, Writing,
         Inserting, AuditEvents, Blank
<1> QED
  BY <1>1, <1>2 DEF Transaction

LEMMA NoRowsApart ==
  ASSUME NEW c \in Callers, NEW d \in Callers, work'[c] = NoWork
  PROVE  Apart(c, d)' /\ Apart(d, c)'
BY DEF Apart, NoWork

LEMMA RefuseKeepsWhole ==
  ASSUME WholeInv, NEW c \in Callers, NEW kind, Refuse(c, kind)
  PROVE  WholeInv'
<1>1. /\ work'[c] = NoWork /\ pc'[c] = "idle" /\ UNCHANGED tables
      /\ \A d \in Callers \ {c} : work'[d] = work[d] /\ pc'[d] = pc[d] /\ req'[d] = req[d]
  BY DEF WholeInv, Shape, Refuse, Return
<1>2. Shape'
  BY <1>1 DEF WholeInv, Shape, Fields, NoWork, Refuse, Return
<1> QED
  BY <1>1, <1>2, NothingStaged, NoRowsApart, LocalStep

\* A statement that only reads goes on to where its transaction may be.
LEMMA GotoKeepsWhole ==
  ASSUME WholeInv, NEW c \in Callers, NEW p, Goto(c, p), UNCHANGED work, Stage(c, p)
  PROVE  WholeInv'
<1>1. /\ UNCHANGED <<movements, transfers, req, work>> /\ UNCHANGED tables /\ pc'[c] = p
      /\ \A d \in Callers \ {c} : pc'[d] = pc[d]
  BY DEF WholeInv, Shape, Goto, tables
<1>2. Shape'
  BY DEF WholeInv, Shape, Goto
<1>3. RowsNew(c)' /\ \A d \in Callers \ {c} : Apart(c, d)' /\ Apart(d, c)'
  BY <1>1, RowsKept
<1>4. Stage(c, p)'
  <2>1. Asked(c, p)' /\ Events(c, p)'
    BY <1>1 DEF Stage, Asked, IsTransfer, Undoes, Events
  <2>2. Alone(c, p)'
    BY <1>1 DEF Stage, Alone, IsTransfer, NoLeg
  <2>3. Pair(c, p)'
    BY <1>1 DEF Stage, Pair, IsTransfer, OneLeg, BothLegs, LegOf, Standard
  <2>4. Aims(c, p)'
    BY <1>1 DEF Stage, Aims, Undoes, HasStandard, Standard, LegTarget, ById, NoLeg
  <2> QED
    BY <2>1, <2>2, <2>3, <2>4 DEF Stage
<1>5. Transaction(c)'
  BY <1>1, <1>3, <1>4 DEF Transaction
<1> QED
  BY <1>1, <1>2, <1>3, <1>5, LocalStep

\* A request that a store can be asked for.
Acceptable(r) ==
  /\ r.op \in Ops /\ r.amount \in Int
  /\ r.op = "transfer" => r.target = None /\ r.from # r.to
  /\ r.op = "account" => r.from \notin accounts

LEMMA BeginKeepsWhole ==
  ASSUME WholeInv, NEW c \in Callers, NEW r, Begin(c, r), Acceptable(r)
  PROVE  WholeInv'
<1>1. /\ UNCHANGED tables /\ UNCHANGED <<movements, transfers>> /\ UNCHANGED work
      /\ pc[c] = "idle" /\ req'[c] = r /\ pc'[c] = FirstStatement(r.op)
      /\ \A d \in Callers \ {c} : pc'[d] = pc[d] /\ req'[d] = req[d]
  BY DEF WholeInv, Shape, Begin, tables
<1>2. Shape'
  BY DEF WholeInv, Shape, Begin
<1>3. RowsNew(c)' /\ \A d \in Callers \ {c} : Apart(c, d)' /\ Apart(d, c)'
  BY <1>1, RowsKept
<1>4. Blank(work[c]) /\ work[c].audit = {} /\ work[c].accounts \cap Founded = {}
  BY <1>1 DEF WholeInv, Transactions, Transaction, Stage, Events, NothingYet, Before
<1>5. Founded \subseteq accounts
  BY DEF WholeInv, Trail
<1>6. PICK p : p = FirstStatement(r.op)
  OBVIOUS
<1>7. /\ p \in {"register", "anchor", "lookup"}
      /\ p = "register" => r.op = "account"
      /\ p = "anchor" => r.op = "open"
      /\ p = "lookup" => r.op \notin {"open", "account"}
  BY <1>6 DEF FirstStatement
<1>8. Stage(c, p)'
  <2>0. p \notin {"idle", "read", "original", "claim", "lock", "recheck"} \cup Inserting
    BY <1>7 DEF Inserting
  <2>1. Asked(c, p)'
    <3>1. r.op \in Ops /\ r.amount \in Int
      BY DEF Acceptable
    <3>2. r.op = "transfer" => r.target = None /\ r.from # r.to
      BY DEF Acceptable
    <3>3. p = "register" => r.from \notin Founded
      BY <1>5, <1>7 DEF Acceptable
    <3>4. p # "lookup" => r.op \notin {"transfer", "untransfer"}
      BY <1>7
    <3> QED
      BY <1>1, <1>7, <2>0, <3>1, <3>2, <3>3, <3>4 DEF Asked, IsTransfer
  <2>2. Alone(c, p)' /\ Pair(c, p)' /\ Aims(c, p)' /\ Events(c, p)'
    BY <1>1, <1>4, <1>7 DEF Alone, Pair, Aims, Events, Blank, NothingYet, Before, Writing,
                            Inserting
  <2> QED
    BY <2>1, <2>2 DEF Stage
<1>9. Transaction(c)'
  BY <1>1, <1>3, <1>8, <1>6 DEF Transaction
<1> QED
  BY <1>1, <1>2, <1>3, <1>9, LocalStep

LEMMA AskKeepsWhole ==
  ASSUME WholeInv, NEW c \in Callers, Ask(c)
  PROVE  WholeInv'
<1>0. PICK r \in Requests : \E t \in Targets(r.op) :
        Names([r EXCEPT !.target = t]) /\ Begin(c, [r EXCEPT !.target = t])
  BY DEF Ask
<1>1. PICK t \in Targets(r.op) :
        Names([r EXCEPT !.target = t]) /\ Begin(c, [r EXCEPT !.target = t])
  BY <1>0
<1> DEFINE named == [r EXCEPT !.target = t]
<1>2. /\ named.op = r.op /\ named.amount = r.amount /\ named.from = r.from
      /\ named.to = r.to /\ named.target = t
      /\ r.op \in Ops /\ r.amount \in Int /\ (r.op = "transfer" => r.from # r.to)
  BY RequestsAssumption DEF IsRequest
<1>3. Names(named) /\ Begin(c, named)
  BY <1>1
<1> HIDE DEF named
<1>4. Acceptable(named)
  BY <1>2, <1>3 DEF Names, Targets, Acceptable, UsedAccountIds
<1> QED
  BY <1>3, <1>4, BeginKeepsWhole


-----------------------------------------------------------------------------
(* Statements that read *)

LEMMA StageOf ==
  ASSUME WholeInv, NEW c \in Callers
  PROVE  Stage(c, pc[c])
BY DEF WholeInv, Transactions, Transaction

LEMMA LookupKeepsWhole ==
  ASSUME WholeInv, NEW c \in Callers, Lookup(c)
  PROVE  WholeInv'
<1> DEFINE p == AfterLookup(req[c].op)
<1>1. CASE RowsWithKey(c) # {}
  BY <1>1, RefuseKeepsWhole DEF Lookup
<1>2. CASE RowsWithKey(c) = {}
  <2>1. Stage(c, "lookup") /\ Goto(c, p) /\ UNCHANGED work
    BY <1>2, StageOf DEF Lookup
  <2>2. /\ p \in {"claim", "original", "guard"}
        /\ p \in {"claim", "original"} => IsTransfer(c)
        /\ p = "claim" => req[c].op = "transfer"
        /\ p = "guard" => ~IsTransfer(c)
    BY <2>1 DEF Stage, Asked, Ops, AfterLookup, IsTransfer, Inserting
  <2> HIDE DEF p
  <2>3. Blank(work[c]) /\ work[c].audit = {} /\ work[c].accounts \cap Founded = {}
    BY <2>1 DEF Stage, Events, NothingYet, Before
  <2>4. Asked(c, p)
    BY <2>1, <2>2 DEF Stage, Asked, Inserting
  <2>5. Alone(c, p) /\ Pair(c, p) /\ Aims(c, p) /\ Events(c, p)
    BY <2>2, <2>3 DEF Alone, Pair, Aims, Events, Blank, Writing, Inserting, IsTransfer
  <2> QED
    BY <2>1, <2>4, <2>5, GotoKeepsWhole DEF Stage
<1> QED
  BY <1>1, <1>2

LEMMA OriginalKeepsWhole ==
  ASSUME WholeInv, NEW c \in Callers, Original(c)
  PROVE  WholeInv'
<1>1. CASE \/ ~HasStandard(transfers, req[c].target)
           \/ Reversals(transfers, req[c].target) # {}
  BY <1>1, RefuseKeepsWhole DEF Original
<1>2. CASE /\ HasStandard(transfers, req[c].target)
           /\ Reversals(transfers, req[c].target) = {}
  <2>1. Stage(c, "original") /\ Goto(c, "claim") /\ UNCHANGED work
    BY <1>2, StageOf DEF Original
  <2>2. Asked(c, "claim")
    BY <2>1 DEF Stage, Asked, Inserting
  <2>3. Blank(work[c]) /\ work[c].audit = {} /\ work[c].accounts \cap Founded = {}
    BY <2>1 DEF Stage, Events, NothingYet, Before
  <2>4. Alone(c, "claim") /\ Pair(c, "claim") /\ Aims(c, "claim") /\ Events(c, "claim")
    BY <1>2, <2>3 DEF Alone, Pair, Aims, Events, Blank, Writing, Inserting
  <2> QED
    BY <2>1, <2>2, <2>4, GotoKeepsWhole DEF Stage
<1> QED
  BY <1>1, <1>2

\* A transaction that wrote nothing may read the winner of its key.
LEMMA RereadStage ==
  ASSUME NEW c \in Callers, NEW p \in {"claim", "index"}, Stage(c, p), Blank(work[c])
  PROVE  Stage(c, "reread")
<1>1. Asked(c, "reread") /\ Events(c, "reread")
  BY DEF Stage, Asked, Events, Inserting
<1>2. Alone(c, "reread") /\ Pair(c, "reread") /\ Aims(c, "reread")
  BY DEF Alone, Pair, Aims, Blank, Writing, Inserting
<1> QED
  BY <1>1, <1>2 DEF Stage

\* The statements before the insert of a movement find its transaction the same.
LEMMA InsertingStage ==
  ASSUME NEW c \in Callers, NEW p \in Inserting, NEW q \in Inserting, Stage(c, p),
         q \in {"lock", "recheck"} => Undoes(c),
         Undoes(c) /\ q # "guard" => HasStandard(movements, LegTarget(c)),
         req[c].op = "reverse" /\ q = "index" => NoLeg(req[c].target)
  PROVE  Stage(c, q)
<1>1. Asked(c, q) /\ Events(c, q)
  BY DEF Stage, Asked, Events, Inserting, NothingYet, Before
<1>2. Alone(c, q)
  BY DEF Stage, Alone
<1>3. Pair(c, q)
  BY DEF Stage, Pair, Writing
<1>4. Aims(c, q)
  BY DEF Stage, Aims, Writing, Inserting
<1> QED
  BY <1>1, <1>2, <1>3, <1>4 DEF Stage

LEMMA GuardKeepsWhole ==
  ASSUME WholeInv, NEW c \in Callers, Guard(c)
  PROVE  WholeInv'
<1>1. CASE \E kind : Refuse(c, kind)
  BY <1>1, RefuseKeepsWhole
<1>2. CASE /\ ~(Undoes(c) /\ ~HasStandard(movements, LegTarget(c)))
           /\ Goto(c, IF Undoes(c) THEN "lock" ELSE "policy")
           /\ UNCHANGED work
  <2> DEFINE q == IF Undoes(c) THEN "lock" ELSE "policy"
  <2>1. Stage(c, "guard")
    BY StageOf DEF Guard
  <2>2. /\ q \in Inserting /\ q # "index" /\ "guard" \in Inserting
        /\ q \in {"lock", "recheck"} => Undoes(c)
    BY DEF Inserting
  <2> HIDE DEF q
  <2>3. Stage(c, q)
    BY <1>2, <2>1, <2>2, InsertingStage
  <2> QED
    BY <1>2, <2>3, GotoKeepsWhole DEF q
<1> QED
  BY <1>1, <1>2 DEF Guard

LEMMA LockKeepsWhole ==
  ASSUME WholeInv, NEW c \in Callers, Lock(c)
  PROVE  WholeInv'
<1>1. Stage(c, "lock") /\ Goto(c, "recheck") /\ UNCHANGED work
  BY StageOf DEF Lock
<1>2. Undoes(c) /\ HasStandard(movements, LegTarget(c))
  BY <1>1 DEF Stage, Asked, Aims
<1>3. Stage(c, "recheck")
  BY <1>1, <1>2, InsertingStage DEF Inserting
<1> QED
  BY <1>1, <1>3, GotoKeepsWhole

LEMMA RecheckKeepsWhole ==
  ASSUME WholeInv, NEW c \in Callers, Recheck(c)
  PROVE  WholeInv'
<1>1. CASE \E kind : Refuse(c, kind)
  BY <1>1, RefuseKeepsWhole
<1>2. CASE Goto(c, "policy") /\ UNCHANGED work
  <2>1. Stage(c, "recheck")
    BY StageOf DEF Recheck
  <2>2. Undoes(c) /\ HasStandard(movements, LegTarget(c))
    BY <2>1 DEF Stage, Asked, Aims
  <2>3. Stage(c, "policy")
    BY <2>1, <2>2, InsertingStage DEF Inserting
  <2> QED
    BY <1>2, <2>3, GotoKeepsWhole
<1> QED
  BY <1>1, <1>2 DEF Recheck

\* The trigger lets a movement be reversed alone only when it is no leg.
LEMMA OnlyLegsReverseLegs ==
  ASSUME WholeInv, NEW c \in Callers, Stage(c, "policy"), LegAllowed(c),
         req[c].op = "reverse"
  PROVE  NoLeg(req[c].target)
<1>1. /\ Undoes(c) /\ ~IsTransfer(c) /\ LegTarget(c) = req[c].target
      /\ HasStandard(movements, req[c].target)
      /\ work[c].transfers = {}
  BY DEF Stage, Undoes, IsTransfer, LegTarget, Aims, Alone
<1>2. NewId(c) \notin UsedMovementIds
  BY <1>1, UsedIdsFinite, FreshIsNew DEF NewId
<1>3. \A u \in transfers : \A j \in 1..2 : u.legs[j] # NewId(c)
  BY <1>2, UnusedId
<1>4. ASSUME NEW t \in transfers, NEW i \in 1..2, t.legs[i] = req[c].target
      PROVE  FALSE
  <2>1. PICK m \in movements : m.id = t.legs[i] /\ (t.reverses # None => m.reverses # None)
    BY DEF WholeInv, Transferred, LegsThere
  <2>2. PICK o \in movements : o.id = req[c].target /\ o.reverses = None
    BY <1>1 DEF HasStandard, Standard
  <2>3. m = o
    BY <1>4, <2>1, <2>2 DEF WholeInv, Ledgered
  <2>4. t \in Standard(SeenTransfers(c))
    BY <2>1, <2>2, <2>3 DEF Standard, SeenTransfers
  <2>5. PICK u \in Reversals(SeenTransfers(c), t.id) : u.legs[3 - i] = NewId(c)
    BY <1>1, <1>4, <2>4 DEF LegAllowed
  <2>6. u \in transfers /\ 3 - i \in 1..2
    BY <1>1, <2>5 DEF Reversals, SeenTransfers
  <2> QED
    BY <1>3, <2>5, <2>6
<1> QED
  BY <1>4 DEF NoLeg

LEMMA PolicyKeepsWhole ==
  ASSUME WholeInv, NEW c \in Callers, Policy(c)
  PROVE  WholeInv'
<1>1. CASE \E kind : Refuse(c, kind)
  BY <1>1, RefuseKeepsWhole
<1>2. CASE LegAllowed(c) /\ Goto(c, "index") /\ UNCHANGED work
  <2>1. Stage(c, "policy")
    BY StageOf DEF Policy
  <2>2. Undoes(c) => HasStandard(movements, LegTarget(c))
    BY <2>1 DEF Stage, Aims
  <2>3. req[c].op = "reverse" => NoLeg(req[c].target)
    BY <1>2, <2>1, OnlyLegsReverseLegs
  <2>4. Stage(c, "index")
    BY <2>1, <2>2, <2>3, InsertingStage DEF Inserting
  <2> QED
    BY <1>2, <2>4, GotoKeepsWhole
<1> QED
  BY <1>1, <1>2 DEF Policy

-----------------------------------------------------------------------------
(* Statements that write *)

\* The transfer that a call inserts has an id and legs of its own.
LEMMA NewTransferIsNew ==
  ASSUME WholeInv, NEW c \in Callers, NEW t, t = NewTransfer(c)
  PROVE  /\ t.reverses = req[c].target
         /\ t.id \in Nat \ {0} /\ t.id \notin UsedTransferIds
         /\ t.legs[1] # t.legs[2]
         /\ \A i \in 1..2 : t.legs[i] \in Nat \ {0} /\ t.legs[i] \notin UsedMovementIds
<1> DEFINE first == Fresh(UsedMovementIds)
           second == Fresh(UsedMovementIds \cup {first})
           id == Fresh(UsedTransferIds)
<1>1. first \in Nat \ {0} /\ first \notin UsedMovementIds
  BY UsedIdsFinite, FreshIsNew
<1>2. second \in Nat \ {0} /\ second \notin UsedMovementIds \cup {first}
  <2>1. IsFiniteSet(UsedMovementIds \cup {first})
    BY UsedIdsFinite, FS_AddElement
  <2> QED
    BY <2>1, FreshIsNew
<1>3. id \in Nat \ {0} /\ id \notin UsedTransferIds
  BY UsedIdsFinite, FreshIsNew
<1>4. t.id = id /\ t.legs = <<first, second>> /\ t.reverses = req[c].target
  BY DEF NewTransfer
<1> HIDE DEF first, second, id
<1>5. t.legs[1] = first /\ t.legs[2] = second
  BY <1>4
<1>6. \A i \in 1..2 : i = 1 \/ i = 2
  OBVIOUS
<1> QED
  BY <1>1, <1>2, <1>3, <1>4, <1>5, <1>6

LEMMA ClaimKeepsWhole ==
  ASSUME WholeInv, NEW c \in Callers, Claim(c)
  PROVE  WholeInv'
<1>1. Stage(c, "claim") /\ pc[c] = "claim"
  BY StageOf DEF Claim
<1>2. Blank(work[c]) /\ IsTransfer(c)
  BY <1>1 DEF Stage, Events, Asked, NothingYet, Before
<1>3. CASE Refuse(c, "not_found")
  BY <1>3, RefuseKeepsWhole
<1>4. CASE Goto(c, "reread") /\ UNCHANGED work
  BY <1>1, <1>2, <1>4, RereadStage, GotoKeepsWhole
<1>5. CASE /\ Goto(c, "guard")
           /\ work' = [work EXCEPT ![c] = WithTransfer(work[c], NewTransfer(c))]
  <2>1. PICK t0 : t0 = NewTransfer(c)
    OBVIOUS
  <2>2. /\ UNCHANGED tables /\ UNCHANGED <<movements, transfers, req>> /\ pc'[c] = "guard"
        /\ work'[c].movements = {} /\ work'[c].transfers = {t0}
        /\ work'[c].audit = work[c].audit /\ work'[c].accounts = work[c].accounts
        /\ DOMAIN work'[c] = Fields
        /\ \A d \in Callers \ {c} : work'[d] = work[d] /\ pc'[d] = pc[d] /\ req'[d] = req[d]
    BY <1>2, <1>5, <2>1 DEF WholeInv, Shape, Fields, WithTransfer, Blank, Goto, tables
  <2>3. Shape'
    BY <1>5, <2>2 DEF WholeInv, Shape, Goto
  <2>4. /\ t0.reverses = req[c].target /\ t0.legs[1] # t0.legs[2]
        /\ t0.id \in Nat \ {0} /\ t0.id \notin UsedTransferIds
        /\ \A i \in 1..2 : t0.legs[i] \in Nat \ {0} /\ t0.legs[i] \notin UsedMovementIds
    BY <2>1, NewTransferIsNew
  <2>5. RowsNew(c)'
    <3>1. /\ \A u \in transfers : t0.id # u.id
          /\ \A i \in 1..2 : \A n \in movements : t0.legs[i] # n.id
      BY <2>4, UnusedId, UnusedTransferId
    <3>2. IsFiniteSet({}) /\ IsFiniteSet({t0})
      BY FS_EmptySet, FS_Singleton
    <3> QED
      BY <2>2, <2>4, <3>1, <3>2 DEF RowsNew
  <2>6. ASSUME NEW d \in Callers \ {c}
        PROVE  Apart(c, d)' /\ Apart(d, c)'
    <3>1. /\ \A u \in work[d].transfers : t0.id # u.id
          /\ \A i \in 1..2 : \A n \in work[d].movements : n.id # t0.legs[i]
          /\ \A i \in 1..2 : \A u \in work[d].transfers : \A j \in 1..2 :
               u.legs[j] # t0.legs[i]
      BY <2>4, UnusedId, UnusedTransferId
    <3> QED
      BY <2>2, <3>1 DEF Apart
  <2>7. Asked(c, "guard")'
    BY <1>1, <2>2 DEF Stage, Asked, Inserting, IsTransfer, Undoes
  <2>8. Alone(c, "guard")' /\ Pair(c, "guard")'
    BY <1>2, <2>2, <2>4 DEF Alone, Pair, IsTransfer, Inserting
  <2>9. Aims(c, "guard")' /\ Events(c, "guard")'
    BY <1>1, <2>2 DEF Stage, Aims, HasStandard, Standard, Events, NothingYet, Before, Writing
  <2>10. Transaction(c)'
    BY <2>2, <2>5, <2>7, <2>8, <2>9 DEF Transaction, Stage
  <2> QED
    BY <2>2, <2>3, <2>6, <2>10, LocalStep
<1> QED
  BY <1>3, <1>4, <1>5 DEF Claim

\* An account, an opening balance and the audit events are written beside the
\* movements and transfers.
LEMMA SideInsertsKeepWhole ==
  ASSUME WholeInv, NEW c \in Callers, Anchor(c) \/ Register(c) \/ Audit(c)
  PROVE  WholeInv'
<1>0. PICK p, q : p = pc[c] /\ q = IF p = "audit" THEN "commit" ELSE "audit"
  OBVIOUS
<1>1. CASE Refuse(c, "not_found") \/ Refuse(c, "exists")
  BY <1>1, RefuseKeepsWhole
<1>2. CASE /\ pc[c] \in {"anchor", "register", "audit"}
           /\ Goto(c, q)
           /\ \/ /\ pc[c] = "anchor"
                 /\ work' = [work EXCEPT ![c] = WithOpening(work[c], NewOpening(c))]
              \/ /\ pc[c] = "register"
                 /\ work' = [work EXCEPT ![c] = WithAccount(work[c], req[c].from)]
              \/ /\ pc[c] = "audit"
                 /\ work' = [work EXCEPT ![c] = WithAudit(work[c], AuditEvents(work[c]))]
  <2>0. p \in {"anchor", "register", "audit"} /\ q = IF p = "audit" THEN "commit" ELSE "audit"
    BY <1>0, <1>2
  <2>1. /\ UNCHANGED tables /\ UNCHANGED <<movements, transfers, req>> /\ pc'[c] = q
        /\ work'[c].movements = work[c].movements /\ work'[c].transfers = work[c].transfers
        /\ DOMAIN work' = Callers /\ DOMAIN work'[c] = Fields
        /\ \A d \in Callers \ {c} : work'[d] = work[d] /\ pc'[d] = pc[d] /\ req'[d] = req[d]
    BY <1>2 DEF WholeInv, Shape, Fields, WithOpening, WithAccount, WithAudit, Goto, tables
  <2>2. Shape'
    BY <1>2, <2>1 DEF WholeInv, Shape, Goto
  <2>3. RowsNew(c)' /\ \A d \in Callers \ {c} : Apart(c, d)' /\ Apart(d, c)'
    BY <2>1, RowsKept
  <2>4. Stage(c, p)
    BY <1>0, StageOf
  <2>5. Asked(c, q)'
    BY <2>0, <2>1, <2>4 DEF Stage, Asked, Inserting
  <2>6. Alone(c, q)'
    BY <2>0, <2>1, <2>4 DEF Stage, Alone, IsTransfer, NoLeg, Inserting
  <2>7. Pair(c, q)'
    <3>1. CASE p = "audit"
      BY <2>0, <2>1, <2>4, <3>1 DEF Stage, Pair, IsTransfer, Writing, Inserting, BothLegs,
                                    LegOf, Standard
    <3>2. CASE p # "audit"
      <4>1. ~IsTransfer(c)
        BY <2>0, <2>4, <3>2 DEF Stage, Asked
      <4> QED
        BY <2>1, <4>1 DEF Pair, IsTransfer
    <3> QED
      BY <3>1, <3>2
  <2>8. Aims(c, q)'
    <3>1. req[c].op = "untransfer" => HasStandard(transfers, req[c].target)
      BY <2>0, <2>4 DEF Stage, Aims, Asked, IsTransfer, Writing
    <3>2. UNCHANGED HasStandard(transfers, req[c].target)
      BY <2>1 DEF HasStandard, Standard
    <3> QED
      BY <2>0, <2>1, <3>1, <3>2 DEF Aims
  <2>9. Events(c, q)'
    <3>1. /\ work[c].accounts \cap Founded = {}
          /\ work[c].audit = {}
          /\ p = "register" => req[c].from \notin Founded
      BY <2>0, <2>4 DEF Stage, Events, Asked
    <3>2. /\ work'[c].accounts \cap Founded = {}
          /\ work'[c].audit = IF q = "commit" THEN AuditEvents(work[c]) ELSE {}
      BY <1>0, <1>2, <2>0, <3>1 DEF WholeInv, Shape, Fields, WithOpening, WithAccount, WithAudit
    <3>3. q = "commit" => AuditEvents(work[c])' = AuditEvents(work[c])
      BY <1>0, <1>2, <2>0 DEF WholeInv, Shape, Fields, WithAudit, AuditEvents
    <3>4. q \notin NothingYet
      BY <2>0 DEF NothingYet, Before
    <3> QED
      BY <3>2, <3>3, <3>4 DEF Events
  <2>10. Transaction(c)'
    BY <2>1, <2>3, <2>5, <2>6, <2>7, <2>8, <2>9 DEF Transaction, Stage
  <2> QED
    BY <2>1, <2>2, <2>3, <2>10, LocalStep
<1> QED
  BY <1>0, <1>1, <1>2 DEF Anchor, Register, Audit

\* A movement written alone takes a new id, and cancels what it reverses.
LEMMA NewMovementAlone ==
  ASSUME WholeInv, NEW c \in Callers, Stage(c, "index"), ~IsTransfer(c),
         NEW m, m = NewMovement(c)
  PROVE  /\ m.id = Fresh(UsedMovementIds) /\ m.amount \in Int
         /\ m.reverses = LegTarget(c)
         /\ m.reverses # None => Cancels(m) /\ NoLeg(m.reverses)
<1>1. /\ work[c].movements = {} /\ Cardinality(work[c].movements) = 0
      /\ req[c].op \in {"create", "reverse"} /\ req[c].amount \in Int
  BY FS_EmptySet DEF Stage, Alone, Asked, Inserting, Ops, IsTransfer
<1>2. Leg(c) = Legs(c)[1]
  BY <1>1 DEF Leg
<1>3. /\ m.id = Fresh(UsedMovementIds) /\ m.account = Leg(c).account
      /\ m.amount = Leg(c).amount /\ m.reverses = Leg(c).reverses
  BY DEF NewMovement, NewId
<1>4. CASE req[c].op = "create"
  <2>1. Leg(c) = [account |-> req[c].from, amount |-> req[c].amount, reverses |-> None]
    BY <1>2, <1>4 DEF Legs
  <2>2. LegTarget(c) = None
    BY <1>4 DEF LegTarget
  <2> QED
    BY <1>1, <1>3, <2>1, <2>2
<1>5. CASE req[c].op = "reverse"
  <2>1. LegTarget(c) = req[c].target
    BY <1>5 DEF LegTarget
  <2>2. HasStandard(movements, req[c].target) /\ NoLeg(req[c].target)
    BY <1>5, <2>1 DEF Stage, Aims, Undoes
  <2>3. PICK o \in Standard(movements) : o.id = req[c].target
    BY <2>2 DEF HasStandard
  <2>4. o \in movements /\ o.amount \in Int
    BY <2>3 DEF Standard, WholeInv, Ledgered
  <2>5. ById(movements, req[c].target) = o
    BY <2>3, <2>4, MovementIs DEF WholeInv
  <2>6. Leg(c) = [account |-> o.account, amount |-> -o.amount, reverses |-> req[c].target]
    BY <1>2, <1>5, <2>5 DEF Legs, Cancelling
  <2>7. m.account = o.account /\ m.amount = -o.amount /\ m.reverses = req[c].target
    BY <1>3, <2>6
  <2>8. m.amount \in Int /\ o.amount + m.amount = 0
    BY <2>4, <2>7
  <2>9. Cancels(m)
    BY <2>3, <2>7, <2>8 DEF Cancels
  <2> QED
    BY <1>3, <2>1, <2>2, <2>7, <2>8, <2>9
<1> QED
  BY <1>1, <1>4, <1>5

\* A leg of a transfer takes its id from the transfer.
LEMMA NewMovementLeg ==
  ASSUME WholeInv, NEW c \in Callers, Stage(c, "index"), IsTransfer(c),
         NEW t, work[c].transfers = {t},
         NEW k \in 1..2, Cardinality(work[c].movements) + 1 = k,
         work[c].movements = {} <=> k = 1,
         NEW m, m = NewMovement(c)
  PROVE  /\ LegOf(c, t, m, k) /\ m.amount \in Int
         /\ m.reverses = LegTarget(c)
         /\ m.reverses # None => Cancels(m)
<1>1. (CHOOSE u \in work[c].transfers : TRUE) = t
  OBVIOUS
<1>2. Leg(c) = Legs(c)[k]
  BY DEF Leg
<1>3. /\ m.id = t.legs[k] /\ m.account = Leg(c).account
      /\ m.amount = Leg(c).amount /\ m.reverses = Leg(c).reverses
  BY <1>1 DEF NewMovement, NewId
<1>4. req[c].amount \in Int /\ (k = 1 \/ k = 2)
  BY DEF Stage, Asked
<1>5. CASE req[c].op = "transfer"
  <2>1. Leg(c) = IF k = 1
                 THEN [account |-> req[c].from, amount |-> -req[c].amount, reverses |-> None]
                 ELSE [account |-> req[c].to, amount |-> req[c].amount, reverses |-> None]
    BY <1>2, <1>4, <1>5 DEF Legs
  <2>2. LegTarget(c) = None
    BY <1>5 DEF LegTarget
  <2>3. /\ m.reverses = None /\ m.account = IF k = 1 THEN req[c].from ELSE req[c].to
        /\ m.amount = IF k = 1 THEN -req[c].amount ELSE req[c].amount
    BY <1>3, <1>4, <2>1
  <2>4. m.amount \in Int
    BY <1>4, <2>3
  <2> QED
    BY <1>3, <1>5, <2>2, <2>3, <2>4 DEF LegOf
<1>6. CASE req[c].op = "untransfer"
  <2>1. PICK o \in Standard(transfers) : o.id = req[c].target
    BY <1>6 DEF Stage, Aims, Writing, Inserting, HasStandard
  <2>2. ById(transfers, req[c].target) = o
    BY <2>1, TransferIs DEF WholeInv, Standard
  <2>3. LegTarget(c) = o.legs[3 - k]
    BY <1>4, <1>6, <2>2 DEF LegTarget
  <2>4. PICK n \in Standard(movements) : n.id = o.legs[3 - k]
    BY <1>6, <2>3 DEF Stage, Aims, Undoes, HasStandard
  <2>5. n \in movements /\ n.amount \in Int
    BY <2>4 DEF Standard, WholeInv, Ledgered
  <2>6. ById(movements, o.legs[3 - k]) = n
    BY <2>4, <2>5, MovementIs DEF WholeInv
  <2>7. Legs(c)[k] = Cancelling(movements, o.legs[3 - k])
    BY <1>4, <1>6, <2>2 DEF Legs
  <2>8. Leg(c) = [account |-> n.account, amount |-> -n.amount, reverses |-> n.id]
    BY <1>2, <2>4, <2>6, <2>7 DEF Cancelling
  <2>9. m.account = n.account /\ m.amount = -n.amount /\ m.reverses = n.id
    BY <1>3, <2>8
  <2>10. m.amount \in Int /\ n.amount + m.amount = 0 /\ m.amount + n.amount = 0
    BY <2>5, <2>9
  <2>11. Cancels(m)
    BY <2>4, <2>9, <2>10 DEF Cancels
  <2>12. LegOf(c, t, m, k)
    BY <1>3, <1>6, <2>1, <2>4, <2>5, <2>9, <2>10 DEF LegOf
  <2> QED
    BY <2>3, <2>4, <2>9, <2>10, <2>11, <2>12
<1> QED
  BY <1>5, <1>6 DEF IsTransfer

\* A new movement leaves the rows of its transaction new.
LEMMA RowsGrow ==
  ASSUME WholeInv, NEW c \in Callers, NEW m, UNCHANGED <<movements, transfers>>,
         \A d \in Callers \ {c} : work'[d] = work[d],
         work'[c].transfers = work[c].transfers,
         work'[c].movements = work[c].movements \cup {m},
         m.id \in Nat \ {0}, m.amount \in Int, m.reverses # None => Cancels(m),
         \A n \in movements \cup work[c].movements : m.id # n.id /\ ~SameReversal(m, n),
         \A d \in Callers \ {c} : \A n \in work[d].movements :
           m.id # n.id /\ ~SameReversal(m, n),
         \A d \in Callers \ {c} : \A t \in work[d].transfers : \A i \in 1..2 :
           m.id # t.legs[i]
  PROVE  /\ RowsNew(c)'
         /\ \A d \in Callers \ {c} : Apart(c, d)' /\ Apart(d, c)'
<1>1. RowsNew(c)
  BY DEF WholeInv, Transactions, Transaction
<1>2. IsFiniteSet(work'[c].movements)
  BY <1>1, FS_AddElement DEF RowsNew
<1>3. RowsNew(c)'
  BY <1>1, <1>2 DEF RowsNew, Cancels, Standard, SameReversal
<1>4. ASSUME NEW d \in Callers \ {c}
      PROVE  Apart(c, d)' /\ Apart(d, c)'
  <2>1. Apart(c, d) /\ Apart(d, c) /\ work'[d] = work[d]
    BY DEF WholeInv, Transactions
  <2> QED
    BY <2>1 DEF Apart, SameReversal
<1> QED
  BY <1>3, <1>4

\* The index of reversals waits for, or refuses, a movement reversed before.
LEMMA IndexRefusesReversed ==
  ASSUME NEW c \in Callers, NEW m, m.reverses = LegTarget(c), NEW rows,
         \A row \in rows : ~ReversalClash(c, row)
  PROVE  \A n \in rows : ~SameReversal(m, n)
<1>1. CASE Undoes(c)
  BY <1>1 DEF ReversalClash, SameReversal
<1>2. CASE ~Undoes(c)
  BY <1>2 DEF Undoes, LegTarget, SameReversal
<1> QED
  BY <1>1, <1>2

\* What the insert of a movement leaves as it was.
InsertsMovement(c, m, q) ==
  /\ UNCHANGED tables /\ UNCHANGED <<movements, transfers, req>> /\ pc'[c] = q
  /\ work'[c].movements = work[c].movements \cup {m}
  /\ work'[c].transfers = work[c].transfers
  /\ work'[c].audit = work[c].audit /\ work'[c].accounts = work[c].accounts
  /\ \A d \in Callers \ {c} : work'[d] = work[d] /\ pc'[d] = pc[d] /\ req'[d] = req[d]
  /\ Shape'
  /\ \A n \in movements : ~ReversalClash(c, n)
  /\ \A d \in Callers \ {c} : \A n \in work[d].movements : ~ReversalClash(c, n)

\* After the insert of a movement, all but the rows is as before it.
LEMMA InsertedStage ==
  ASSUME NEW c \in Callers, NEW m, NEW q \in {"audit", "guard"}, Stage(c, "index"),
         InsertsMovement(c, m, q)
  PROVE  Asked(c, q)' /\ Aims(c, q)' /\ Events(c, q)'
<1>1. UNCHANGED <<movements, transfers, req>>
  BY DEF InsertsMovement
<1>2. Asked(c, q)'
  BY <1>1 DEF Stage, Asked, Inserting, IsTransfer, Undoes
<1>3. req[c].op = "untransfer" => HasStandard(transfers, req[c].target)
  BY DEF Stage, Aims, Writing, Inserting
<1>4. Aims(c, q)'
  BY <1>1, <1>3 DEF Aims, HasStandard, Standard
<1>5. work[c].audit = {} /\ work[c].accounts \cap Founded = {}
  BY DEF Stage, Events
<1>6. Events(c, q)'
  BY <1>5 DEF InsertsMovement, Events, NothingYet, Before
<1> QED
  BY <1>2, <1>4, <1>6

LEMMA InsertAloneKeepsWhole ==
  ASSUME WholeInv, NEW c \in Callers, Stage(c, "index"), ~IsTransfer(c),
         NEW m, m = NewMovement(c), InsertsMovement(c, m, "audit")
  PROVE  WholeInv'
<1>1. /\ m.id = Fresh(UsedMovementIds) /\ m.amount \in Int /\ m.reverses = LegTarget(c)
      /\ m.reverses # None => Cancels(m) /\ NoLeg(m.reverses)
  BY NewMovementAlone
<1>2. work[c].movements = {} /\ work[c].transfers = {}
  BY DEF Stage, Alone, Inserting
<1>3. m.id \in Nat \ {0} /\ m.id \notin UsedMovementIds
  BY <1>1, UsedIdsFinite, FreshIsNew
<1>4. RowsNew(c)' /\ \A d \in Callers \ {c} : Apart(c, d)' /\ Apart(d, c)'
  <2>1. /\ \A n \in movements : m.id # n.id
        /\ \A d \in Callers : \A n \in work[d].movements : m.id # n.id
        /\ \A d \in Callers : \A t \in work[d].transfers : \A i \in 1..2 : m.id # t.legs[i]
    BY <1>3, UnusedId
  <2>2. /\ \A n \in movements : ~SameReversal(m, n)
        /\ \A d \in Callers \ {c} : \A n \in work[d].movements : ~SameReversal(m, n)
    BY <1>1, IndexRefusesReversed DEF InsertsMovement
  <2>3. \A n \in movements \cup work[c].movements : m.id # n.id /\ ~SameReversal(m, n)
    BY <1>2, <2>1, <2>2
  <2>4. /\ UNCHANGED <<movements, transfers>>
        /\ \A d \in Callers \ {c} : work'[d] = work[d]
        /\ work'[c].transfers = work[c].transfers
        /\ work'[c].movements = work[c].movements \cup {m}
    BY DEF InsertsMovement
  <2>5. m.reverses # None => Cancels(m)
    BY <1>1
  <2> QED
    BY <1>1, <1>3, <2>1, <2>2, <2>3, <2>4, <2>5, RowsGrow
<1>5. Asked(c, "audit")' /\ Aims(c, "audit")' /\ Events(c, "audit")'
  BY InsertedStage
<1>6. Alone(c, "audit")' /\ Pair(c, "audit")'
  BY <1>1, <1>2 DEF InsertsMovement, Alone, Pair, IsTransfer, NoLeg, Inserting
<1>7. Transaction(c)'
  BY <1>4, <1>5, <1>6 DEF InsertsMovement, Transaction, Stage
<1> QED
  BY <1>4, <1>7, LocalStep DEF InsertsMovement

\* The leg that a transfer lacks is inserted, its first and then its second.
LEMMA InsertLegKeepsWhole ==
  ASSUME WholeInv, NEW c \in Callers, Stage(c, "index"), IsTransfer(c),
         NEW m, m = NewMovement(c),
         InsertsMovement(c, m, IF LastLeg(c) THEN "audit" ELSE "guard")
  PROVE  WholeInv'
<1>1. PICK t \in work[c].transfers :
        /\ work[c].transfers = {t} /\ t.reverses = req[c].target /\ t.legs[1] # t.legs[2]
        /\ work[c].movements = {} \/ OneLeg(c, t)
  BY DEF Stage, Pair, Writing, Inserting
<1>2. PICK q \in {"audit", "guard"} : q = IF LastLeg(c) THEN "audit" ELSE "guard"
  OBVIOUS
<1>3. InsertsMovement(c, m, q)
  BY <1>2
<1>4. PICK k \in 1..2 : /\ Cardinality(work[c].movements) + 1 = k
                        /\ work[c].movements = {} <=> k = 1
                        /\ q = "guard" <=> k = 1
  <2>1. CASE work[c].movements = {}
    <3>1. Cardinality(work[c].movements) + 1 = 1 /\ q = "guard"
      BY <1>2, <2>1, FS_EmptySet DEF LastLeg
    <3> QED
      BY <2>1, <3>1
  <2>2. CASE OneLeg(c, t)
    <3>1. PICK n : work[c].movements = {n}
      BY <2>2 DEF OneLeg
    <3>2. Cardinality(work[c].movements) = 1
      BY <3>1, FS_Singleton
    <3>3. work[c].movements # {} /\ q = "audit"
      BY <1>2, <3>1 DEF LastLeg
    <3> QED
      BY <3>2, <3>3
  <2> QED
    BY <1>1, <2>1, <2>2
<1>5. /\ LegOf(c, t, m, k) /\ m.amount \in Int
      /\ m.reverses = LegTarget(c) /\ (m.reverses # None => Cancels(m))
  BY <1>1, <1>4, NewMovementLeg
<1>6. m.id = t.legs[k]
  BY <1>5 DEF LegOf
<1>7. ASSUME NEW n \in work[c].movements
      PROVE  /\ k = 2 /\ work[c].movements = {n} /\ LegOf(c, t, n, 1)
             /\ m.id # n.id /\ ~SameReversal(m, n)
  <2>1. k = 2 /\ work[c].movements = {n} /\ LegOf(c, t, n, 1)
    BY <1>1, <1>4 DEF OneLeg
  <2>2. m.id # n.id
    BY <1>1, <1>6, <2>1 DEF LegOf
  <2>3. CASE req[c].op = "transfer"
    BY <1>5, <2>1, <2>2, <2>3 DEF LegOf, SameReversal
  <2>4. CASE req[c].op # "transfer"
    <3>1. PICK o \in Standard(transfers) : o.id = req[c].target /\ m.reverses = o.legs[1]
      BY <1>5, <2>1, <2>4 DEF LegOf
    <3>2. PICK u \in Standard(transfers) : u.id = req[c].target /\ n.reverses = u.legs[2]
      BY <2>1, <2>4 DEF LegOf
    <3>3. o = u /\ o \in transfers
      BY <3>1, <3>2 DEF Standard, WholeInv, Transferred
    <3> QED
      BY <2>1, <2>2, <3>1, <3>2, <3>3, LegsDiffer DEF SameReversal, WholeInv
  <2> QED
    BY <2>1, <2>2, <2>3, <2>4
<1>8. RowsNew(c)' /\ \A d \in Callers \ {c} : Apart(c, d)' /\ Apart(d, c)'
  <2>1. /\ m.id \in Nat \ {0} /\ \A n \in movements : m.id # n.id
        /\ \A d \in Callers \ {c} : \A n \in work[d].movements : m.id # n.id
        /\ \A d \in Callers \ {c} : \A u \in work[d].transfers : \A i \in 1..2 :
             m.id # u.legs[i]
    BY <1>1, <1>6 DEF WholeInv, Transactions, Transaction, RowsNew, Apart
  <2>2. /\ \A n \in movements : ~SameReversal(m, n)
        /\ \A d \in Callers \ {c} : \A n \in work[d].movements : ~SameReversal(m, n)
    BY <1>3, <1>5, IndexRefusesReversed DEF InsertsMovement
  <2> QED
    BY <1>3, <1>5, <1>7, <2>1, <2>2, RowsGrow DEF InsertsMovement
<1>9. Asked(c, q)' /\ Aims(c, q)' /\ Events(c, q)'
  BY <1>3, InsertedStage
<1>10. ASSUME NEW n, NEW i \in 1..2, LegOf(c, t, n, i)
       PROVE  LegOf(c, t, n, i)'
  BY <1>3, <1>10 DEF InsertsMovement, LegOf, Standard
<1>11. Alone(c, q)'
  BY <1>3 DEF InsertsMovement, Alone, IsTransfer
<1>12. Pair(c, q)'
  <2>1. /\ work'[c].transfers = {t} /\ t.reverses = req'[c].target
        /\ work'[c].movements = work[c].movements \cup {m}
    BY <1>1, <1>3 DEF InsertsMovement
  <2>2. LegOf(c, t, m, k)'
    BY <1>5, <1>10
  <2>3. CASE k = 1
    <3>1. work'[c].movements = {m}
      BY <1>4, <2>1, <2>3
    <3>2. OneLeg(c, t)'
      BY <2>2, <2>3, <3>1 DEF OneLeg
    <3> QED
      BY <1>1, <1>4, <2>1, <2>3, <3>2 DEF Pair, Inserting
  <2>4. CASE k = 2
    <3>1. PICK n \in work[c].movements : TRUE
      BY <1>4, <2>4
    <3>2. work'[c].movements = {n, m} /\ LegOf(c, t, n, 1)'
      BY <1>7, <1>10, <2>1, <3>1
    <3>3. BothLegs(c, t)'
      BY <2>2, <2>4, <3>2 DEF BothLegs
    <3> QED
      BY <1>1, <1>4, <2>1, <2>4, <3>3 DEF Pair, Inserting
  <2> QED
    BY <2>3, <2>4
<1>13. Transaction(c)'
  BY <1>3, <1>8, <1>9, <1>11, <1>12 DEF InsertsMovement, Transaction, Stage
<1> QED
  BY <1>3, <1>8, <1>13, LocalStep DEF InsertsMovement

LEMMA IndexKeepsWhole ==
  ASSUME WholeInv, NEW c \in Callers, Index(c)
  PROVE  WholeInv'
<1>1. Stage(c, "index")
  BY StageOf DEF Index
<1>2. CASE \E kind : Refuse(c, kind)
  BY <1>2, RefuseKeepsWhole
<1>3. CASE req[c].op = "create" /\ Goto(c, "reread") /\ UNCHANGED work
  <2>1. Blank(work[c])
    BY <1>1, <1>3 DEF Stage, Alone, IsTransfer, Inserting, Blank
  <2> QED
    BY <1>1, <1>3, <2>1, RereadStage, GotoKeepsWhole
<1>4. CASE /\ \A d \in Callers \ {c} : \A row \in work[d].movements : ~ReversalClash(c, row)
           /\ ~ \E row \in movements : ReversalClash(c, row)
           /\ Goto(c, IF LastLeg(c) THEN "audit" ELSE "guard")
           /\ work' = [work EXCEPT ![c] = WithMovement(work[c], NewMovement(c))]
  <2>1. PICK m, q : m = NewMovement(c) /\ q = IF LastLeg(c) THEN "audit" ELSE "guard"
    OBVIOUS
  <2>2. /\ UNCHANGED tables /\ UNCHANGED <<movements, transfers, req>> /\ pc'[c] = q
        /\ work'[c].movements = work[c].movements \cup {m}
        /\ work'[c].transfers = work[c].transfers
        /\ work'[c].audit = work[c].audit /\ work'[c].accounts = work[c].accounts
        /\ DOMAIN work'[c] = Fields
        /\ \A d \in Callers \ {c} : work'[d] = work[d] /\ pc'[d] = pc[d] /\ req'[d] = req[d]
    BY <1>4, <2>1 DEF WholeInv, Shape, Fields, WithMovement, Goto, tables
  <2>3. Shape'
    BY <1>4, <2>2 DEF WholeInv, Shape, Goto
  <2>4. InsertsMovement(c, m, q)
    BY <1>4, <2>2, <2>3 DEF InsertsMovement
  <2>5. CASE IsTransfer(c)
    BY <1>1, <2>1, <2>4, <2>5, InsertLegKeepsWhole
  <2>6. CASE ~IsTransfer(c)
    <3>1. q = "audit"
      BY <2>1, <2>6 DEF LastLeg
    <3> QED
      BY <1>1, <2>1, <2>4, <2>6, <3>1, InsertAloneKeepsWhole
  <2> QED
    BY <2>5, <2>6
<1> QED
  BY <1>2, <1>3, <1>4 DEF Index, AwaitsMovement

-----------------------------------------------------------------------------
(* The commit *)

\* What a commit does to the tables and finds in the transaction.
LEMMA CommitDoes ==
  ASSUME WholeInv, NEW c \in Callers, Commit(c)
  PROVE  /\ movements' = movements \cup work[c].movements
         /\ transfers' = transfers \cup work[c].transfers
         /\ openings' = openings \cup work[c].openings
         /\ accounts' = accounts \cup work[c].accounts
         /\ audit' = audit \cup work[c].audit
         /\ work'[c] = NoWork /\ pc'[c] = "idle" /\ UNCHANGED req
         /\ \A d \in Callers \ {c} : work'[d] = work[d] /\ pc'[d] = pc[d]
         /\ RowsNew(c) /\ Stage(c, "commit") /\ Shape'
<1>1. /\ work'[c] = NoWork /\ pc'[c] = "idle" /\ UNCHANGED req
      /\ \A d \in Callers \ {c} : work'[d] = work[d] /\ pc'[d] = pc[d]
      /\ DOMAIN work' = Callers /\ DOMAIN pc' = Callers
  BY DEF WholeInv, Shape, Commit, Return
<1>2. Shape'
  BY <1>1 DEF WholeInv, Shape, Fields, NoWork
<1>3. RowsNew(c) /\ Stage(c, "commit")
  BY DEF WholeInv, Transactions, Transaction, Commit
<1> QED
  BY <1>1, <1>2, <1>3 DEF Commit, Store

\* The transfer that is committed, with the two movements that are its legs.
LEMMA CommittedPair ==
  ASSUME NEW c \in Callers, Stage(c, "commit"), work[c].transfers # {}
  PROVE  /\ IsTransfer(c)
         /\ \E t \in work[c].transfers :
              /\ work[c].transfers = {t} /\ t.reverses = req[c].target
              /\ t.legs[1] # t.legs[2] /\ BothLegs(c, t)
<1>1. IsTransfer(c)
  BY DEF Stage, Alone
<1> QED
  BY <1>1 DEF Stage, Pair, Writing, Inserting

\* At most one transfer is committed at a time.
LEMMA OneTransfer ==
  ASSUME NEW c \in Callers, Stage(c, "commit"),
         NEW t \in work[c].transfers, NEW u \in work[c].transfers
  PROVE  t = u
BY CommittedPair

LEMMA CommitKeepsLedgered ==
  ASSUME WholeInv, NEW c \in Callers, Commit(c)
  PROVE  Ledgered'
<1>1. /\ movements' = movements \cup work[c].movements
      /\ transfers' = transfers \cup work[c].transfers
      /\ RowsNew(c) /\ Ledgered
  BY CommitDoes DEF WholeInv
<1>2. IsFiniteSet(movements') /\ IsFiniteSet(transfers')
  BY <1>1, FS_Union DEF RowsNew, Ledgered
<1>3. \A m \in movements' : m.id \in Nat \ {0} /\ m.amount \in Int
  BY <1>1 DEF RowsNew, Ledgered
<1>4. \A m, n \in movements' : m.id = n.id \/ SameReversal(m, n) => m = n
  <2> SUFFICES ASSUME NEW m \in movements', NEW n \in movements',
                      m.id = n.id \/ SameReversal(m, n)
               PROVE  m = n
    BY DEF SameReversal
  <2>1. CASE m \in movements /\ n \in movements
    BY <1>1, <2>1 DEF Ledgered
  <2>2. CASE m \in work[c].movements
    <3>1. CASE n \in movements
      BY <1>1, <2>2, <3>1 DEF RowsNew
    <3>2. CASE n \in work[c].movements
      BY <1>1, <2>2, <3>2 DEF RowsNew
    <3> QED
      BY <1>1, <3>1, <3>2
  <2>3. CASE m \in movements /\ n \in work[c].movements
    BY <1>1, <2>3 DEF RowsNew, SameReversal
  <2> QED
    BY <1>1, <2>1, <2>2, <2>3
<1>5. \A r \in movements' : r.reverses # None => Cancels(r)'
  BY <1>1 DEF RowsNew, Ledgered, Cancels, Standard
<1> QED
  BY <1>2, <1>3, <1>4, <1>5 DEF Ledgered, SameReversal

\* The legs of the transfer that is committed are there, and cancel out.
LEMMA CommittedLegsThere ==
  ASSUME WholeInv, NEW c \in Callers, Commit(c), NEW t \in work[c].transfers
  PROVE  LegsThere(t)'
<1>1. /\ movements' = movements \cup work[c].movements
      /\ RowsNew(c) /\ Stage(c, "commit") /\ Ledgered /\ Transferred
  BY CommitDoes DEF WholeInv
<1>2. IsTransfer(c) /\ BothLegs(c, t) /\ t.reverses = req[c].target
  BY <1>1, CommittedPair
<1>3. PICK m \in work[c].movements, n \in work[c].movements :
        LegOf(c, t, m, 1) /\ LegOf(c, t, n, 2)
  BY <1>2 DEF BothLegs
<1>4. m \in movements' /\ n \in movements' /\ m.id = t.legs[1] /\ n.id = t.legs[2]
  BY <1>1, <1>3 DEF LegOf
<1>5. CASE req[c].op = "transfer"
  <2>1. /\ req[c].amount \in Int /\ req[c].from # req[c].to
        /\ t.reverses = None
    BY <1>1, <1>2, <1>5 DEF Stage, Asked
  <2>2. m.amount = -req[c].amount /\ n.amount = req[c].amount
    BY <1>3, <1>5 DEF LegOf
  <2>3. m.account = req[c].from /\ n.account = req[c].to
    BY <1>3, <1>5 DEF LegOf
  <2>4. m.amount + n.amount = 0
    BY <2>1, <2>2
  <2> QED
    BY <1>4, <2>1, <2>3, <2>4 DEF LegsThere
<1>6. CASE req[c].op = "untransfer"
  <2>1. PICK o \in Standard(transfers) : \E x \in movements :
          /\ o.id = req[c].target /\ x.id = o.legs[2] /\ m.reverses = x.id
          /\ m.account = x.account /\ m.amount + x.amount = 0
    BY <1>3, <1>6 DEF LegOf
  <2>2. PICK x \in movements :
          /\ x.id = o.legs[2] /\ m.reverses = x.id
          /\ m.account = x.account /\ m.amount + x.amount = 0
    BY <2>1
  <2>3. PICK u \in Standard(transfers) : \E y \in movements :
          /\ u.id = req[c].target /\ y.id = u.legs[1] /\ n.reverses = y.id
          /\ n.account = y.account /\ n.amount + y.amount = 0
    BY <1>3, <1>6 DEF LegOf
  <2>4. PICK y \in movements :
          /\ y.id = u.legs[1] /\ n.reverses = y.id
          /\ n.account = y.account /\ n.amount + y.amount = 0
    BY <2>3
  <2>5. o = u /\ o \in transfers
    BY <1>1, <2>1, <2>3 DEF Standard, Transferred
  <2>6. PICK a \in movements, b \in movements :
          a.id = o.legs[1] /\ b.id = o.legs[2] /\ a.amount + b.amount = 0
            /\ a.account # b.account
    BY <1>1, <2>5 DEF Transferred, LegsThere
  <2>7. a = y /\ b = x
    BY <1>1, <2>2, <2>4, <2>5, <2>6 DEF Ledgered
  <2>8. m.account # n.account
    BY <2>2, <2>4, <2>6, <2>7
  <2>9. m.amount + n.amount = 0
    <3>1. m.amount \in Int /\ n.amount \in Int /\ x.amount \in Int /\ y.amount \in Int
      BY <1>1, <1>3 DEF RowsNew, Ledgered
    <3>2. m.amount + x.amount = 0 /\ n.amount + y.amount = 0 /\ y.amount + x.amount = 0
      BY <2>2, <2>4, <2>6, <2>7
    <3> QED
      BY <3>1, <3>2
  <2>10. m.reverses # None /\ n.reverses # None
    BY <1>1, <2>2, <2>4 DEF Ledgered, None
  <2> QED
    BY <1>4, <2>8, <2>9, <2>10 DEF LegsThere
<1> QED
  BY <1>2, <1>5, <1>6 DEF IsTransfer

\* What a transaction reverses was committed, and is not one of its own legs.
LEMMA ReversesCommitted ==
  ASSUME WholeInv, NEW c \in Callers, NEW r, Cancels(r)
  PROVE  /\ \A t \in work[c].transfers : \A i \in 1..2 : r.reverses # t.legs[i]
         /\ \A m \in work[c].movements : r.reverses # m.id
<1>1. PICK o \in movements : o.id = r.reverses
  BY DEF Cancels, Standard
<1> QED
  BY <1>1 DEF WholeInv, Transactions, Transaction, RowsNew

\* The legs of committed transfers are committed movements.
LEMMA LegsAreMovements ==
  ASSUME WholeInv, NEW t \in transfers, NEW i \in 1..2
  PROVE  \E m \in movements : m.id = t.legs[i]
<1>1. i = 1 \/ i = 2
  OBVIOUS
<1> QED
  BY <1>1 DEF WholeInv, Transferred, LegsThere

\* A committed movement is reversed as a leg only with the other leg.
LEMMA CommitReversesWhole ==
  ASSUME WholeInv, NEW c \in Callers, Commit(c),
         NEW t \in transfers, NEW i \in 1..2, NEW r \in work[c].movements,
         r.reverses = t.legs[i]
  PROVE  ReversedWhole(t, i, r)'
<1>1. /\ movements' = movements \cup work[c].movements
      /\ transfers' = transfers \cup work[c].transfers
      /\ RowsNew(c) /\ Stage(c, "commit") /\ Ledgered /\ Transferred
  BY CommitDoes DEF WholeInv
<1>2. r.reverses # None /\ (i = 1 \/ i = 2)
  <2>1. PICK m \in movements : m.id = t.legs[i]
    BY LegsAreMovements
  <2> QED
    BY <1>1, <2>1 DEF Ledgered, None
<1>3. IsTransfer(c)
  BY <1>1, <1>2 DEF Stage, Alone, NoLeg
<1>4. PICK u \in work[c].transfers : u.reverses = req[c].target /\ BothLegs(c, u)
  BY <1>1, <1>3 DEF Stage, Pair, Writing, Inserting
<1>5. PICK m \in work[c].movements : \E n \in work[c].movements :
        work[c].movements = {m, n} /\ LegOf(c, u, m, 1) /\ LegOf(c, u, n, 2)
  BY <1>4 DEF BothLegs
<1>6. PICK n \in work[c].movements :
        work[c].movements = {m, n} /\ LegOf(c, u, m, 1) /\ LegOf(c, u, n, 2)
  BY <1>5
<1>7. m.id = u.legs[1] /\ n.id = u.legs[2]
  BY <1>6 DEF LegOf
<1>8. req[c].op = "untransfer"
  BY <1>2, <1>3, <1>6 DEF LegOf, IsTransfer
<1>9. PICK o \in Standard(transfers) : o.id = req[c].target /\ m.reverses = o.legs[2]
  BY <1>6, <1>8 DEF LegOf
<1>10. n.reverses = o.legs[1] /\ o \in transfers
  <2>1. PICK p \in Standard(transfers) : p.id = req[c].target /\ n.reverses = p.legs[1]
    BY <1>6, <1>8 DEF LegOf
  <2> QED
    BY <1>1, <1>9, <2>1 DEF Standard, Transferred
<1>11. t = o
  <2>1. \/ t.legs[i] = o.legs[2]
        \/ t.legs[i] = o.legs[1]
    BY <1>6, <1>9, <1>10
  <2>2. 1 \in 1..2 /\ 2 \in 1..2
    OBVIOUS
  <2> QED
    BY <1>1, <1>10, <2>1, <2>2 DEF Transferred
<1>12. o.legs[1] # o.legs[2]
  BY <1>1, <1>10, LegsDiffer
<1>13. u \in transfers' /\ m \in movements' /\ n \in movements' /\ u.reverses = t.id
  BY <1>1, <1>4, <1>9, <1>11
<1>14. CASE i = 1
  <2>1. r = n
    BY <1>6, <1>9, <1>10, <1>11, <1>12, <1>14
  <2>2. r.id = u.legs[3 - i] /\ m.id = u.legs[i] /\ m.reverses = t.legs[3 - i]
    BY <1>7, <1>9, <1>11, <1>14, <2>1
  <2> QED
    BY <1>13, <2>2 DEF ReversedWhole
<1>15. CASE i = 2
  <2>1. r = m
    BY <1>6, <1>9, <1>10, <1>11, <1>12, <1>15
  <2>2. r.id = u.legs[3 - i] /\ n.id = u.legs[i] /\ n.reverses = t.legs[3 - i]
    BY <1>7, <1>10, <1>11, <1>15, <2>1
  <2> QED
    BY <1>13, <2>2 DEF ReversedWhole
<1> QED
  BY <1>2, <1>14, <1>15

LEMMA CommitKeepsTransferred ==
  ASSUME WholeInv, NEW c \in Callers, Commit(c)
  PROVE  Transferred'
<1>1. /\ movements' = movements \cup work[c].movements
      /\ transfers' = transfers \cup work[c].transfers
      /\ RowsNew(c) /\ Stage(c, "commit") /\ Ledgered /\ Transferred
  BY CommitDoes DEF WholeInv
<1>2. ASSUME NEW t \in transfers'
      PROVE  t.id \in Nat \ {0} /\ LegsThere(t)'
  <2>1. CASE t \in transfers
    BY <1>1, <2>1 DEF Transferred, LegsThere
  <2>2. CASE t \in work[c].transfers
    BY <1>1, <2>2, CommittedLegsThere DEF RowsNew
  <2> QED
    BY <1>1, <2>1, <2>2
<1>3. ASSUME NEW t \in transfers', NEW u \in transfers', t.id = u.id
      PROVE  t = u
  <2>1. CASE t \in transfers /\ u \in transfers
    BY <1>1, <1>3, <2>1 DEF Transferred
  <2>2. CASE t \in work[c].transfers /\ u \in work[c].transfers
    BY <1>1, <2>2, OneTransfer
  <2> QED
    BY <1>1, <1>3, <2>1, <2>2 DEF RowsNew
<1>4. ASSUME NEW t \in transfers', NEW u \in transfers',
             NEW i \in 1..2, NEW j \in 1..2, t.legs[i] = u.legs[j]
      PROVE  t = u
  <2>1. CASE t \in transfers /\ u \in transfers
    BY <1>1, <1>4, <2>1 DEF Transferred
  <2>2. CASE t \in work[c].transfers /\ u \in work[c].transfers
    BY <1>1, <2>2, OneTransfer
  <2>3. CASE t \in transfers /\ u \in work[c].transfers
    BY <1>1, <1>4, <2>3, LegsAreMovements DEF RowsNew
  <2>4. CASE t \in work[c].transfers /\ u \in transfers
    BY <1>1, <1>4, <2>4, LegsAreMovements DEF RowsNew
  <2> QED
    BY <1>1, <2>1, <2>2, <2>3, <2>4
<1>5. ASSUME NEW t \in transfers', NEW i \in 1..2, NEW r \in movements',
             r.reverses = t.legs[i]
      PROVE  ReversedWhole(t, i, r)'
  <2>1. CASE t \in transfers /\ r \in movements
    <3>1. ReversedWhole(t, i, r)
      BY <1>1, <1>5, <2>1 DEF Transferred
    <3> QED
      BY <1>1, <3>1 DEF ReversedWhole
  <2>2. CASE t \in transfers /\ r \in work[c].movements
    BY <1>5, <2>2, CommitReversesWhole
  <2>3. CASE t \in work[c].transfers
    <3>1. r.reverses # None
      BY <1>1, <1>5, <2>3 DEF RowsNew, None
    <3>2. Cancels(r)
      BY <1>1, <3>1 DEF RowsNew, Ledgered
    <3> QED
      BY <1>5, <2>3, <3>2, ReversesCommitted
  <2> QED
    BY <1>1, <2>1, <2>2, <2>3
<1> QED
  BY <1>2, <1>3, <1>4, <1>5 DEF Transferred

\* The transactions of the others find the tables they rely on.
LEMMA CommitKeepsOthers ==
  ASSUME WholeInv, NEW c \in Callers, Commit(c), NEW d \in Callers \ {c}
  PROVE  Transaction(d)'
<1>1. /\ movements' = movements \cup work[c].movements
      /\ transfers' = transfers \cup work[c].transfers
      /\ UNCHANGED req /\ work'[d] = work[d] /\ pc'[d] = pc[d]
  BY CommitDoes
<1>2. RowsNew(d) /\ Stage(d, pc[d]) /\ Apart(c, d) /\ Apart(d, c)
  BY DEF WholeInv, Transactions, Transaction
<1>3. RowsNew(d)'
  BY <1>1, <1>2 DEF RowsNew, Apart, Cancels, Standard, SameReversal
<1>4. Asked(d, pc[d])' /\ Events(d, pc[d])'
  BY <1>1, <1>2 DEF Stage, Asked, IsTransfer, Undoes, Events
<1>5. Alone(d, pc[d])'
  <2>1. ASSUME NEW m \in work[d].movements, m.reverses # None, NoLeg(m.reverses)
        PROVE  NoLeg(m.reverses)'
    <3>1. Cancels(m)
      BY <1>2, <2>1 DEF RowsNew
    <3> QED
      BY <1>1, <2>1, <3>1, ReversesCommitted DEF NoLeg
  <2> QED
    BY <1>1, <1>2, <2>1 DEF Stage, Alone, IsTransfer
<1>6. Pair(d, pc[d])'
  <2>1. ASSUME NEW t, NEW m, NEW i \in 1..2, LegOf(d, t, m, i)
        PROVE  LegOf(d, t, m, i)'
    BY <1>1, <2>1 DEF LegOf, Standard
  <2>2. ASSUME NEW t
        PROVE  /\ OneLeg(d, t) => OneLeg(d, t)'
               /\ BothLegs(d, t) => BothLegs(d, t)'
    BY <1>1, <2>1 DEF OneLeg, BothLegs
  <2> QED
    BY <1>1, <1>2, <2>2 DEF Stage, Pair, IsTransfer
<1>7. Aims(d, pc[d])'
  <2>1. Aims(d, pc[d])
    BY <1>2 DEF Stage
  <2>2. \A id : /\ HasStandard(movements, id) => HasStandard(movements, id)'
                /\ HasStandard(transfers, id) => HasStandard(transfers, id)'
    BY <1>1 DEF HasStandard, Standard
  <2>3. CASE req[d].op = "untransfer" /\ pc[d] \in Writing \cup {"claim"}
    <3>1. PICK o \in transfers : o.id = req[d].target
      BY <2>1, <2>3 DEF Aims, HasStandard, Standard
    <3>2. ById(transfers, o.id) = o
      BY TransferIs DEF WholeInv
    <3>3. ById(transfers', o.id) = o
      <4>1. Transferred' /\ o \in transfers'
        BY <1>1, CommitKeepsTransferred
      <4> QED
        BY <4>1, ByIdIs DEF Transferred
    <3>4. LegTarget(d)' = LegTarget(d)
      BY <1>1, <2>3, <3>1, <3>2, <3>3 DEF LegTarget, ById
    <3> QED
      BY <1>1, <2>1, <2>2, <2>3, <3>4 DEF Aims, Undoes
  <2>4. CASE req[d].op = "reverse"
    <3>1. LegTarget(d)' = req[d].target /\ LegTarget(d) = req[d].target
      BY <1>1, <2>4 DEF LegTarget
    <3>2. pc[d] = "index" => NoLeg(req[d].target)'
      <4> SUFFICES ASSUME pc[d] = "index" PROVE NoLeg(req[d].target)'
        BY <1>1
      <4>1. PICK o \in movements : o.id = req[d].target
        BY <2>1, <2>4, <3>1 DEF Aims, Undoes, HasStandard, Standard
      <4>2. \A t \in work[c].transfers : \A i \in 1..2 : t.legs[i] # o.id
        BY DEF WholeInv, Transactions, Transaction, RowsNew
      <4>3. NoLeg(req[d].target)
        BY <2>1, <2>4 DEF Aims
      <4> QED
        BY <1>1, <4>1, <4>2, <4>3 DEF NoLeg
    <3> QED
      BY <1>1, <2>1, <2>2, <2>4, <3>1, <3>2 DEF Aims, Undoes
  <2>5. CASE req[d].op = "untransfer" /\ pc[d] \notin Writing \cup {"claim"}
    BY <1>1, <2>5 DEF Aims, Writing, Inserting
  <2>6. CASE req[d].op \notin {"untransfer", "reverse"}
    BY <1>1, <2>6 DEF Aims, Undoes
  <2> QED
    BY <2>3, <2>4, <2>5, <2>6
<1> QED
  BY <1>1, <1>3, <1>4, <1>5, <1>6, <1>7 DEF Transaction, Stage

\* The movements that the trail tells of by their own events.
LEMMA AloneIds ==
  ASSUME WholeInv, NEW c \in Callers, Commit(c)
  PROVE  Ids(movements') \ LegIds(transfers') =
           (Ids(movements) \ LegIds(transfers))
             \cup IF work[c].transfers = {} THEN Ids(work[c].movements) ELSE {}
<1>1. /\ movements' = movements \cup work[c].movements
      /\ transfers' = transfers \cup work[c].transfers
      /\ RowsNew(c) /\ Stage(c, "commit")
  BY CommitDoes
<1>2. /\ Ids(movements') = Ids(movements) \cup Ids(work[c].movements)
      /\ LegIds(transfers') = LegIds(transfers) \cup LegIds(work[c].transfers)
  BY <1>1 DEF Ids, LegIds
<1>3. Ids(movements) \cap Ids(work[c].movements) = {}
  BY <1>1 DEF RowsNew, Ids
<1>4. LegIds(transfers) \subseteq Ids(movements)
  BY LegsAreMovements DEF LegIds, Ids
<1>5. CASE work[c].transfers = {}
  <2>1. LegIds(work[c].transfers) = {}
    BY <1>5 DEF LegIds
  <2> QED
    BY <1>2, <1>3, <1>4, <1>5, <2>1
<1>6. CASE work[c].transfers # {}
  <2>1. PICK t \in work[c].transfers : work[c].transfers = {t}
    BY <1>1, <1>6, CommittedPair
  <2>2. LegIds(work[c].transfers) = {t.legs[1], t.legs[2]}
    BY <2>1 DEF LegIds
  <2>3. Ids(work[c].movements) = {t.legs[1], t.legs[2]}
    BY DEF Commit, Complete
  <2> QED
    BY <1>2, <1>3, <1>4, <1>6, <2>2, <2>3
<1> QED
  BY <1>5, <1>6

LEMMA CommitKeepsTrail ==
  ASSUME WholeInv, NEW c \in Callers, Commit(c)
  PROVE  Trail'
<1>1. /\ transfers' = transfers \cup work[c].transfers
      /\ openings' = openings \cup work[c].openings
      /\ accounts' = accounts \cup work[c].accounts
      /\ audit' = audit \cup work[c].audit
      /\ Stage(c, "commit")
  BY CommitDoes
<1>2. work[c].audit = AuditEvents(work[c]) /\ work[c].accounts \cap Founded = {}
  BY <1>1 DEF Stage, Events
<1>3. accounts' \ Founded = (accounts \ Founded) \cup work[c].accounts
  BY <1>1, <1>2
<1> DEFINE TransferEvents(S) == {[type |-> "TRANSFER", subject |-> t.id] : t \in S}
           OpeningEvents(S) == {[type |-> "OPENING_BALANCE", subject |-> o.account] : o \in S}
           AccountEvents(S) == {[type |-> "ACCOUNT", subject |-> a] : a \in S}
           MovementEvents(S) == {[type |-> "MOVEMENT", subject |-> id] : id \in S}
           free == Ids(movements) \ LegIds(transfers)
           new == IF work[c].transfers = {} THEN Ids(work[c].movements) ELSE {}
<1>4. \A S, T : /\ TransferEvents(S \cup T) = TransferEvents(S) \cup TransferEvents(T)
                /\ OpeningEvents(S \cup T) = OpeningEvents(S) \cup OpeningEvents(T)
                /\ AccountEvents(S \cup T) = AccountEvents(S) \cup AccountEvents(T)
                /\ MovementEvents(S \cup T) = MovementEvents(S) \cup MovementEvents(T)
  OBVIOUS
<1>5. MovementEvents(new) =
        IF work[c].transfers = {}
        THEN {[type |-> "MOVEMENT", subject |-> m.id] : m \in work[c].movements}
        ELSE {}
  BY DEF Ids
<1>6. AuditEvents(work[c]) =
        TransferEvents(work[c].transfers) \cup OpeningEvents(work[c].openings)
          \cup AccountEvents(work[c].accounts) \cup MovementEvents(new)
  BY <1>5 DEF AuditEvents
<1>7. audit = TransferEvents(transfers) \cup OpeningEvents(openings)
                \cup AccountEvents(accounts \ Founded) \cup MovementEvents(free)
  BY DEF WholeInv, Trail, AuditMatchesLedger
<1>8. Ids(movements') \ LegIds(transfers') = free \cup new
  BY AloneIds
<1>9. AuditMatchesLedger' <=>
        audit' = TransferEvents(transfers') \cup OpeningEvents(openings')
                   \cup AccountEvents(accounts' \ Founded)
                   \cup MovementEvents(Ids(movements') \ LegIds(transfers'))
  BY DEF AuditMatchesLedger, Ids, LegIds
<1>10. AuditMatchesLedger'
  <2> HIDE DEF TransferEvents, OpeningEvents, AccountEvents, MovementEvents, free, new
  <2>1. TransferEvents(transfers') =
          TransferEvents(transfers) \cup TransferEvents(work[c].transfers)
    BY <1>1, <1>4
  <2>2. OpeningEvents(openings') =
          OpeningEvents(openings) \cup OpeningEvents(work[c].openings)
    BY <1>1, <1>4
  <2>3. AccountEvents(accounts' \ Founded) =
          AccountEvents(accounts \ Founded) \cup AccountEvents(work[c].accounts)
    BY <1>3, <1>4
  <2>4. MovementEvents(Ids(movements') \ LegIds(transfers')) =
          MovementEvents(free) \cup MovementEvents(new)
    BY <1>4, <1>8
  <2>5. audit' = audit \cup AuditEvents(work[c])
    BY <1>1, <1>2
  <2> QED
    BY <1>6, <1>7, <1>9, <2>1, <2>2, <2>3, <2>4, <2>5
<1>11. (Founded \subseteq accounts)'
  BY <1>1 DEF WholeInv, Trail
<1> QED
  BY <1>10, <1>11 DEF Trail

LEMMA CommitKeepsWhole ==
  ASSUME WholeInv, NEW c \in Callers, Commit(c)
  PROVE  WholeInv'
<1>1. /\ work'[c] = NoWork /\ pc'[c] = "idle" /\ Shape'
      /\ \A d \in Callers \ {c} : work'[d] = work[d]
  BY CommitDoes
<1>2. \A d \in Callers : Transaction(d)'
  BY <1>1, NothingStaged, CommitKeepsOthers
<1>3. ASSUME NEW d \in Callers, NEW e \in Callers, d # e
      PROVE  Apart(d, e)'
  <2>1. CASE d = c \/ e = c
    BY <1>1, <2>1, NoRowsApart
  <2>2. CASE d # c /\ e # c
    <3>1. Apart(d, e) /\ work'[d] = work[d] /\ work'[e] = work[e]
      BY <1>1, <1>3, <2>2 DEF WholeInv, Transactions
    <3> QED
      BY <3>1 DEF Apart, SameReversal
  <2> QED
    BY <2>1, <2>2
<1> QED
  BY <1>1, <1>2, <1>3, CommitKeepsLedgered, CommitKeepsTransferred, CommitKeepsTrail
     DEF WholeInv, Transactions

-----------------------------------------------------------------------------
(* The theorems *)

LEMMA InitWhole == Init => WholeInv
<1> SUFFICES ASSUME Init PROVE WholeInv
  OBVIOUS
<1>1. Shape
  BY InitInv DEF IInv
<1>2. IsFiniteSet({}) /\ movements = {} /\ transfers = {} /\ audit = {}
  BY FS_EmptySet DEF Init
<1>3. Ledgered /\ Transferred
  BY <1>2 DEF Ledgered, Transferred, SameReversal
<1>4. ASSUME NEW c \in Callers
      PROVE  Transaction(c)
  <2>1. work[c] = NoWork /\ pc[c] = "idle"
    BY DEF Init
  <2>2. RowsNew(c)
    BY <1>2, <2>1 DEF RowsNew, NoWork
  <2>3. Stage(c, "idle")
    BY <2>1 DEF Stage, Asked, Alone, Pair, Aims, Events, NoWork, NothingYet, Before, Writing,
                Inserting, Blank
  <2> QED
    BY <2>1, <2>2, <2>3 DEF Transaction
<1>5. \A c, d \in Callers : Apart(c, d)
  BY DEF Init, Apart, NoWork
<1>6. Trail
  BY DEF Init, Trail, AuditMatchesLedger, Ids
<1> QED
  BY <1>1, <1>3, <1>4, <1>5, <1>6 DEF WholeInv, Transactions

LEMMA StatementKeepsWhole ==
  ASSUME WholeInv, NEW c \in Callers, Statement(c) \/ Cut(c)
  PROVE  WholeInv'
<1>1. CASE Statement(c)
  BY <1>1, LookupKeepsWhole, OriginalKeepsWhole, ClaimKeepsWhole, RefuseKeepsWhole,
     GuardKeepsWhole, LockKeepsWhole, RecheckKeepsWhole, PolicyKeepsWhole, IndexKeepsWhole,
     SideInsertsKeepWhole, CommitKeepsWhole
     DEF Statement, Reread
<1>2. CASE Cut(c)
  BY <1>2, RefuseKeepsWhole DEF Cut
<1> QED
  BY <1>1, <1>2

LEMMA StutterKeepsWhole == WholeInv /\ UNCHANGED vars => WholeInv'
<1> SUFFICES ASSUME WholeInv, UNCHANGED vars PROVE WholeInv'
  OBVIOUS
<1>1. UNCHANGED <<accounts, movements, transfers, openings, audit, pc, req, work>>
  BY DEF vars, tables
<1>2. Shape' /\ Ledgered' /\ Transferred'
  BY <1>1 DEF WholeInv, Shape, Ledgered, Transferred, Cancels, Standard, LegsThere,
              ReversedWhole, SameReversal
<1>3. Trail'
  BY <1>1 DEF WholeInv, Trail, AuditMatchesLedger
<1>4. ASSUME NEW c \in Callers
      PROVE  Transaction(c)'
  <2>1. RowsNew(c)'
    BY <1>1 DEF WholeInv, Transactions, Transaction, RowsNew, Cancels, Standard, SameReversal
  <2>2. Asked(c, pc[c])' /\ Alone(c, pc[c])' /\ Events(c, pc[c])'
    BY <1>1, StageOf DEF Stage, Asked, Alone, IsTransfer, Undoes, NoLeg, Events
  <2>3. Pair(c, pc[c])'
    BY <1>1, StageOf DEF Stage, Pair, IsTransfer, OneLeg, BothLegs, LegOf, Standard
  <2>4. LegTarget(c)' = LegTarget(c)
    BY <1>1 DEF LegTarget, ById
  <2>5. Aims(c, pc[c])'
    BY <1>1, <2>4, StageOf DEF Stage, Aims, Undoes, HasStandard, Standard, NoLeg
  <2> QED
    BY <2>1, <2>2, <2>3, <2>5 DEF Transaction, Stage
<1>5. \A c, d \in Callers : c # d => Apart(c, d)'
  BY <1>1 DEF WholeInv, Transactions, Apart, SameReversal
<1> QED
  BY <1>2, <1>3, <1>4, <1>5 DEF WholeInv, Transactions

LEMMA NextKeepsWhole == WholeInv /\ [Next]_vars => WholeInv'
<1>1. ASSUME WholeInv, NEW c \in Callers, Ask(c) \/ Statement(c) \/ Cut(c)
      PROVE  WholeInv'
  BY <1>1, AskKeepsWhole, StatementKeepsWhole
<1> QED
  BY <1>1, StutterKeepsWhole DEF Next, Done

\* The invariant says more of the committed tables than that effects are whole.
LEMMA WholeEffects == WholeInv => EffectsAreWhole
<1> SUFFICES ASSUME WholeInv PROVE EffectsAreWhole
  OBVIOUS
<1>1. Ledgered /\ Transferred
  BY DEF WholeInv
<1>2. ASSUME NEW r \in movements, r.reverses # None
      PROVE  /\ \E m \in Standard(movements) :
                  m.id = r.reverses /\ m.account = r.account /\ m.amount + r.amount = 0
             /\ Cardinality(Reversals(movements, r.reverses)) = 1
  <2>1. Cancels(r)
    BY <1>1, <1>2 DEF Ledgered
  <2>2. Reversals(movements, r.reverses) = {r}
    BY <1>1, <1>2 DEF Ledgered, SameReversal, Reversals
  <2>3. Cardinality({r}) = 1
    BY FS_Singleton
  <2> QED
    BY <2>1, <2>2, <2>3 DEF Cancels
<1>3. ASSUME NEW t \in transfers
      PROVE  /\ {t.legs[1], t.legs[2]} \subseteq Ids(movements)
             /\ MovementOf(t.legs[1]).amount + MovementOf(t.legs[2]).amount = 0
             /\ MovementOf(t.legs[1]).account # MovementOf(t.legs[2]).account
  <2>1. PICK m \in movements, n \in movements :
          /\ m.id = t.legs[1] /\ n.id = t.legs[2]
          /\ m.amount + n.amount = 0 /\ m.account # n.account
    BY <1>1 DEF Transferred, LegsThere
  <2>2. MovementOf(t.legs[1]) = m /\ MovementOf(t.legs[2]) = n
    BY <1>1, <2>1, MovementIs DEF MovementOf
  <2> QED
    BY <2>1, <2>2 DEF Ids
<1>4. ASSUME NEW t \in transfers, NEW i \in 1..2, NEW r \in Reversals(movements, t.legs[i])
      PROVE  \E u \in Reversals(transfers, t.id) :
               r.id = u.legs[3 - i] /\ MovementOf(u.legs[i]).reverses = t.legs[3 - i]
  <2>1. ReversedWhole(t, i, r) /\ t.id # None
    BY <1>1 DEF Reversals, Transferred, None
  <2>2. PICK u \in transfers :
          /\ u.reverses = t.id /\ r.id = u.legs[3 - i]
          /\ \E n \in movements : n.id = u.legs[i] /\ n.reverses = t.legs[3 - i]
    BY <2>1 DEF ReversedWhole
  <2>3. PICK n \in movements : n.id = u.legs[i] /\ n.reverses = t.legs[3 - i]
    BY <2>2
  <2>4. MovementOf(u.legs[i]) = n
    BY <1>1, <2>3, MovementIs DEF MovementOf
  <2> QED
    BY <2>1, <2>2, <2>3, <2>4 DEF Reversals
<1> QED
  BY <1>2, <1>3, <1>4 DEF EffectsAreWhole

\* ADR-0020 and ADR-0021, for any number of callers, accounts and calls: a
\* movement is reversed at most once, by one that cancels it exactly; a transfer
\* is stored and reversed with both legs, that sum to zero, or not at all.
THEOREM EffectsAreWholeHolds == Spec => []EffectsAreWhole
  BY InitWhole, NextKeepsWhole, WholeEffects, PTL DEF Spec

\* ADR-0023: whatever fails between the first statement and the commit, the trail
\* tells of every row of the ledger, and of nothing else.
THEOREM AuditMatchesLedgerHolds == Spec => []AuditMatchesLedger
<1>1. WholeInv => AuditMatchesLedger
  BY DEF WholeInv, Trail
<1> QED
  BY <1>1, InitWhole, NextKeepsWhole, PTL DEF Spec

-----------------------------------------------------------------------------
(* The theorems for whatever clients of the API do: a payload becomes a     *)
(* request that the arguments accept, and payloads that are refused, reads  *)
(* and failed reads change nothing they rest on.                            *)


\* A payload that is refused, or a read that starts, writes nothing.
LEMMA UnwrittenCallsKeep ==
  ASSUME IInv, NEW c \in Callers, PostMalformed(c) \/ Get(c)
  PROVE  IInv'
<1>1. /\ UNCHANGED <<movements, transfers, work>>
      /\ DOMAIN pc' = Callers /\ DOMAIN req' = Callers
      /\ pc[c] = "idle" /\ pc'[c] \in {"idle", "read"}
      /\ \A d \in Callers \ {c} : pc'[d] = pc[d] /\ req'[d] = req[d]
  BY DEF IInv, Shape, PostMalformed, Get, tables
<1>2. Blank(work[c])
  BY <1>1 DEF IInv, Unwritten, MayBeAt, Before
<1>3. Shape' /\ OneInFlight' /\ ClearOfTables' /\ ClearOfOthers' /\ OneEffectPerKey'
  BY <1>1 DEF IInv, Shape, OneInFlight, ClearOfTables, ClearOfOthers, OneEffectPerKey
<1>4. Unwritten'
  BY <1>1, <1>2 DEF IInv, Unwritten, MayBeAt, Before, Inserting, Blank, IsTransfer
<1> QED
  BY <1>3, <1>4 DEF IInv

\* A store call of a read goes on to the next one or ends the read.
LEMMA ReadKeeps ==
  ASSUME IInv, NEW c \in Callers, Read(c)
  PROVE  IInv'
<1>1. MayBeAt(c, "read")
  BY DEF MayBeAt, Before, Inserting
<1>2. \/ \E kind : Refuse(c, kind)
      \/ Goto(c, "read") /\ UNCHANGED work
  BY DEF Read
<1> QED
  BY <1>1, <1>2, RefuseKeeps, GotoKeeps

\* IInv is inductive for the API.
LEMMA ApiNextKeeps == IInv /\ [ApiNext]_apiVars => IInv'
<1> SUFFICES ASSUME IInv, [ApiNext]_apiVars PROVE IInv'
  OBVIOUS
<1>1. CASE UNCHANGED apiVars
  BY <1>1, NextKeeps DEF apiVars
<1>2. ASSUME NEW c \in Callers, Post(c)
      PROVE  IInv'
  BY <1>2, BeginKeeps DEF Post
<1>3. ASSUME NEW c \in Callers, PostMalformed(c) \/ Get(c) \/ Read(c)
      PROVE  IInv'
  BY <1>3, UnwrittenCallsKeep, ReadKeeps
<1>4. ASSUME NEW c \in Callers, Statement(c) \/ Cut(c)
      PROVE  IInv'
  BY <1>4, NextKeeps DEF Next
<1>5. CASE Done
  BY <1>5, NextKeeps DEF Next
<1> QED
  BY <1>1, <1>2, <1>3, <1>4, <1>5 DEF ApiNext

\* ADR-0020 and ADR-0021, for the clients of the API: whatever they post, retry
\* and read, a key names one movement and one transfer at most.
THEOREM ApiKeepsOneEffectPerKey == ApiSpec => []OneEffectPerKey
<1>1. ApiInit => IInv
  BY InitInv DEF ApiInit
<1>2. IInv => OneEffectPerKey
  BY DEF IInv
<1> QED
  BY <1>1, <1>2, ApiNextKeeps, PTL DEF ApiSpec

-----------------------------------------------------------------------------
(* Whole effects *)

\* What a client posts, once it makes a draft, is a request of the ledger.
LEMMA PostKeepsWhole ==
  ASSUME WholeInv, NEW c \in Callers, Post(c)
  PROVE  WholeInv'
<1>1. PICK p \in Payloads : /\ WellFormed(p)
                            /\ \E t \in Targets(p.op) :
                                 LET r == [Draft(p) EXCEPT !.target = t]
                                 IN Names(r) /\ Begin(c, r)
  BY DEF Post
<1>2. PICK t, r : r = [Draft(p) EXCEPT !.target = t] /\ Names(r) /\ Begin(c, r)
  BY <1>1
<1>3. /\ DOMAIN p = {"op", "key", "from", "to", "amount", "date", "target"}
      /\ p.op \in Ops \cup {"income", "expense"} /\ p.amount \in Int
  BY PayloadsAssumption DEF IsRequest
<1>4. /\ Draft(p).op \in Ops /\ Draft(p).amount \in Int
      /\ Draft(p).op = "transfer" => Draft(p).from # Draft(p).to
  <2>1. CASE p.op \in {"income", "expense"}
    BY <1>3, <2>1 DEF Draft, Ops
  <2>2. CASE p.op \notin {"income", "expense"}
    BY <1>1, <1>3, <2>2 DEF Draft, WellFormed
  <2> QED
    BY <2>1, <2>2
<1>5. /\ r.op = Draft(p).op /\ r.amount = Draft(p).amount
      /\ r.from = Draft(p).from /\ r.to = Draft(p).to
  BY <1>2, <1>3 DEF Draft
<1>6. Acceptable(r)
  BY <1>2, <1>4, <1>5 DEF Names, Targets, Acceptable, UsedAccountIds
<1> QED
  BY <1>2, <1>6, BeginKeepsWhole

LEMMA UnwrittenCallsKeepWhole ==
  ASSUME WholeInv, NEW c \in Callers, PostMalformed(c) \/ Get(c)
  PROVE  WholeInv'
<1>1. /\ UNCHANGED tables /\ UNCHANGED <<movements, transfers>> /\ UNCHANGED work
      /\ DOMAIN pc' = Callers /\ DOMAIN req' = Callers
      /\ pc[c] = "idle" /\ pc'[c] \in {"idle", "read"}
      /\ \A d \in Callers \ {c} : pc'[d] = pc[d] /\ req'[d] = req[d]
  BY DEF WholeInv, Shape, PostMalformed, Get, tables
<1>2. Shape'
  BY <1>1 DEF WholeInv, Shape
<1>3. RowsNew(c)' /\ \A d \in Callers \ {c} : Apart(c, d)' /\ Apart(d, c)'
  BY <1>1, RowsKept
<1>4. Blank(work[c]) /\ work[c].audit = {} /\ work[c].accounts \cap Founded = {}
  BY <1>1, StageOf DEF Stage, Events, NothingYet, Before
<1>5. ASSUME NEW q \in {"idle", "read"}
      PROVE  Stage(c, q)'
  BY <1>1, <1>4 DEF Stage, Asked, Alone, Pair, Aims, Events, Blank, NothingYet, Before,
                    Writing, Inserting
<1>6. Transaction(c)'
  BY <1>1, <1>3, <1>5 DEF Transaction
<1> QED
  BY <1>1, <1>2, <1>3, <1>6, LocalStep

LEMMA ReadKeepsWhole ==
  ASSUME WholeInv, NEW c \in Callers, Read(c)
  PROVE  WholeInv'
<1>1. Stage(c, "read")
  BY StageOf DEF Read
<1>2. \/ \E kind : Refuse(c, kind)
      \/ Goto(c, "read") /\ UNCHANGED work
  BY DEF Read
<1> QED
  BY <1>1, <1>2, RefuseKeepsWhole, GotoKeepsWhole

\* WholeInv is inductive for the API.
LEMMA ApiNextKeepsWhole == WholeInv /\ [ApiNext]_apiVars => WholeInv'
<1> SUFFICES ASSUME WholeInv, [ApiNext]_apiVars PROVE WholeInv'
  OBVIOUS
<1>1. CASE UNCHANGED apiVars
  BY <1>1, StutterKeepsWhole DEF apiVars
<1>2. ASSUME NEW c \in Callers,
             Post(c) \/ PostMalformed(c) \/ Get(c) \/ Read(c) \/ Statement(c) \/ Cut(c)
      PROVE  WholeInv'
  BY <1>2, PostKeepsWhole, UnwrittenCallsKeepWhole, ReadKeepsWhole, StatementKeepsWhole
<1>3. CASE Done
  BY <1>3, StutterKeepsWhole DEF Done
<1> QED
  BY <1>1, <1>2, <1>3 DEF ApiNext

\* ADR-0020 and ADR-0021, for the clients of the API: whatever they post, and
\* whatever is cut off, no transfer and no reversal is stored by half.
THEOREM ApiKeepsEffectsWhole == ApiSpec => []EffectsAreWhole
<1>1. ApiInit => WholeInv
  BY InitWhole DEF ApiInit
<1> QED
  BY <1>1, ApiNextKeepsWhole, WholeEffects, PTL DEF ApiSpec

\* ADR-0023, for the clients of the API: the trail tells of every row they made
\* the ledger store, and of nothing else.
THEOREM ApiAuditMatchesLedger == ApiSpec => []AuditMatchesLedger
<1>1. ApiInit => WholeInv
  BY InitWhole DEF ApiInit
<1>2. WholeInv => AuditMatchesLedger
  BY DEF WholeInv, Trail
<1> QED
  BY <1>1, <1>2, ApiNextKeepsWhole, PTL DEF ApiSpec
-----------------------------------------------------------------------------
(* What clients are told *)

\* The rows say what they were asked for.
RowsTell ==
  /\ \A m \in movements :
       /\ m.account \in accounts
       /\ m.digest.op = "reverse" => m.reverses = m.digest.target
  /\ \A t \in transfers : t.reverses = None =>
       \A i \in 1..2 : \A m \in movements : m.id = t.legs[i] => m.reverses = None
  /\ \A o \in openings : o.date \in Int

\* A reversal names a row that was there when it was asked for.
Known(r) ==
  /\ r.op = "reverse" => r.target \in Ids(movements) \cup {None}
  /\ r.op = "untransfer" => r.target \in Ids(transfers) \cup {None}

IsCall(r) == DOMAIN r = {"op", "key", "from", "to", "amount", "date", "target"}

\* Each operation has statements of its own.
Made(c, p) ==
  p # "idle" =>
    /\ IsCall(req[c]) /\ req[c].date \in Int /\ Known(req[c])
    /\ p = "read" => req[c].op \in ReadOps
    /\ p = "original" => req[c].op = "untransfer"
    /\ p = "anchor" => req[c].op = "open"
    /\ p = "register" => req[c].op = "account"

\* A transaction that is about to commit holds what was asked for.
Ready(c, p) ==
  p \in {"audit", "commit"} =>
    /\ req[c].op = "account" => req[c].from \in work[c].accounts
    /\ req[c].op = "open" => NewOpening(c) \in work[c].openings
    /\ req[c].op \in {"create", "reverse"} => work[c].movements # {}

\* An insert that lost did so to its key or to an earlier reversal.
Beaten(c, p) ==
  p = "reread" =>
    /\ req[c].op \in {"create", "transfer", "untransfer"}
    /\ \/ RowsWithKey(c) # {}
       \/ req[c].op = "untransfer" /\ Reversals(transfers, req[c].target) # {}

\* Once rechecked under its lock, a movement stays unreversed.
Locked(c, p) ==
  Undoes(c) =>
    /\ p \in {"recheck", "policy", "index"} => LegTarget(c) \in lock[c]
    /\ p \in {"policy", "index"} => Reversals(movements, LegTarget(c)) = {}

\* The accounts were found before a movement is written on them.
Found(c, p) ==
  /\ req[c].op = "create" /\ p \in {"policy", "index"} => req[c].from \in accounts
  /\ req[c].op = "transfer" /\ p \in Inserting => {req[c].from, req[c].to} \subseteq accounts

Course(c, p) == Made(c, p) /\ Ready(c, p) /\ Beaten(c, p) /\ Locked(c, p) /\ Found(c, p)

\* The rows under way say what they were asked for, and what they reverse is
\* locked.
WorkTells(c) ==
  /\ \A m \in work[c].movements :
       /\ m.digest = Digest(req[c]) /\ m.account \in accounts
       /\ ~IsTransfer(c) => m.key = req[c].key
       /\ req[c].op = "reverse" => m.reverses = req[c].target
       /\ m.reverses # None => m.reverses \in lock[c]
  /\ \A t \in work[c].transfers : t.key = req[c].key /\ t.digest = Digest(req[c])
  /\ \A o \in work[c].openings : o.date \in Int

Answered ==
  {"ok", "conflict", "already", "exists", "not_found", "before_opening", "invalid", "error",
   "lost"}

\* What c may be told of its call, for ever.
Truth(c, kind) ==
  kind # "none" /\ req[c].op \notin ReadOps =>
    /\ kind \in Answered /\ IsCall(req[c])
    /\ kind = "ok" => IsStored(c)
    /\ kind \in {"conflict", "already", "exists"} => IsBarred(c)
    /\ kind = "not_found" =>
         /\ Known(req[c])
         /\ req[c].op = "reverse" => ~HasStandard(movements, req[c].target)
         /\ req[c].op = "untransfer" => ~HasStandard(transfers, req[c].target)
    /\ kind = "before_opening" => \E o \in openings : o.date > req[c].date
    /\ kind = "invalid" => ~(req[c].op \in Ops /\ WellFormed(req[c]))

Mine(c) == Course(c, pc[c]) /\ WorkTells(c) /\ Truth(c, answer[c])

Answers ==
  /\ DOMAIN lock = Callers /\ DOMAIN answer = Callers
  /\ RowsTell
  /\ \A c \in Callers : Mine(c)
  /\ \A c, d \in Callers : c # d => lock[c] \cap lock[d] = {}

\* Dates are compared as numbers.
LEMMA DatesAreNumbers ==
  ASSUME NEW d \in Dates
  PROVE  d \in Int
<1>1. d \in Nat
  BY DatesAssumption
<1> QED
  BY <1>1

\* While the tables stay as they are, only the call of c can change.
LEMMA AnswerStep ==
  ASSUME Answers, NEW c \in Callers, UNCHANGED tables,
         DOMAIN lock' = Callers, DOMAIN answer' = Callers,
         \A d \in Callers \ {c} :
           /\ work'[d] = work[d] /\ pc'[d] = pc[d] /\ req'[d] = req[d]
           /\ lock'[d] = lock[d] /\ answer'[d] = answer[d],
         Mine(c)', \A d \in Callers \ {c} : lock'[c] \cap lock[d] = {}
  PROVE  Answers'
<1>1. UNCHANGED <<accounts, movements, transfers, openings>>
  BY DEF tables
<1>2. RowsTell'
  BY <1>1 DEF Answers, RowsTell
<1>3. ASSUME NEW d \in Callers \ {c}
      PROVE  Mine(d)'
  <2>1. /\ Mine(d) /\ work'[d] = work[d] /\ pc'[d] = pc[d] /\ req'[d] = req[d]
        /\ lock'[d] = lock[d] /\ answer'[d] = answer[d]
    BY DEF Answers
  <2>2. Made(d, pc[d])' /\ Ready(d, pc[d])' /\ Beaten(d, pc[d])' /\ Found(d, pc[d])'
    BY <1>1, <2>1 DEF Mine, Course, Made, Known, Ready, NewOpening, Beaten, RowsWithKey,
                      Reversals, Found, Ids
  <2>3. LegTarget(d)' = LegTarget(d)
    BY <1>1, <2>1 DEF LegTarget, ById
  <2>4. Locked(d, pc[d])'
    BY <1>1, <2>1, <2>3 DEF Mine, Course, Locked, Undoes, Reversals
  <2>5. WorkTells(d)'
    BY <1>1, <2>1 DEF Mine, WorkTells, IsTransfer
  <2>6. Truth(d, answer[d])'
    BY <1>1, <2>1 DEF Mine, Truth, IsStored, IsBarred, RowsWithKey, Reversals, Known,
                      HasStandard, Standard, Ids
  <2> QED
    BY <2>2, <2>4, <2>5, <2>6 DEF Mine, Course
<1>4. \A d, e \in Callers : d # e => lock'[d] \cap lock'[e] = {}
  BY DEF Answers
<1> QED
  BY <1>2, <1>3, <1>4 DEF Answers

\* What a call has come to does not change with its answer.
LEMMA CourseOf ==
  ASSUME WholeInv, Answers, NEW c \in Callers
  PROVE  /\ Course(c, pc[c]) /\ WorkTells(c) /\ Truth(c, answer[c])
         /\ Stage(c, pc[c]) /\ RowsNew(c)
BY DEF Answers, Mine, WholeInv, Transactions, Transaction

\* A call may be told what is true.
LEMMA RefuseTells ==
  ASSUME WholeInv, Answers, NEW c \in Callers, NEW kind, Refuse(c, kind), Truth(c, kind)
  PROVE  Answers'
<1>1. UNCHANGED tables /\ UNCHANGED <<accounts, movements, transfers, openings, req>>
  BY DEF Refuse, Return, tables
<1>2. /\ pc'[c] = "idle" /\ work'[c] = NoWork /\ lock'[c] = {} /\ answer'[c] = kind
      /\ \A d \in Callers \ {c} :
           /\ work'[d] = work[d] /\ pc'[d] = pc[d] /\ req'[d] = req[d]
           /\ lock'[d] = lock[d] /\ answer'[d] = answer[d]
      /\ DOMAIN lock' = Callers /\ DOMAIN answer' = Callers
  BY DEF Refuse, Return, WholeInv, Shape, Answers
<1>3. Course(c, "idle")'
  BY DEF Course, Made, Ready, Beaten, Locked, Found, Inserting
<1>4. WorkTells(c)'
  BY <1>2 DEF WorkTells, NoWork
<1>5. Truth(c, kind)'
  BY <1>1 DEF Truth, IsStored, IsBarred, RowsWithKey, Reversals, Known, HasStandard,
              Standard, Ids
<1>6. Mine(c)'
  BY <1>2, <1>3, <1>4, <1>5 DEF Mine
<1> QED
  BY <1>1, <1>2, <1>6, AnswerStep

\* A statement that writes no row goes on to where its call may be.
LEMMA GotoTells ==
  ASSUME WholeInv, Answers, NEW c \in Callers, NEW p, Goto(c, p), UNCHANGED work,
         UNCHANGED lock, Course(c, p)
  PROVE  Answers'
<1>1. /\ UNCHANGED tables
      /\ UNCHANGED <<accounts, movements, transfers, openings, req, work, lock, answer>>
  BY DEF Goto, tables
<1>2. pc'[c] = p /\ \A d \in Callers \ {c} : pc'[d] = pc[d]
  BY DEF Goto, WholeInv, Shape
<1>3. Made(c, p)' /\ Ready(c, p)' /\ Beaten(c, p)' /\ Found(c, p)'
  BY <1>1 DEF Course, Made, Known, Ready, NewOpening, Beaten, RowsWithKey, Reversals, Found,
              Ids
<1>4. LegTarget(c)' = LegTarget(c)
  BY <1>1 DEF LegTarget, ById
<1>5. Locked(c, p)'
  BY <1>1, <1>4 DEF Course, Locked, Undoes, Reversals
<1>6. WorkTells(c)'
  BY <1>1, CourseOf DEF WorkTells, IsTransfer
<1>7. Truth(c, answer[c])'
  BY <1>1, CourseOf DEF Truth, IsStored, IsBarred, RowsWithKey, Reversals, Known,
                        HasStandard, Standard, Ids
<1>8. Mine(c)'
  BY <1>2, <1>3, <1>5, <1>6, <1>7 DEF Mine, Course
<1>9. /\ DOMAIN lock' = Callers /\ DOMAIN answer' = Callers
      /\ \A d \in Callers \ {c} : lock'[c] \cap lock[d] = {}
  BY <1>1 DEF Answers
<1> QED
  BY <1>1, <1>2, <1>8, <1>9, AnswerStep

\* An operation that is neither a read nor under way is told nothing yet.
LEMMA BeginTells ==
  ASSUME WholeInv, Answers, NEW c \in Callers, NEW r, Begin(c, r),
         IsCall(r), r.op \in Ops, r.date \in Int, Known(r)
  PROVE  Answers'
<1>1. /\ UNCHANGED tables /\ UNCHANGED work /\ UNCHANGED lock
      /\ UNCHANGED <<accounts, movements, transfers>>
  BY DEF Begin, tables
<1>2. /\ req'[c] = r /\ pc'[c] = FirstStatement(r.op) /\ answer'[c] = "none" /\ pc[c] = "idle"
      /\ \A d \in Callers \ {c} :
           pc'[d] = pc[d] /\ req'[d] = req[d] /\ answer'[d] = answer[d]
      /\ DOMAIN lock' = Callers /\ DOMAIN answer' = Callers
  BY <1>1 DEF Begin, WholeInv, Shape, Answers
<1>3. PICK p : p = FirstStatement(r.op)
  OBVIOUS
<1>4. /\ p \in {"register", "anchor", "lookup"}
      /\ p = "register" => r.op = "account"
      /\ p = "anchor" => r.op = "open"
  BY <1>3 DEF FirstStatement
<1>5. Course(c, p)'
  <2>1. Made(c, p)'
    BY <1>1, <1>2, <1>4 DEF Made, Known
  <2> QED
    BY <1>4, <2>1 DEF Course, Ready, Beaten, Locked, Found, Inserting
<1>6. WorkTells(c)'
  <2>1. work[c].movements = {} /\ work[c].transfers = {}
    BY <1>2, CourseOf DEF Stage, Events, Blank, NothingYet, Before
  <2>2. \A o \in work[c].openings : o.date \in Int
    BY CourseOf DEF WorkTells
  <2> QED
    BY <1>1, <2>1, <2>2 DEF WorkTells
<1>7. Truth(c, "none")'
  BY DEF Truth
<1>8. Mine(c)'
  BY <1>2, <1>3, <1>5, <1>6, <1>7 DEF Mine
<1>9. \A d \in Callers \ {c} : lock'[c] \cap lock[d] = {}
  BY <1>1 DEF Answers
<1> QED
  BY <1>1, <1>2, <1>8, <1>9, AnswerStep

LEMMA PostTells ==
  ASSUME WholeInv, Answers, NEW c \in Callers, Post(c)
  PROVE  Answers'
<1>1. PICK p \in Payloads : /\ WellFormed(p)
                            /\ \E t \in Targets(p.op) :
                                 LET r == [Draft(p) EXCEPT !.target = t]
                                 IN Names(r) /\ Begin(c, r)
  BY DEF Post
<1>2. PICK t, r : r = [Draft(p) EXCEPT !.target = t] /\ Names(r) /\ Begin(c, r)
  BY <1>1
<1>3. /\ IsCall(p) /\ p.op \in Ops \cup {"income", "expense"} /\ p.date \in Int
  <2>1. IsRequest(p, Ops \cup {"income", "expense"})
    BY PayloadsAssumption
  <2>2. p.date \in Int
    BY <2>1, DatesAreNumbers DEF IsRequest
  <2> QED
    BY <2>1, <2>2 DEF IsRequest, IsCall
<1>4. IsCall(Draft(p)) /\ Draft(p).op \in Ops /\ Draft(p).date = p.date
  <2>1. CASE p.op \in {"income", "expense"}
    BY <1>3, <2>1 DEF Draft, Ops, IsCall
  <2>2. CASE p.op \notin {"income", "expense"}
    BY <1>1, <1>3, <2>2 DEF Draft
  <2> QED
    BY <2>1, <2>2
<1>5. /\ IsCall(r) /\ r.op = Draft(p).op /\ r.date = Draft(p).date
  BY <1>2, <1>4 DEF IsCall
<1>6. Known(r)
  BY <1>2 DEF Names, Targets, Known
<1> QED
  BY <1>2, <1>3, <1>4, <1>5, <1>6, BeginTells

\* A payload that makes no draft is told so; a read starts.
LEMMA UnwrittenCallsTell ==
  ASSUME WholeInv, Answers, NEW c \in Callers, PostMalformed(c) \/ Get(c)
  PROVE  Answers'
<1>1. /\ UNCHANGED tables /\ UNCHANGED work /\ UNCHANGED lock /\ pc[c] = "idle"
      /\ UNCHANGED <<accounts, movements, transfers>>
      /\ \A d \in Callers \ {c} :
           pc'[d] = pc[d] /\ req'[d] = req[d] /\ answer'[d] = answer[d]
      /\ DOMAIN lock' = Callers /\ DOMAIN answer' = Callers
  BY DEF PostMalformed, Get, tables, WholeInv, Shape, Answers
<1>2. WorkTells(c)'
  <2>1. work[c].movements = {} /\ work[c].transfers = {}
    BY <1>1, CourseOf DEF Stage, Events, Blank, NothingYet, Before
  <2>2. \A o \in work[c].openings : o.date \in Int
    BY CourseOf DEF WorkTells
  <2> QED
    BY <1>1, <2>1, <2>2 DEF WorkTells
<1>3. ASSUME PostMalformed(c) PROVE Mine(c)'
  <2>1. PICK p \in Payloads : ~WellFormed(p) /\ req' = [req EXCEPT ![c] = p]
    BY <1>3 DEF PostMalformed
  <2>2. req'[c] = p /\ pc'[c] = "idle" /\ answer'[c] = "invalid"
    BY <1>1, <1>3, <2>1 DEF PostMalformed, WholeInv, Shape, Answers
  <2>3. IsCall(p)
    BY PayloadsAssumption DEF IsRequest, IsCall
  <2>4. Course(c, "idle")'
    BY DEF Course, Made, Ready, Beaten, Locked, Found, Inserting
  <2>5. Truth(c, "invalid")'
    BY <2>1, <2>2, <2>3 DEF Truth, Answered
  <2> QED
    BY <1>2, <2>2, <2>4, <2>5 DEF Mine
<1>4. ASSUME Get(c) PROVE Mine(c)'
  <2>1. PICK q \in Queries :
          \E t \in IF q.op = "movement" THEN Targets("reverse") ELSE {None} :
            req' = [req EXCEPT ![c] = [q EXCEPT !.target = t]]
    BY <1>4 DEF Get
  <2>2. PICK t, r : r = [q EXCEPT !.target = t] /\ req' = [req EXCEPT ![c] = r]
    BY <2>1
  <2>3. req'[c] = r /\ pc'[c] = "read" /\ answer'[c] = "none"
    BY <1>1, <1>4, <2>2 DEF Get, WholeInv, Shape, Answers
  <2>4. IsCall(q) /\ q.op \in ReadOps /\ q.date \in Int
    <3>1. IsRequest(q, ReadOps)
      BY QueriesAssumption
    <3>2. q.date \in Int
      BY <3>1, DatesAreNumbers DEF IsRequest
    <3> QED
      BY <3>1, <3>2 DEF IsRequest, IsCall
  <2>5. IsCall(r) /\ r.op = q.op /\ r.date = q.date
    BY <2>2, <2>4 DEF IsCall
  <2>6. Known(r)'
    BY <2>4, <2>5 DEF Known, ReadOps
  <2>7. Course(c, "read")'
    BY <2>3, <2>4, <2>5, <2>6 DEF Course, Made, Ready, Beaten, Locked, Found, Inserting
  <2>8. Truth(c, "none")'
    BY DEF Truth
  <2> QED
    BY <1>2, <2>3, <2>7, <2>8 DEF Mine
<1>5. \A d \in Callers \ {c} : lock'[c] \cap lock[d] = {}
  BY <1>1 DEF Answers
<1> QED
  BY <1>1, <1>3, <1>4, <1>5, AnswerStep

LEMMA ReadTells ==
  ASSUME WholeInv, Answers, NEW c \in Callers, Read(c)
  PROVE  Answers'
<1>1. pc[c] = "read" /\ Course(c, "read")
  BY CourseOf DEF Read
<1>2. \A kind : Truth(c, kind)
  BY <1>1 DEF Course, Made, Truth
<1>3. \/ \E kind : Refuse(c, kind)
      \/ Goto(c, "read") /\ UNCHANGED work /\ UNCHANGED lock
  BY DEF Read
<1> QED
  BY <1>1, <1>2, <1>3, RefuseTells, GotoTells

-----------------------------------------------------------------------------
(* What the statements find out *)

\* A call that came to a statement may fail for reasons of its own.
LEMMA FailureTells ==
  ASSUME Answers, NEW c \in Callers, pc[c] # "idle", NEW kind \in {"error", "lost"}
  PROVE  Truth(c, kind)
BY DEF Answers, Mine, Course, Made, Truth, Answered

LEMMA ReplayTells ==
  ASSUME Answers, NEW c \in Callers, pc[c] # "idle", RowsWithKey(c) # {},
         req[c].op \in {"create", "reverse", "transfer", "untransfer"}
  PROVE  Truth(c, Replayed(c))
<1>1. IsCall(req[c])
  BY DEF Answers, Mine, Course, Made
<1>2. CASE \E row \in RowsWithKey(c) : row.digest = Digest(req[c])
  BY <1>1, <1>2 DEF Replayed, Truth, Answered, IsStored
<1>3. CASE ~ \E row \in RowsWithKey(c) : row.digest = Digest(req[c])
  <2>1. IsBarred(c)
    BY <1>3 DEF IsBarred
  <2> QED
    BY <1>1, <1>3, <2>1 DEF Replayed, Truth, Answered
<1> QED
  BY <1>2, <1>3

LEMMA BarredTells ==
  ASSUME Answers, NEW c \in Callers, pc[c] # "idle", IsBarred(c),
         NEW kind \in {"conflict", "already", "exists"}
  PROVE  Truth(c, kind)
BY DEF Answers, Mine, Course, Made, Truth, Answered

LEMMA LookupTells ==
  ASSUME WholeInv, Answers, NEW c \in Callers, Lookup(c)
  PROVE  Answers'
<1>1. /\ pc[c] = "lookup" /\ Course(c, "lookup")
      /\ req[c].op \in {"create", "reverse", "transfer", "untransfer"}
  BY CourseOf DEF Lookup, Stage, Asked, Ops
<1>2. CASE RowsWithKey(c) # {}
  BY <1>1, <1>2, ReplayTells, RefuseTells DEF Lookup
<1>3. CASE RowsWithKey(c) = {}
  <2> DEFINE p == AfterLookup(req[c].op)
  <2>1. /\ p \in {"claim", "original", "guard"}
        /\ p = "original" => req[c].op = "untransfer"
        /\ p = "guard" => req[c].op # "transfer"
    BY <1>1 DEF AfterLookup
  <2>2. Goto(c, p) /\ UNCHANGED <<work, lock>>
    BY <1>3 DEF Lookup
  <2> HIDE DEF p
  <2>3. Course(c, p)
    BY <1>1, <2>1 DEF Course, Made, Ready, Beaten, Locked, Found, Inserting
  <2> QED
    BY <2>2, <2>3, GotoTells
<1> QED
  BY <1>2, <1>3

LEMMA OriginalTells ==
  ASSUME WholeInv, Answers, NEW c \in Callers, Original(c)
  PROVE  Answers'
<1>1. pc[c] = "original" /\ Course(c, "original") /\ req[c].op = "untransfer"
  BY CourseOf DEF Original, Course, Made
<1>2. CASE ~HasStandard(transfers, req[c].target)
  <2>1. Truth(c, "not_found")
    BY <1>1, <1>2 DEF Truth, Answered, Course, Made
  <2> QED
    BY <1>2, <2>1, RefuseTells DEF Original
<1>3. CASE HasStandard(transfers, req[c].target) /\ Reversals(transfers, req[c].target) # {}
  <2>1. IsBarred(c)
    BY <1>1, <1>3 DEF IsBarred
  <2> QED
    BY <1>1, <1>3, <2>1, BarredTells, RefuseTells DEF Original
<1>4. CASE Goto(c, "claim") /\ UNCHANGED <<work, lock>>
  <2>1. Course(c, "claim")
    BY <1>1 DEF Course, Made, Ready, Beaten, Locked, Found, Inserting
  <2> QED
    BY <1>4, <2>1, GotoTells
<1> QED
  BY <1>2, <1>3, <1>4 DEF Original

LEMMA RereadTells ==
  ASSUME WholeInv, Answers, NEW c \in Callers, Reread(c)
  PROVE  Answers'
<1>1. pc[c] = "reread" /\ Course(c, "reread")
  BY CourseOf DEF Reread
<1>2. CASE RowsWithKey(c) # {}
  BY <1>1, <1>2, ReplayTells, RefuseTells DEF Reread, Course, Beaten
<1>3. CASE RowsWithKey(c) = {}
  <2>1. IsBarred(c)
    BY <1>1, <1>3 DEF Course, Beaten, IsBarred
  <2> QED
    BY <1>1, <1>3, <2>1, BarredTells, RefuseTells DEF Reread
<1> QED
  BY <1>2, <1>3

\* The legs of a transfer that stands are standard movements.
LEMMA LegsStand ==
  ASSUME WholeInv, Answers, NEW t \in Standard(transfers), NEW i \in 1..2
  PROVE  \E m \in movements : m.id = t.legs[i] /\ m.reverses = None
<1>1. t \in transfers /\ t.reverses = None
  BY DEF Standard
<1>2. PICK m \in movements : m.id = t.legs[i]
  BY <1>1, LegsAreMovements
<1> QED
  BY <1>1, <1>2 DEF Answers, RowsTell

\* Which leg a transaction writes next.
LEMMA NextLeg ==
  ASSUME NEW c \in Callers, NEW p \in Inserting, Stage(c, p)
  PROVE  /\ work[c].movements = {} => Cardinality(work[c].movements) + 1 = 1
         /\ work[c].movements # {} => IsTransfer(c) /\ Cardinality(work[c].movements) + 1 = 2
<1>1. CASE work[c].movements = {}
  BY <1>1, FS_EmptySet
<1>2. CASE work[c].movements # {}
  <2>1. IsTransfer(c)
    BY <1>2 DEF Stage, Alone
  <2>2. PICK t : OneLeg(c, t)
    BY <1>2, <2>1 DEF Stage, Pair, Writing
  <2>3. PICK m : work[c].movements = {m}
    BY <2>2 DEF OneLeg
  <2>4. Cardinality(work[c].movements) = 1
    BY <2>3, FS_Singleton
  <2> QED
    BY <1>2, <2>1, <2>4
<1> QED
  BY <1>1, <1>2

\* What a reversal reverses is on an account that is there.
LEMMA ReversedAccount ==
  ASSUME WholeInv, Answers, NEW c \in Callers, Stage(c, "guard"), Undoes(c),
         HasStandard(movements, LegTarget(c))
  PROVE  Leg(c).account \in accounts
<1>1. PICK o \in movements : o.id = LegTarget(c)
  BY DEF HasStandard, Standard
<1>2. ById(movements, LegTarget(c)) = o /\ o.account \in accounts
  BY <1>1, MovementIs DEF WholeInv, Answers, RowsTell
<1>3. Cancelling(movements, LegTarget(c)).account = o.account
  BY <1>2 DEF Cancelling
<1>4. Leg(c) = Cancelling(movements, LegTarget(c))
  <2>1. CASE req[c].op = "reverse"
    <3>1. Cardinality(work[c].movements) + 1 = 1
      BY <2>1, NextLeg DEF IsTransfer, Inserting
    <3>2. Leg(c) = Legs(c)[1]
      BY <3>1 DEF Leg
    <3> QED
      BY <2>1, <3>2 DEF Legs, LegTarget
  <2>2. CASE req[c].op = "untransfer"
    <3>1. PICK t : t = ById(transfers, req[c].target)
      OBVIOUS
    <3>2. Legs(c) = <<Cancelling(movements, t.legs[2]), Cancelling(movements, t.legs[1])>>
      BY <2>2, <3>1 DEF Legs
    <3>3. LegTarget(c) = t.legs[IF work[c].movements = {} THEN 2 ELSE 1]
      BY <2>2, <3>1 DEF LegTarget
    <3>4. CASE work[c].movements = {}
      <4>1. Leg(c) = Legs(c)[1]
        BY <3>4, NextLeg DEF Leg, Inserting
      <4> QED
        BY <3>2, <3>3, <3>4, <4>1
    <3>5. CASE work[c].movements # {}
      <4>1. Leg(c) = Legs(c)[2]
        BY <3>5, NextLeg DEF Leg, Inserting
      <4> QED
        BY <3>2, <3>3, <3>5, <4>1
    <3> QED
      BY <3>4, <3>5
  <2> QED
    BY <2>1, <2>2 DEF Undoes
<1> QED
  BY <1>2, <1>3, <1>4

\* The reversal of a transfer finds the legs it reverses.
LEMMA LegTargetStands ==
  ASSUME WholeInv, Answers, NEW c \in Callers, req[c].op = "untransfer",
         HasStandard(transfers, req[c].target)
  PROVE  HasStandard(movements, LegTarget(c))
<1>1. PICK t \in Standard(transfers) : t.id = req[c].target
  BY DEF HasStandard
<1>2. ById(transfers, req[c].target) = t
  BY <1>1, TransferIs DEF WholeInv, Standard
<1>3. PICK i \in 1..2 : LegTarget(c) = t.legs[i]
  BY <1>2 DEF LegTarget
<1>4. PICK m \in movements : m.id = t.legs[i] /\ m.reverses = None
  BY LegsStand
<1> QED
  BY <1>3, <1>4 DEF HasStandard, Standard

LEMMA GuardTells ==
  ASSUME WholeInv, Answers, NEW c \in Callers, Guard(c)
  PROVE  Answers'
<1>1. /\ pc[c] = "guard" /\ Course(c, "guard") /\ Stage(c, "guard")
      /\ IsCall(req[c]) /\ Known(req[c]) /\ req[c].date \in Int
  BY CourseOf DEF Guard, Course, Made
<1>2. CASE /\ \/ Undoes(c) /\ ~HasStandard(movements, LegTarget(c))
              \/ Leg(c).account \notin accounts
           /\ Refuse(c, "not_found")
  <2>1. ~(Undoes(c) /\ HasStandard(movements, LegTarget(c)))
    BY <1>1, <1>2, ReversedAccount
  <2>2. req[c].op = "reverse" => ~HasStandard(movements, req[c].target)
    BY <2>1 DEF Undoes, LegTarget
  <2>3. req[c].op # "untransfer"
    <3> SUFFICES ASSUME req[c].op = "untransfer" PROVE FALSE
      OBVIOUS
    <3>1. HasStandard(transfers, req[c].target)
      BY <1>1 DEF Stage, Aims, Writing, Inserting
    <3> QED
      BY <2>1, <3>1, LegTargetStands DEF Undoes
  <2>4. Truth(c, "not_found")
    BY <1>1, <2>2, <2>3 DEF Truth, Answered
  <2> QED
    BY <1>2, <2>4, RefuseTells
<1>3. CASE /\ ~NotBeforeOpening(Leg(c).account, req[c].date)
           /\ Refuse(c, "before_opening")
  <2>1. PICK o \in openings : ~(req[c].date >= o.date)
    BY <1>3 DEF NotBeforeOpening
  <2>2. o.date \in Int
    BY DEF Answers, RowsTell
  <2>3. o.date > req[c].date
    BY <1>1, <2>1, <2>2
  <2>4. Truth(c, "before_opening")
    BY <1>1, <2>3 DEF Truth, Answered
  <2> QED
    BY <1>3, <2>4, RefuseTells
<1>4. CASE /\ Leg(c).account \in accounts
           /\ Goto(c, IF Undoes(c) THEN "lock" ELSE "policy")
           /\ UNCHANGED <<work, lock>>
  <2>1. PICK p : p = IF Undoes(c) THEN "lock" ELSE "policy"
    OBVIOUS
  <2>2. req[c].op = "create" => req[c].from \in accounts
    <3> SUFFICES ASSUME req[c].op = "create" PROVE req[c].from \in accounts
      OBVIOUS
    <3>1. Cardinality(work[c].movements) + 1 = 1
      BY <1>1, NextLeg DEF IsTransfer, Inserting
    <3>2. Leg(c) = Legs(c)[1]
      BY <3>1 DEF Leg
    <3>3. Leg(c).account = req[c].from
      BY <3>2 DEF Legs
    <3> QED
      BY <1>4, <3>3
  <2>3. Course(c, p)
    BY <1>1, <2>1, <2>2 DEF Course, Made, Ready, Beaten, Locked, Found, Inserting
  <2> QED
    BY <1>4, <2>1, <2>3, GotoTells
<1> QED
  BY <1>2, <1>3, <1>4 DEF Guard

LEMMA LockTells ==
  ASSUME WholeInv, Answers, NEW c \in Callers, Lock(c)
  PROVE  Answers'
<1>1. /\ pc[c] = "lock" /\ Course(c, "lock") /\ WorkTells(c) /\ Truth(c, answer[c])
  BY CourseOf DEF Lock
<1>2. /\ UNCHANGED tables
      /\ UNCHANGED <<accounts, movements, transfers, openings, req, work, answer>>
      /\ pc'[c] = "recheck" /\ lock'[c] = lock[c] \cup {LegTarget(c)}
      /\ \A d \in Callers \ {c} : pc'[d] = pc[d] /\ lock'[d] = lock[d]
      /\ DOMAIN lock' = Callers /\ DOMAIN answer' = Callers
  BY DEF Lock, Goto, tables, WholeInv, Shape, Answers
<1>3. LegTarget(c)' = LegTarget(c)
  BY <1>2 DEF LegTarget, ById
<1>4. Course(c, "recheck")'
  BY <1>1, <1>2, <1>3 DEF Course, Made, Known, Ids, Ready, Beaten, Locked, Undoes, Found,
                          Inserting
<1>5. WorkTells(c)'
  BY <1>1, <1>2 DEF WorkTells, IsTransfer
<1>6. Truth(c, answer[c])'
  BY <1>1, <1>2 DEF Truth, IsStored, IsBarred, RowsWithKey, Reversals, Known, HasStandard,
                    Standard, Ids
<1>7. Mine(c)'
  BY <1>2, <1>4, <1>5, <1>6 DEF Mine
<1>8. \A d \in Callers \ {c} : lock'[c] \cap lock[d] = {}
  BY <1>2 DEF Lock, AwaitsRow, Answers
<1> QED
  BY <1>2, <1>7, <1>8, AnswerStep

\* A leg that was reversed was reversed with its transfer.
LEMMA ReversedLegTells ==
  ASSUME WholeInv, Answers, NEW c \in Callers, req[c].op = "untransfer",
         HasStandard(transfers, req[c].target), Reversals(movements, LegTarget(c)) # {}
  PROVE  IsBarred(c)
<1>1. PICK t \in transfers : t.id = req[c].target
  BY DEF HasStandard, Standard
<1>2. ById(transfers, req[c].target) = t
  BY <1>1, TransferIs DEF WholeInv
<1>3. PICK i \in 1..2 : LegTarget(c) = t.legs[i]
  BY <1>2 DEF LegTarget
<1>4. PICK r \in movements : r.reverses = t.legs[i]
  BY <1>3 DEF Reversals
<1>5. ReversedWhole(t, i, r) /\ t.id \in Nat \ {0}
  BY <1>4 DEF WholeInv, Transferred
<1>6. PICK u \in transfers : u.reverses = t.id
  BY <1>5 DEF ReversedWhole
<1> QED
  BY <1>1, <1>5, <1>6 DEF IsBarred, Reversals, None

LEMMA RecheckTells ==
  ASSUME WholeInv, Answers, NEW c \in Callers, Recheck(c)
  PROVE  Answers'
<1>1. /\ pc[c] = "recheck" /\ Course(c, "recheck") /\ Stage(c, "recheck") /\ Undoes(c)
  BY CourseOf DEF Recheck, Stage, Asked
<1>2. CASE ~IsTransfer(c) /\ RowsWithKey(c) # {}
  <2>1. req[c].op = "reverse"
    BY <1>1, <1>2 DEF Undoes, IsTransfer
  <2> QED
    BY <1>1, <1>2, <2>1, ReplayTells, RefuseTells DEF Recheck
<1>3. CASE /\ ~(~IsTransfer(c) /\ RowsWithKey(c) # {})
           /\ Reversals(movements, LegTarget(c)) # {}
  <2>1. IsBarred(c)
    <3>1. CASE req[c].op = "reverse"
      <4>1. RowsWithKey(c) = {} /\ LegTarget(c) = req[c].target
        BY <1>3, <3>1 DEF IsTransfer, LegTarget
      <4>2. ~IsStored(c)
        BY <3>1, <4>1 DEF IsStored
      <4> QED
        BY <1>3, <3>1, <4>1, <4>2 DEF IsBarred
    <3>2. CASE req[c].op = "untransfer"
      <4>1. HasStandard(transfers, req[c].target)
        BY <1>1, <3>2 DEF Stage, Aims, Writing, Inserting
      <4> QED
        BY <1>3, <3>2, <4>1, ReversedLegTells
    <3> QED
      BY <1>1, <3>1, <3>2 DEF Undoes
  <2> QED
    BY <1>1, <1>3, <2>1, BarredTells, RefuseTells DEF Recheck
<1>4. CASE /\ Reversals(movements, LegTarget(c)) = {}
           /\ Goto(c, "policy") /\ UNCHANGED <<work, lock>>
  <2>1. Course(c, "policy")
    BY <1>1, <1>4 DEF Course, Made, Ready, Beaten, Locked, Found, Inserting, Undoes
  <2> QED
    BY <1>4, <2>1, GotoTells
<1> QED
  BY <1>2, <1>3, <1>4 DEF Recheck

LEMMA PolicyTells ==
  ASSUME WholeInv, Answers, NEW c \in Callers, Policy(c)
  PROVE  Answers'
<1>1. pc[c] = "policy" /\ Course(c, "policy")
  BY CourseOf DEF Policy
<1>2. CASE Refuse(c, "error")
  BY <1>1, <1>2, FailureTells, RefuseTells
<1>3. CASE Goto(c, "index") /\ UNCHANGED <<work, lock>>
  <2>1. Course(c, "index")
    BY <1>1 DEF Course, Made, Ready, Beaten, Locked, Found, Inserting
  <2> QED
    BY <1>3, <2>1, GotoTells
<1> QED
  BY <1>2, <1>3 DEF Policy

-----------------------------------------------------------------------------
(* What the inserts write down *)

\* The call of c wrote a row and went on, under the locks it had.
Wrote(c, p) ==
  /\ UNCHANGED tables
  /\ UNCHANGED <<accounts, movements, transfers, openings, req, lock, answer>>
  /\ pc'[c] = p
  /\ \A d \in Callers \ {c} : work'[d] = work[d] /\ pc'[d] = pc[d]

LEMMA WroteTells ==
  ASSUME WholeInv, Answers, NEW c \in Callers, NEW p, Wrote(c, p), Course(c, p)',
         WorkTells(c)'
  PROVE  Answers'
<1>1. Truth(c, answer[c])'
  BY CourseOf DEF Wrote, Truth, IsStored, IsBarred, RowsWithKey, Reversals, Known,
                  HasStandard, Standard, Ids
<1>2. Mine(c)'
  BY <1>1 DEF Wrote, Mine
<1>3. /\ DOMAIN lock' = Callers /\ DOMAIN answer' = Callers
      /\ \A d \in Callers \ {c} : lock'[c] \cap lock[d] = {}
  BY DEF Wrote, Answers
<1> QED
  BY <1>2, <1>3, AnswerStep DEF Wrote

LEMMA ClaimTells ==
  ASSUME WholeInv, Answers, NEW c \in Callers, Claim(c)
  PROVE  Answers'
<1>1. /\ pc[c] = "claim" /\ Course(c, "claim") /\ Stage(c, "claim") /\ WorkTells(c)
      /\ IsCall(req[c]) /\ Known(req[c]) /\ IsTransfer(c) /\ Blank(work[c])
  BY CourseOf DEF Claim, Course, Made, Stage, Asked, Events, NothingYet, Before
<1>2. CASE ~AccountsExist(c) /\ Refuse(c, "not_found")
  <2>1. req[c].op = "transfer"
    BY <1>2 DEF AccountsExist
  <2>2. Truth(c, "not_found")
    BY <1>1, <2>1 DEF Truth, Answered
  <2> QED
    BY <1>2, <2>2, RefuseTells
<1>3. CASE /\ \E row \in transfers : TransferClash(c, row)
           /\ Goto(c, "reread") /\ UNCHANGED <<work, lock>>
  <2>1. PICK row \in transfers : TransferClash(c, row)
    BY <1>3
  <2>2. CASE row.key = req[c].key
    <3>1. RowsWithKey(c) # {}
      BY <1>1, <2>2 DEF RowsWithKey, IsTransfer
    <3>2. Course(c, "reread")
      BY <1>1, <3>1 DEF Course, Made, Ready, Beaten, Locked, Found, Inserting, IsTransfer
    <3> QED
      BY <1>3, <3>2, GotoTells
  <2>3. CASE req[c].op = "untransfer" /\ row.reverses = req[c].target
    <3>1. HasStandard(transfers, req[c].target)
      BY <1>1, <2>3 DEF Stage, Aims
    <3>2. req[c].target # None
      BY <3>1 DEF HasStandard, Standard, WholeInv, Transferred, None
    <3>3. Reversals(transfers, req[c].target) # {}
      BY <2>3, <3>2 DEF Reversals
    <3>4. Course(c, "reread")
      BY <1>1, <2>3, <3>3 DEF Course, Made, Ready, Beaten, Locked, Found, Inserting
    <3> QED
      BY <1>3, <3>4, GotoTells
  <2> QED
    BY <2>1, <2>2, <2>3 DEF TransferClash
<1>4. CASE /\ AccountsExist(c)
           /\ Goto(c, "guard")
           /\ work' = [work EXCEPT ![c] = WithTransfer(work[c], NewTransfer(c))]
           /\ UNCHANGED lock
  <2>1. PICK t0 : t0 = NewTransfer(c)
    OBVIOUS
  <2>2. t0.key = req[c].key /\ t0.digest = Digest(req[c])
    BY <2>1 DEF NewTransfer
  <2>3. Wrote(c, "guard")
    BY <1>4 DEF Wrote, Goto, tables, WholeInv, Shape
  <2>4. /\ work'[c].movements = {} /\ work'[c].transfers = {t0}
        /\ work'[c].openings = work[c].openings
    BY <1>1, <1>4, <2>1 DEF WholeInv, Shape, Fields, WithTransfer, Blank
  <2>5. WorkTells(c)'
    BY <1>1, <2>2, <2>3, <2>4 DEF Wrote, WorkTells
  <2>6. Made(c, "guard")'
    BY <1>1, <2>3 DEF Wrote, Course, Made, Known, Ids
  <2>7. Found(c, "guard")'
    BY <1>4, <2>3 DEF Wrote, Found, AccountsExist
  <2>8. Course(c, "guard")'
    BY <2>6, <2>7 DEF Course, Ready, Beaten, Locked
  <2> QED
    BY <2>3, <2>5, <2>8, WroteTells
<1> QED
  BY <1>2, <1>3, <1>4 DEF Claim

\* The account a new movement is on was found.
LEMMA NewMovementAccount ==
  ASSUME WholeInv, Answers, NEW c \in Callers, Stage(c, "index"), Course(c, "index"),
         NEW m, m = NewMovement(c)
  PROVE  m.account \in accounts /\ m.reverses = LegTarget(c)
<1>1. /\ m.reverses = LegTarget(c) /\ (m.reverses # None => Cancels(m))
      /\ req[c].op = "transfer" => m.account \in {req[c].from, req[c].to}
  <2>1. CASE ~IsTransfer(c)
    <3>1. req[c].op # "transfer"
      BY <2>1 DEF IsTransfer
    <3> QED
      BY <2>1, <3>1, NewMovementAlone
  <2>2. CASE IsTransfer(c)
    <3>1. PICK t \in work[c].transfers : work[c].transfers = {t}
      BY <2>2 DEF Stage, Pair, Writing, Inserting
    <3>2. PICK k \in 1..2 : /\ Cardinality(work[c].movements) + 1 = k
                            /\ work[c].movements = {} <=> k = 1
      BY NextLeg DEF Inserting
    <3>3. LegOf(c, t, m, k)
      BY <2>2, <3>1, <3>2, NewMovementLeg
    <3>4. m.reverses = LegTarget(c) /\ (m.reverses # None => Cancels(m))
      BY <2>2, <3>1, <3>2, NewMovementLeg
    <3> QED
      BY <3>3, <3>4 DEF LegOf
  <2> QED
    BY <2>1, <2>2
<1>2. CASE m.reverses # None
  <2>1. PICK o \in movements : o.account = m.account
    BY <1>1, <1>2 DEF Cancels, Standard
  <2> QED
    BY <1>1, <2>1 DEF Answers, RowsTell
<1>3. CASE m.reverses = None
  <2>1. CASE req[c].op = "create"
    <3>1. Cardinality(work[c].movements) + 1 = 1
      BY <2>1, NextLeg DEF IsTransfer, Inserting
    <3>2. Leg(c) = Legs(c)[1]
      BY <3>1 DEF Leg
    <3>3. m.account = req[c].from
      BY <2>1, <3>2 DEF NewMovement, Legs
    <3> QED
      BY <1>1, <2>1, <3>3 DEF Course, Found
  <2>2. CASE req[c].op = "transfer"
    BY <1>1, <2>2 DEF Course, Found, Inserting
  <2>3. CASE Undoes(c)
    <3>1. HasStandard(movements, LegTarget(c))
      BY <2>3 DEF Stage, Aims
    <3>2. LegTarget(c) # None
      BY <3>1 DEF HasStandard, Standard, WholeInv, Ledgered, None
    <3> QED
      BY <1>1, <1>3, <3>2
  <2>4. req[c].op \in {"create", "transfer"} \/ Undoes(c)
    BY DEF Stage, Asked, Inserting, Ops, Undoes
  <2> QED
    BY <2>1, <2>2, <2>3, <2>4
<1> QED
  BY <1>1, <1>2, <1>3

LEMMA IndexTells ==
  ASSUME WholeInv, Answers, NEW c \in Callers, Index(c)
  PROVE  Answers'
<1>1. /\ pc[c] = "index" /\ Course(c, "index") /\ Stage(c, "index") /\ WorkTells(c)
      /\ IsCall(req[c])
      /\ req[c].op \in {"create", "reverse", "transfer", "untransfer"}
  BY CourseOf DEF Index, Course, Made, Stage, Asked, Ops, Inserting
<1>2. CASE /\ \E row \in movements : KeyClash(c, row)
           /\ req[c].op = "create" /\ Goto(c, "reread") /\ UNCHANGED <<work, lock>>
  <2>1. RowsWithKey(c) # {}
    BY <1>2 DEF RowsWithKey, KeyClash
  <2>2. Course(c, "reread")
    BY <1>1, <1>2, <2>1 DEF Course, Made, Ready, Beaten, Locked, Found, Inserting
  <2> QED
    BY <1>2, <2>2, GotoTells
<1>3. CASE /\ \E row \in movements : KeyClash(c, row)
           /\ req[c].op # "create" /\ Refuse(c, "conflict")
  <2>1. PICK row \in movements : ~IsTransfer(c) /\ row.key = req[c].key
    BY <1>3 DEF KeyClash
  <2>2. req[c].op = "reverse" /\ LegTarget(c) = req[c].target /\ Undoes(c)
    BY <1>1, <1>3, <2>1 DEF IsTransfer, LegTarget, Undoes
  <2>3. HasStandard(movements, req[c].target) /\ Reversals(movements, req[c].target) = {}
    BY <1>1, <2>2 DEF Stage, Aims, Course, Locked
  <2>4. req[c].target # None
    BY <2>3 DEF HasStandard, Standard, WholeInv, Ledgered, None
  <2>5. row.digest # Digest(req[c])
    <3> SUFFICES ASSUME row.digest = Digest(req[c]) PROVE FALSE
      OBVIOUS
    <3>1. row.digest.op = "reverse" /\ row.digest.target = req[c].target
      BY <1>1, <2>2 DEF Digest, IsCall
    <3>2. row.reverses = req[c].target
      BY <3>1 DEF Answers, RowsTell
    <3> QED
      BY <2>3, <2>4, <3>2 DEF Reversals
  <2>6. IsBarred(c)
    BY <2>1, <2>2, <2>5 DEF IsBarred, RowsWithKey
  <2> QED
    BY <1>1, <1>3, <2>6, BarredTells, RefuseTells
<1>4. CASE /\ ~ \E row \in movements : KeyClash(c, row)
           /\ \E row \in movements : ReversalClash(c, row)
           /\ Refuse(c, "already")
  <2>1. PICK row \in movements : Undoes(c) /\ row.reverses = LegTarget(c)
    BY <1>4 DEF ReversalClash
  <2>2. HasStandard(movements, LegTarget(c))
    BY <1>1, <2>1 DEF Stage, Aims
  <2>3. LegTarget(c) # None
    BY <2>2 DEF HasStandard, Standard, WholeInv, Ledgered, None
  <2>4. Reversals(movements, LegTarget(c)) # {}
    BY <2>1, <2>3 DEF Reversals
  <2> QED
    BY <1>1, <2>1, <2>4 DEF Course, Locked
<1>5. CASE /\ Goto(c, IF LastLeg(c) THEN "audit" ELSE "guard")
           /\ work' = [work EXCEPT ![c] = WithMovement(work[c], NewMovement(c))]
           /\ UNCHANGED lock
  <2>1. PICK m, p : m = NewMovement(c) /\ p = IF LastLeg(c) THEN "audit" ELSE "guard"
    OBVIOUS
  <2>2. p \in {"audit", "guard"}
    BY <2>1
  <2>3. Wrote(c, p)
    BY <1>5, <2>1 DEF Wrote, Goto, tables, WholeInv, Shape
  <2>4. /\ work'[c].movements = work[c].movements \cup {m}
        /\ work'[c].transfers = work[c].transfers
        /\ work'[c].openings = work[c].openings
    BY <1>5, <2>1 DEF WholeInv, Shape, Fields, WithMovement
  <2>5. m.account \in accounts /\ m.reverses = LegTarget(c)
    BY <1>1, <2>1, NewMovementAccount
  <2>6. m.digest = Digest(req[c]) /\ (~IsTransfer(c) => m.key = req[c].key)
    BY <2>1 DEF NewMovement
  <2>7. /\ req[c].op = "reverse" => m.reverses = req[c].target
        /\ m.reverses # None => m.reverses \in lock[c]
    BY <1>1, <2>5 DEF LegTarget, Undoes, Course, Locked
  <2>8. WorkTells(c)'
    BY <1>1, <2>3, <2>4, <2>5, <2>6, <2>7 DEF Wrote, WorkTells, IsTransfer
  <2>9. Made(c, p)'
    BY <1>1, <2>2, <2>3 DEF Wrote, Course, Made, Known, Ids
  <2>10. Found(c, p)'
    BY <1>1, <2>2, <2>3 DEF Wrote, Course, Found, Inserting
  <2>11. Ready(c, p)'
    BY <1>1, <2>3, <2>4 DEF Wrote, Ready
  <2>12. Course(c, p)'
    BY <2>2, <2>9, <2>10, <2>11 DEF Course, Beaten, Locked
  <2> QED
    BY <2>3, <2>8, <2>12, WroteTells
<1> QED
  BY <1>2, <1>3, <1>4, <1>5 DEF Index

LEMMA AnchorTells ==
  ASSUME WholeInv, Answers, NEW c \in Callers, Anchor(c)
  PROVE  Answers'
<1>1. /\ pc[c] = "anchor" /\ Course(c, "anchor") /\ Stage(c, "anchor") /\ WorkTells(c)
      /\ IsCall(req[c]) /\ Known(req[c]) /\ req[c].op = "open" /\ req[c].date \in Int
      /\ Blank(work[c])
  BY CourseOf DEF Anchor, Course, Made, Stage, Events, NothingYet, Before
<1>2. CASE Refuse(c, "not_found")
  <2>1. Truth(c, "not_found")
    BY <1>1 DEF Truth, Answered
  <2> QED
    BY <1>2, <2>1, RefuseTells
<1>3. CASE /\ \E o \in openings : o.account = req[c].from
           /\ Refuse(c, "exists")
  <2>1. IsBarred(c)
    BY <1>1, <1>3 DEF IsBarred
  <2> QED
    BY <1>1, <1>3, <2>1, BarredTells, RefuseTells
<1>4. CASE /\ Goto(c, "audit")
           /\ work' = [work EXCEPT ![c] = WithOpening(work[c], NewOpening(c))]
           /\ UNCHANGED lock
  <2>1. PICK o : o = NewOpening(c)
    OBVIOUS
  <2>2. o.date \in Int
    BY <1>1, <2>1 DEF NewOpening
  <2>3. Wrote(c, "audit")
    BY <1>4 DEF Wrote, Goto, tables, WholeInv, Shape
  <2>4. /\ work'[c].movements = {} /\ work'[c].transfers = {}
        /\ work'[c].openings = work[c].openings \cup {o}
    BY <1>1, <1>4, <2>1 DEF WholeInv, Shape, Fields, WithOpening, Blank
  <2>5. WorkTells(c)'
    BY <1>1, <2>2, <2>4 DEF WorkTells
  <2>6. NewOpening(c)' = o
    BY <2>1, <2>3 DEF Wrote, NewOpening
  <2>7. Made(c, "audit")'
    BY <1>1, <2>3 DEF Wrote, Course, Made, Known
  <2>8. Ready(c, "audit")'
    BY <1>1, <2>3, <2>4, <2>6 DEF Wrote, Ready
  <2>9. Course(c, "audit")'
    BY <2>7, <2>8 DEF Course, Beaten, Locked, Found, Inserting
  <2> QED
    BY <2>3, <2>5, <2>9, WroteTells
<1> QED
  BY <1>2, <1>3, <1>4 DEF Anchor

\* An account and the audit events leave the other rows as they are.
LEMMA RegisterAndAuditTell ==
  ASSUME WholeInv, Answers, NEW c \in Callers, Register(c) \/ Audit(c)
  PROVE  Answers'
<1>1. PICK p : p = IF pc[c] = "register" THEN "audit" ELSE "commit"
  OBVIOUS
<1>2. /\ pc[c] \in {"register", "audit"} /\ Course(c, pc[c]) /\ WorkTells(c)
  BY CourseOf DEF Register, Audit
<1>3. Wrote(c, p)
  BY <1>1 DEF Register, Audit, Wrote, Goto, tables, WholeInv, Shape
<1>4. /\ work'[c].movements = work[c].movements /\ work'[c].transfers = work[c].transfers
      /\ work'[c].openings = work[c].openings /\ work[c].accounts \subseteq work'[c].accounts
      /\ pc[c] = "register" => req[c].from \in work'[c].accounts
  BY DEF Register, Audit, WithAccount, WithAudit, WholeInv, Shape, Fields
<1>5. WorkTells(c)'
  BY <1>2, <1>3, <1>4 DEF Wrote, WorkTells, IsTransfer
<1>6. Made(c, p)'
  BY <1>1, <1>2, <1>3 DEF Wrote, Course, Made, Known, Ids
<1>7. Ready(c, p)'
  <2>1. CASE pc[c] = "register"
    BY <1>2, <1>3, <1>4, <2>1 DEF Wrote, Course, Made, Ready
  <2>2. CASE pc[c] = "audit"
    <3>1. NewOpening(c)' = NewOpening(c)
      BY <1>3 DEF Wrote, NewOpening
    <3> QED
      BY <1>2, <1>3, <1>4, <2>2, <3>1 DEF Wrote, Course, Ready
  <2> QED
    BY <1>2, <2>1, <2>2
<1>8. Course(c, p)'
  BY <1>1, <1>6, <1>7 DEF Course, Beaten, Locked, Found, Inserting
<1> QED
  BY <1>3, <1>5, <1>8, WroteTells

-----------------------------------------------------------------------------
(* What a commit changes in what others were told *)

\* What a commit adds: rows with the key and the digest of its own request.
LEMMA CommitAdds ==
  ASSUME WholeInv, Answers, NEW c \in Callers, Commit(c)
  PROVE  /\ movements' = movements \cup work[c].movements
         /\ transfers' = transfers \cup work[c].transfers
         /\ openings' = openings \cup work[c].openings
         /\ accounts' = accounts \cup work[c].accounts
         /\ UNCHANGED req
         /\ Course(c, "commit") /\ WorkTells(c) /\ RowsNew(c) /\ Stage(c, "commit")
         /\ IsCall(req[c])
         /\ work'[c] = NoWork /\ pc'[c] = "idle" /\ lock'[c] = {}
         /\ answer'[c] \in {"ok", "lost"}
         /\ \A d \in Callers \ {c} :
              /\ work'[d] = work[d] /\ pc'[d] = pc[d]
              /\ lock'[d] = lock[d] /\ answer'[d] = answer[d]
         /\ DOMAIN lock' = Callers /\ DOMAIN answer' = Callers
<1>1. /\ pc[c] = "commit" /\ Course(c, "commit") /\ WorkTells(c)
      /\ IsCall(req[c])
  BY CourseOf DEF Commit, Course, Made
<1>2. /\ lock'[c] = {} /\ answer'[c] \in {"ok", "lost"}
      /\ \A d \in Callers \ {c} : lock'[d] = lock[d] /\ answer'[d] = answer[d]
      /\ DOMAIN lock' = Callers /\ DOMAIN answer' = Callers
  BY DEF Commit, Return, Answers
<1> QED
  BY <1>1, <1>2, CommitDoes

LEMMA CommitKeepsRowsTell ==
  ASSUME WholeInv, Answers, NEW c \in Callers, Commit(c)
  PROVE  RowsTell'
<1>1. /\ movements' = movements \cup work[c].movements
      /\ transfers' = transfers \cup work[c].transfers
      /\ openings' = openings \cup work[c].openings
      /\ accounts' = accounts \cup work[c].accounts
      /\ WorkTells(c) /\ RowsNew(c) /\ Stage(c, "commit") /\ IsCall(req[c])
      /\ RowsTell
  BY CommitAdds DEF Answers
<1>2. \A m \in movements' : m.account \in accounts'
  BY <1>1 DEF RowsTell, WorkTells
<1>3. \A m \in movements' : m.digest.op = "reverse" => m.reverses = m.digest.target
  <2>1. ASSUME NEW m \in work[c].movements, m.digest.op = "reverse"
        PROVE  m.reverses = m.digest.target
    <3>1. m.digest = Digest(req[c])
      BY <1>1 DEF WorkTells
    <3>2. req[c].op = "reverse" /\ m.digest.target = req[c].target
      BY <1>1, <2>1, <3>1 DEF Digest, IsCall
    <3> QED
      BY <1>1, <3>2 DEF WorkTells
  <2> QED
    BY <1>1, <2>1 DEF RowsTell
<1>4. ASSUME NEW t \in transfers', t.reverses = None, NEW i \in 1..2,
             NEW m \in movements', m.id = t.legs[i]
      PROVE  m.reverses = None
  <2>1. CASE t \in transfers /\ m \in movements
    BY <1>1, <1>4, <2>1 DEF RowsTell
  <2>2. CASE t \in transfers /\ m \in work[c].movements
    <3>1. PICK n \in movements : n.id = t.legs[i]
      BY <2>2, LegsAreMovements
    <3> QED
      BY <1>1, <1>4, <2>2, <3>1 DEF RowsNew
  <2>3. CASE t \in work[c].transfers /\ m \in movements
    BY <1>1, <1>4, <2>3 DEF RowsNew
  <2>4. CASE t \in work[c].transfers /\ m \in work[c].movements
    <3>1. IsTransfer(c) /\ t.reverses = req[c].target /\ BothLegs(c, t)
      BY <1>1, <2>4, CommittedPair
    <3>2. req[c].op # "untransfer"
      <4> SUFFICES ASSUME req[c].op = "untransfer" PROVE FALSE
        OBVIOUS
      <4>1. HasStandard(transfers, req[c].target)
        BY <1>1 DEF Stage, Aims, Writing
      <4> QED
        BY <1>4, <3>1, <4>1 DEF HasStandard, Standard, WholeInv, Transferred, None
    <3>3. req[c].op = "transfer"
      BY <3>1, <3>2 DEF IsTransfer
    <3>4. PICK n \in work[c].movements, o \in work[c].movements :
            work[c].movements = {n, o} /\ LegOf(c, t, n, 1) /\ LegOf(c, t, o, 2)
      BY <3>1 DEF BothLegs
    <3> QED
      BY <2>4, <3>3, <3>4 DEF LegOf
  <2> QED
    BY <1>1, <2>1, <2>2, <2>3, <2>4
<1>5. \A o \in openings' : o.date \in Int
  BY <1>1 DEF RowsTell, WorkTells
<1> QED
  BY <1>2, <1>3, <1>4, <1>5 DEF RowsTell

\* The one whose transaction it was is told that its effect is stored.
LEMMA CommitStores ==
  ASSUME WholeInv, Answers, NEW c \in Callers, Commit(c)
  PROVE  IsStored(c)'
<1>1. /\ movements' = movements \cup work[c].movements
      /\ transfers' = transfers \cup work[c].transfers
      /\ openings' = openings \cup work[c].openings
      /\ accounts' = accounts \cup work[c].accounts
      /\ UNCHANGED req
      /\ Course(c, "commit") /\ WorkTells(c) /\ Stage(c, "commit")
  BY CommitAdds
<1>2. req[c].op \in Ops
  BY <1>1 DEF Stage, Asked
<1>3. CASE req[c].op = "account"
  BY <1>1, <1>3 DEF Course, Ready, IsStored
<1>4. CASE req[c].op = "open"
  BY <1>1, <1>4 DEF Course, Ready, NewOpening, IsStored
<1>5. CASE req[c].op \in {"create", "reverse"}
  <2>1. PICK m \in work[c].movements : TRUE
    BY <1>1, <1>5 DEF Course, Ready
  <2>2. m \in RowsWithKey(c)' /\ m.digest = Digest(req[c])
    BY <1>1, <1>5, <2>1 DEF WorkTells, RowsWithKey, IsTransfer
  <2> QED
    BY <1>1, <1>5, <2>2 DEF IsStored
<1>6. CASE IsTransfer(c)
  <2>1. PICK t \in work[c].transfers : TRUE
    BY <1>1, <1>6 DEF Stage, Pair, Writing
  <2>2. t \in RowsWithKey(c)' /\ t.digest = Digest(req[c])
    BY <1>1, <1>6, <2>1 DEF WorkTells, RowsWithKey, IsTransfer
  <2> QED
    BY <1>1, <1>6, <2>2 DEF IsStored, IsTransfer
<1> QED
  BY <1>2, <1>3, <1>4, <1>5, <1>6 DEF Ops, IsTransfer

\* What others were told stays true: nothing that a reversal was refused for is
\* undone, and no new row takes the place of one that was missing.
LEMMA CommitKeepsTruth ==
  ASSUME WholeInv, Answers, NEW c \in Callers, Commit(c), NEW d \in Callers \ {c}
  PROVE  Truth(d, answer[d])'
<1> SUFFICES ASSUME answer[d] # "none", req[d].op \notin ReadOps
             PROVE  Truth(d, answer[d])'
  BY CommitAdds DEF Truth
<1>1. /\ movements' = movements \cup work[c].movements
      /\ transfers' = transfers \cup work[c].transfers
      /\ openings' = openings \cup work[c].openings
      /\ accounts' = accounts \cup work[c].accounts
      /\ UNCHANGED req /\ answer'[d] = answer[d]
      /\ WorkTells(c) /\ RowsNew(c) /\ IsCall(req[c])
  BY CommitAdds
<1>2. Truth(d, answer[d]) /\ IsCall(req[d]) /\ answer[d] \in Answered
  BY DEF Answers, Mine, Truth
<1>3. RowsWithKey(d) \subseteq RowsWithKey(d)'
  BY <1>1 DEF RowsWithKey
<1>4. IsStored(d) => IsStored(d)'
  BY <1>1, <1>3 DEF IsStored
<1>5. IsBarred(d) => IsBarred(d)'
  <2> SUFFICES ASSUME IsBarred(d) PROVE IsBarred(d)'
    OBVIOUS
  <2>1. CASE \/ req[d].op # "open" /\ \E row \in RowsWithKey(d) : row.digest # Digest(req[d])
             \/ req[d].op = "untransfer" /\ Reversals(transfers, req[d].target) # {}
             \/ req[d].op = "open" /\ \E o \in openings : o.account = req[d].from
    BY <1>1, <1>3, <2>1 DEF IsBarred, Reversals
  <2>2. CASE req[d].op = "reverse" /\ Reversals(movements, req[d].target) # {} /\ ~IsStored(d)
    <3>1. PICK n \in movements : n.reverses = req[d].target /\ req[d].target # None
      BY <2>2 DEF Reversals
    <3>2. ASSUME NEW row \in work[c].movements, row.digest = Digest(req[d])
          PROVE  FALSE
      <4>1. row.digest = Digest(req[c])
        BY <1>1 DEF WorkTells
      <4>2. req[c].op = req[d].op /\ req[c].target = req[d].target
        BY <1>1, <1>2, <3>2, <4>1 DEF Digest, IsCall
      <4>3. row.reverses = req[d].target
        BY <1>1, <2>2, <4>2 DEF WorkTells
      <4> QED
        BY <1>1, <3>1, <4>3 DEF RowsNew, SameReversal
    <3>3. ~IsStored(d)'
      BY <1>1, <2>2, <3>2 DEF IsStored, RowsWithKey
    <3>4. (Reversals(movements, req[d].target) # {})'
      BY <1>1, <2>2 DEF Reversals
    <3> QED
      BY <1>1, <2>2, <3>3, <3>4 DEF IsBarred
  <2> QED
    BY <2>1, <2>2 DEF IsBarred
<1>6. Known(req[d]) => Known(req[d])'
  BY <1>1 DEF Known, Ids
<1>7. ASSUME Known(req[d]), req[d].op = "reverse", ~HasStandard(movements, req[d].target)
      PROVE  ~HasStandard(movements, req[d].target)'
  <2>1. \A m \in work[c].movements : m.id # req[d].target
    BY <1>1, <1>7 DEF Known, Ids, RowsNew, None
  <2> QED
    BY <1>1, <1>7, <2>1 DEF HasStandard, Standard
<1>8. ASSUME Known(req[d]), req[d].op = "untransfer", ~HasStandard(transfers, req[d].target)
      PROVE  ~HasStandard(transfers, req[d].target)'
  <2>1. \A t \in work[c].transfers : t.id # req[d].target
    BY <1>1, <1>8 DEF Known, Ids, RowsNew, None
  <2> QED
    BY <1>1, <1>8, <2>1 DEF HasStandard, Standard
<1> QED
  BY <1>1, <1>2, <1>4, <1>5, <1>6, <1>7, <1>8 DEF Truth

\* The movement that another transaction is about to reverse is the same, and
\* still stands: its lock kept this one from reversing it.
LEMMA CommitKeepsLocked ==
  ASSUME WholeInv, Answers, NEW c \in Callers, Commit(c), NEW d \in Callers \ {c}
  PROVE  Locked(d, pc[d])'
<1>1. /\ movements' = movements \cup work[c].movements
      /\ transfers' = transfers \cup work[c].transfers
      /\ UNCHANGED req /\ lock'[d] = lock[d] /\ pc'[d] = pc[d] /\ WorkTells(c)
  BY CommitAdds
<1> SUFFICES ASSUME Undoes(d), pc[d] \in {"recheck", "policy", "index"}
             PROVE  Locked(d, pc[d])'
  BY <1>1 DEF Locked, Undoes
<1>2. Locked(d, pc[d]) /\ Aims(d, pc[d])
  BY CourseOf DEF Course, Stage
<1>3. LegTarget(d)' = LegTarget(d)
  <2>1. CASE req[d].op = "reverse"
    BY <1>1, <2>1 DEF LegTarget
  <2>2. CASE req[d].op = "untransfer"
    <3>1. PICK o \in transfers : o.id = req[d].target
      BY <1>2, <2>2 DEF Aims, Writing, Inserting, HasStandard, Standard
    <3>2. ById(transfers, o.id) = o
      BY TransferIs DEF WholeInv
    <3>3. ById(transfers', o.id) = o
      <4>1. Transferred' /\ o \in transfers'
        BY <1>1, CommitKeepsTransferred
      <4> QED
        BY <4>1, ByIdIs DEF Transferred
    <3>4. work'[d] = work[d]
      BY CommitAdds
    <3> QED
      BY <1>1, <2>2, <3>1, <3>2, <3>3, <3>4 DEF LegTarget, ById
  <2> QED
    BY <2>1, <2>2 DEF Undoes
<1>4. LegTarget(d) \in lock[d] /\ LegTarget(d) \notin lock[c]
  BY <1>2 DEF Locked, Answers
<1>5. \A m \in work[c].movements : m.reverses = LegTarget(d) => LegTarget(d) = None
  BY <1>1, <1>4 DEF WorkTells
<1>6. Reversals(movements, LegTarget(d)) = {} => (Reversals(movements, LegTarget(d)) = {})'
  BY <1>1, <1>3, <1>5 DEF Reversals
<1> QED
  BY <1>1, <1>2, <1>3, <1>4, <1>6 DEF Locked, Undoes

LEMMA CommitTells ==
  ASSUME WholeInv, Answers, NEW c \in Callers, Commit(c)
  PROVE  Answers'
<1>1. Mine(c)'
  <2>1. Course(c, "idle")'
    BY DEF Course, Made, Ready, Beaten, Locked, Found, Inserting
  <2>2. WorkTells(c)'
    BY CommitAdds DEF WorkTells, NoWork
  <2>3. Truth(c, answer[c])'
    BY CommitAdds, CommitStores DEF Truth, Answered, IsCall
  <2> QED
    BY <2>1, <2>2, <2>3, CommitAdds DEF Mine
<1>2. ASSUME NEW d \in Callers \ {c}
      PROVE  Mine(d)'
  <2>1. /\ movements' = movements \cup work[c].movements
        /\ transfers' = transfers \cup work[c].transfers
        /\ accounts' = accounts \cup work[c].accounts
        /\ UNCHANGED req /\ work'[d] = work[d] /\ pc'[d] = pc[d] /\ lock'[d] = lock[d]
        /\ Course(d, pc[d]) /\ WorkTells(d)
    BY CommitAdds, CourseOf
  <2>2. Made(d, pc[d])' /\ Ready(d, pc[d])' /\ Beaten(d, pc[d])' /\ Found(d, pc[d])'
    <3>1. Made(d, pc[d])'
      BY <2>1 DEF Course, Made, Known, Ids
    <3>2. Ready(d, pc[d])'
      BY <2>1 DEF Course, Ready, NewOpening
    <3>3. Beaten(d, pc[d])'
      BY <2>1 DEF Course, Beaten, RowsWithKey, Reversals
    <3>4. Found(d, pc[d])'
      BY <2>1 DEF Course, Found
    <3> QED
      BY <3>1, <3>2, <3>3, <3>4
  <2>3. WorkTells(d)'
    BY <2>1 DEF WorkTells, IsTransfer
  <2> QED
    BY <2>2, <2>3, CommitKeepsLocked, CommitKeepsTruth DEF Mine, Course
<1>3. \A d, e \in Callers : d # e => lock'[d] \cap lock'[e] = {}
  BY CommitAdds DEF Answers
<1> QED
  BY <1>1, <1>2, <1>3, CommitAdds, CommitKeepsRowsTell DEF Answers

-----------------------------------------------------------------------------
(* The theorem *)

LEMMA StatementTells ==
  ASSUME WholeInv, Answers, NEW c \in Callers, Statement(c) \/ Cut(c)
  PROVE  Answers'
<1>1. CASE Statement(c)
  BY <1>1, LookupTells, OriginalTells, ClaimTells, RereadTells, GuardTells, LockTells,
     RecheckTells, PolicyTells, IndexTells, AnchorTells, RegisterAndAuditTell, CommitTells
     DEF Statement
<1>2. CASE Cut(c)
  BY <1>2, FailureTells, RefuseTells DEF Cut
<1> QED
  BY <1>1, <1>2

LEMMA StutterTells == Answers /\ UNCHANGED vars => Answers'
<1> SUFFICES ASSUME Answers, UNCHANGED vars PROVE Answers'
  OBVIOUS
<1>1. UNCHANGED <<accounts, movements, transfers, openings, pc, req, work, lock, answer>>
  BY DEF vars, tables
<1>2. CASE Callers = {}
  BY <1>1, <1>2 DEF Answers, RowsTell
<1>3. ASSUME NEW c \in Callers
      PROVE  Answers'
  <2>1. Mine(c)
    BY DEF Answers
  <2>2. LegTarget(c)' = LegTarget(c)
    BY <1>1 DEF LegTarget, ById
  <2>3. Course(c, pc[c])'
    BY <1>1, <2>1, <2>2 DEF Mine, Course, Made, Known, Ids, Ready, NewOpening, Beaten,
                            RowsWithKey, Reversals, Locked, Undoes, Found
  <2>4. WorkTells(c)'
    BY <1>1, <2>1 DEF Mine, WorkTells, IsTransfer
  <2>5. Truth(c, answer[c])'
    BY <1>1, <2>1 DEF Mine, Truth, IsStored, IsBarred, RowsWithKey, Reversals, Known,
                      HasStandard, Standard, Ids
  <2>6. Mine(c)'
    BY <2>3, <2>4, <2>5 DEF Mine
  <2>7. UNCHANGED tables
    BY DEF vars
  <2> QED
    BY <1>1, <2>6, <2>7, AnswerStep DEF Answers
<1> QED
  BY <1>2, <1>3

LEMMA InitTells == Init => Answers
<1> SUFFICES ASSUME Init PROVE Answers
  OBVIOUS
<1>1. RowsTell
  BY DEF Init, RowsTell
<1>2. ASSUME NEW c \in Callers
      PROVE  Mine(c)
  <2>1. pc[c] = "idle" /\ work[c] = NoWork /\ answer[c] = "none"
    BY DEF Init
  <2>2. Course(c, "idle")
    BY DEF Course, Made, Ready, Beaten, Locked, Found, Inserting
  <2>3. WorkTells(c) /\ Truth(c, "none")
    BY <2>1 DEF WorkTells, NoWork, Truth
  <2> QED
    BY <2>1, <2>2, <2>3 DEF Mine
<1>3. /\ DOMAIN lock = Callers /\ DOMAIN answer = Callers
      /\ \A c, d \in Callers : c # d => lock[c] \cap lock[d] = {}
  BY DEF Init
<1> QED
  BY <1>1, <1>2, <1>3 DEF Answers

\* What a client was told is worth what its status says.
LEMMA AnswersTell == Answers => AnswersAreTrue
<1> SUFFICES ASSUME Answers, NEW c \in Callers, answer[c] # "none", req[c].op \notin ReadOps
             PROVE  AnswerIsTrue(c)
  BY DEF AnswersAreTrue
<1>1. Truth(c, answer[c]) /\ answer[c] \in Answered
  BY DEF Answers, Mine, Truth
<1>2. PICK s : s = Status(req[c].op, answer[c])
  OBVIOUS
<1>3. /\ s = 201 => answer[c] = "ok"
      /\ s = 409 => answer[c] \in {"conflict", "already", "exists"}
      /\ s = 404 => answer[c] = "not_found"
      /\ s = 422 => answer[c] \in {"before_opening", "invalid"}
  BY <1>1, <1>2 DEF Status, Answered
<1> QED
  BY <1>1, <1>2, <1>3 DEF AnswerIsTrue, Truth

\* Answers is inductive for the API, given that effects are whole.
LEMMA ApiNextKeepsAnswers == WholeInv /\ Answers /\ [ApiNext]_apiVars => Answers'
<1> SUFFICES ASSUME WholeInv, Answers, [ApiNext]_apiVars PROVE Answers'
  OBVIOUS
<1>1. CASE UNCHANGED apiVars
  BY <1>1, StutterTells DEF apiVars
<1>2. ASSUME NEW c \in Callers,
             Post(c) \/ PostMalformed(c) \/ Get(c) \/ Read(c) \/ Statement(c) \/ Cut(c)
      PROVE  Answers'
  BY <1>2, PostTells, UnwrittenCallsTell, ReadTells, StatementTells
<1>3. CASE Done
  BY <1>3, StutterTells DEF Done
<1> QED
  BY <1>1, <1>2, <1>3 DEF ApiNext

\* The statuses of the API, for any clients, payloads and number of calls: a 201
\* is stored, a 409 is barred for ever, a 404 names nothing that can be reversed
\* and a 422 comes before an opening balance, whatever others did meanwhile.
THEOREM ApiAnswersAreTrue == ApiSpec => []AnswersAreTrue
<1>1. ApiInit => WholeInv /\ Answers
  BY InitWhole, InitTells DEF ApiInit
<1> QED
  BY <1>1, ApiNextKeepsWhole, ApiNextKeepsAnswers, AnswersTell, PTL DEF ApiSpec

-----------------------------------------------------------------------------
(* Sums *)

\* f gives every part of S the amounts of its rows, one row after another.
IsTotal(f, S) ==
  f = [s \in SUBSET S |->
         IF s = {} THEN 0
         ELSE (CHOOSE r \in s : TRUE).amount + f[s \ {CHOOSE r \in s : TRUE}]]

LEMMA AmountsIs ==
  ASSUME NEW S
  PROVE  Amounts(S) = (CHOOSE f : IsTotal(f, S))[S]
BY DEF Amounts, IsTotal, Sums!MapThenSumSet, Sums!MapThenFoldSet

\* What fails for a finite set fails for one of which every smaller part is well.
LEMMA LeastFailure ==
  ASSUME NEW S, IsFiniteSet(S), NEW Bad, Bad \subseteq SUBSET S, Bad # {}
  PROVE  \E T \in Bad : IsFiniteSet(T) /\ \A U \in Bad : U \subseteq T => U = T
<1> DEFINE R == StrictSubsetOrdering(S)
<1>1. SUBSET S = FiniteSubsetsOf(S)
  BY FS_FiniteSubsetsOfFinite
<1>2. IsWellFoundedOn(R, SUBSET S)
  BY <1>1, FS_StrictSubsetOrderingWellFounded
<1> HIDE DEF R
<1>3. PICK T \in Bad : \A U \in Bad : ~(<<U, T>> \in R)
  BY <1>2, WFMin
<1>4. ASSUME NEW U \in Bad, U \subseteq T
      PROVE  U = T
  <2>1. ~(<<U, T>> \in StrictSubsetOrdering(S))
    BY <1>3, <1>4 DEF R
  <2>2. U \in SUBSET S /\ T \in SUBSET S
    OBVIOUS
  <2> QED
    BY <1>4, <2>1, <2>2 DEF StrictSubsetOrdering
<1>5. IsFiniteSet(T)
  BY FS_Subset
<1> QED
  BY <1>4, <1>5

\* One set has one total.
LEMMA OneTotal ==
  ASSUME NEW S, IsFiniteSet(S), NEW f, IsTotal(f, S), NEW g, IsTotal(g, S)
  PROVE  f = g
<1> DEFINE Bad == {s \in SUBSET S : f[s] # g[s]}
<1>0. ASSUME Bad # {}
      PROVE  \E T \in Bad : IsFiniteSet(T) /\ \A U \in Bad : U \subseteq T => U = T
  <2>1. Bad \subseteq SUBSET S /\ IsFiniteSet(S)
    OBVIOUS
  <2> HIDE DEF Bad
  <2> QED
    BY <1>0, <2>1, LeastFailure
<1>1. ASSUME Bad # {}
      PROVE  FALSE
  <2>1. PICK T \in Bad : \A U \in Bad : U \subseteq T => U = T
    BY <1>0, <1>1
  <2>2. T # {}
    BY <2>1 DEF IsTotal
  <2>3. PICK r \in T : r = CHOOSE x \in T : TRUE
    BY <2>2
  <2>4. f[T \ {r}] = g[T \ {r}]
    BY <2>1, <2>3
  <2>5. f[T] = r.amount + f[T \ {r}] /\ g[T] = r.amount + g[T \ {r}]
    BY <2>2, <2>3 DEF IsTotal
  <2> QED
    BY <2>4, <2>5
<1>2. \A s \in SUBSET S : f[s] = g[s]
  BY <1>1
<1>3. f = [s \in SUBSET S |-> f[s]] /\ g = [s \in SUBSET S |-> g[s]]
  BY DEF IsTotal
<1> QED
  BY <1>2, <1>3

\* The total of a set gives that of its parts.
LEMMA PartTotal ==
  ASSUME NEW S, IsFiniteSet(S), NEW f, IsTotal(f, S), NEW T, T \subseteq S,
         NEW g, IsTotal(g, T)
  PROVE  \A s \in SUBSET T : g[s] = f[s]
<1> DEFINE h == [s \in SUBSET T |-> f[s]]
<1>1. IsFiniteSet(T)
  BY FS_Subset
<1>2. IsTotal(h, T)
  <2>1. ASSUME NEW s \in SUBSET T, s # {}
        PROVE  f[s] = (CHOOSE r \in s : TRUE).amount + h[s \ {CHOOSE r \in s : TRUE}]
    BY <2>1 DEF IsTotal
  <2>2. f[{}] = 0
    BY DEF IsTotal
  <2>3. h = [s \in SUBSET T |->
               IF s = {} THEN 0
               ELSE (CHOOSE r \in s : TRUE).amount + h[s \ {CHOOSE r \in s : TRUE}]]
    BY <2>1, <2>2
  <2> QED
    BY <2>3 DEF IsTotal
<1>3. g = h
  BY <1>1, <1>2, OneTotal
<1> QED
  BY <1>3

\* Every finite set has a total.
LEMMA TotalExists ==
  ASSUME NEW S, IsFiniteSet(S)
  PROVE  \E f : IsTotal(f, S)
<1> DEFINE Bad == {s \in SUBSET S : ~ \E f : IsTotal(f, s)}
<1>0. ASSUME Bad # {}
      PROVE  \E T \in Bad : IsFiniteSet(T) /\ \A U \in Bad : U \subseteq T => U = T
  <2>1. Bad \subseteq SUBSET S /\ IsFiniteSet(S)
    OBVIOUS
  <2> HIDE DEF Bad
  <2> QED
    BY <1>0, <2>1, LeastFailure
<1>1. ASSUME Bad # {}
      PROVE  FALSE
  <2>1. PICK T \in Bad : IsFiniteSet(T) /\ \A U \in Bad : U \subseteq T => U = T
    BY <1>0, <1>1
  <2>2. ASSUME NEW s \in SUBSET T, s # T
        PROVE  \E f : IsTotal(f, s)
    <3>1. s \notin Bad /\ s \in SUBSET S
      BY <2>1, <2>2
    <3> QED
      BY <3>1
  <2> DEFINE t(s) == CHOOSE f : IsTotal(f, s)
             x(s) == CHOOSE r \in s : TRUE
             part == [s \in (SUBSET T) \ {T} |-> t(s)[s]]
             f == [s \in SUBSET T |-> IF s = {} THEN 0 ELSE x(s).amount + part[s \ {x(s)}]]
  <2>3. ASSUME NEW s \in SUBSET T, s # T
        PROVE  IsTotal(t(s), s)
    BY <2>2, <2>3
  <2>4. ASSUME NEW s \in SUBSET T, s # T
        PROVE  f[s] = part[s]
    <3>1. CASE s = {}
      <4>1. IsTotal(t({}), {})
        BY <2>3, <2>4, <3>1
      <4>2. t({})[{}] = 0
        BY <4>1 DEF IsTotal
      <4> QED
        BY <2>4, <3>1, <4>2
    <3>2. CASE s # {}
      <4>1. PICK r \in s : r = x(s)
        BY <3>2
      <4>2. s \ {r} \in SUBSET T /\ s \ {r} # T /\ s \ {r} \subseteq s
        BY <2>4, <4>1
      <4>3. IsTotal(t(s), s) /\ IsTotal(t(s \ {r}), s \ {r})
        BY <2>3, <2>4, <4>2
      <4>4. IsFiniteSet(s)
        BY <2>1, FS_Subset
      <4> HIDE DEF t
      <4>5. t(s \ {r})[s \ {r}] = t(s)[s \ {r}]
        BY <4>2, <4>3, <4>4, PartTotal
      <4>6. t(s)[s] = r.amount + t(s)[s \ {r}]
        BY <3>2, <4>1, <4>3 DEF IsTotal
      <4>7. f[s] = r.amount + part[s \ {r}]
        BY <3>2, <4>1
      <4>8. \A q \in SUBSET T : q # T => part[q] = t(q)[q]
        OBVIOUS
      <4> HIDE DEF part, f
      <4> QED
        BY <2>4, <4>2, <4>5, <4>6, <4>7, <4>8
    <3> QED
      BY <3>1, <3>2
  <2>5. ASSUME NEW s \in SUBSET T, s # {}
        PROVE  x(s) \in s /\ s \ {x(s)} \in SUBSET T /\ s \ {x(s)} # T
    BY <2>5
  <2>6. f = [s \in SUBSET T |-> IF s = {} THEN 0 ELSE x(s).amount + f[s \ {x(s)}]]
    <3> HIDE DEF part
    <3>1. ASSUME NEW s \in SUBSET T, s # {}
          PROVE  f[s] = x(s).amount + f[s \ {x(s)}]
      BY <2>4, <2>5, <3>1
    <3> QED
      BY <3>1
  <2>7. IsTotal(f, T)
    BY <2>6 DEF IsTotal
  <2> QED
    BY <2>1, <2>7
<1>2. S \notin Bad
  BY <1>1
<1> QED
  BY <1>2

\* The sum of a set: nothing, or the amount of the chosen row and the sum of the rest.
LEMMA AmountsSplit ==
  ASSUME NEW S, IsFiniteSet(S)
  PROVE  /\ S = {} => Amounts(S) = 0
         /\ S # {} => \E r \in S : /\ r = CHOOSE x \in S : TRUE
                                   /\ Amounts(S) = r.amount + Amounts(S \ {r})
<1>1. PICK f : f = (CHOOSE g : IsTotal(g, S)) /\ IsTotal(f, S)
  BY TotalExists
<1>2. Amounts(S) = f[S]
  BY <1>1, AmountsIs
<1>3. CASE S = {}
  BY <1>1, <1>2, <1>3 DEF IsTotal
<1>4. CASE S # {}
  <2>1. PICK r \in S : r = CHOOSE x \in S : TRUE
    BY <1>4
  <2>2. f[S] = r.amount + f[S \ {r}]
    BY <1>1, <1>4, <2>1 DEF IsTotal
  <2>3. IsFiniteSet(S \ {r})
    BY FS_RemoveElement
  <2>4. PICK g : g = (CHOOSE h : IsTotal(h, S \ {r})) /\ IsTotal(g, S \ {r})
    BY <2>3, TotalExists
  <2>5. Amounts(S \ {r}) = g[S \ {r}]
    BY <2>4, AmountsIs
  <2>6. g[S \ {r}] = f[S \ {r}]
    BY <1>1, <2>4, PartTotal
  <2> QED
    BY <1>2, <1>4, <2>1, <2>2, <2>5, <2>6
<1> QED
  BY <1>3, <1>4

\* Rows that have amounts.
Rows(S) == IsFiniteSet(S) /\ \A r \in S : r.amount \in Int

LEMMA AmountsInt ==
  ASSUME NEW S, Rows(S)
  PROVE  Amounts(S) \in Int
<1> DEFINE Bad == {s \in SUBSET S : Amounts(s) \notin Int}
<1>0. ASSUME Bad # {}
      PROVE  \E T \in Bad : IsFiniteSet(T) /\ \A U \in Bad : U \subseteq T => U = T
  <2>1. Bad \subseteq SUBSET S /\ IsFiniteSet(S)
    BY DEF Rows
  <2> HIDE DEF Bad
  <2> QED
    BY <1>0, <2>1, LeastFailure
<1>1. ASSUME Bad # {}
      PROVE  FALSE
  <2>1. PICK T \in Bad : IsFiniteSet(T) /\ \A U \in Bad : U \subseteq T => U = T
    BY <1>0, <1>1
  <2>2. T # {}
    BY <2>1, AmountsSplit
  <2>3. PICK r \in T : Amounts(T) = r.amount + Amounts(T \ {r})
    BY <2>1, <2>2, AmountsSplit
  <2>4. Amounts(T \ {r}) \in Int /\ r.amount \in Int
    BY <2>1, <2>3 DEF Rows
  <2> QED
    BY <2>3, <2>4
<1> QED
  BY <1>1

\* Any row may be added last.
LEMMA AmountsRemove ==
  ASSUME NEW S, Rows(S), NEW r \in S
  PROVE  Amounts(S) = r.amount + Amounts(S \ {r})
<1> DEFINE Bad == {s \in SUBSET S : \E q \in s : Amounts(s) # q.amount + Amounts(s \ {q})}
<1>0. ASSUME Bad # {}
      PROVE  \E T \in Bad : IsFiniteSet(T) /\ \A U \in Bad : U \subseteq T => U = T
  <2>1. Bad \subseteq SUBSET S /\ IsFiniteSet(S)
    BY DEF Rows
  <2> HIDE DEF Bad
  <2> QED
    BY <1>0, <2>1, LeastFailure
<1>1. ASSUME Bad # {}
      PROVE  FALSE
  <2>1. PICK T \in Bad : IsFiniteSet(T) /\ \A U \in Bad : U \subseteq T => U = T
    BY <1>0, <1>1
  <2>2. PICK q \in T : Amounts(T) # q.amount + Amounts(T \ {q})
    BY <2>1
  <2>3. PICK p \in T : Amounts(T) = p.amount + Amounts(T \ {p})
    BY <2>1, AmountsSplit
  <2>4. p # q
    BY <2>2, <2>3
  <2>5. Amounts(T \ {p}) = q.amount + Amounts((T \ {p}) \ {q})
    <3>1. T \ {p} \notin Bad /\ T \ {p} \in SUBSET S /\ q \in T \ {p}
      BY <2>1, <2>3, <2>4
    <3> QED
      BY <3>1
  <2>6. Amounts(T \ {q}) = p.amount + Amounts((T \ {q}) \ {p})
    <3>1. T \ {q} \notin Bad /\ T \ {q} \in SUBSET S /\ p \in T \ {q}
      BY <2>1, <2>2, <2>4
    <3> QED
      BY <3>1
  <2>7. Amounts((T \ {p}) \ {q}) = Amounts((T \ {q}) \ {p})
    <3>1. (T \ {p}) \ {q} = (T \ {q}) \ {p}
      OBVIOUS
    <3> QED
      BY <3>1, Zenon
  <2>8. Rows((T \ {q}) \ {p})
    BY <2>1, FS_RemoveElement DEF Rows
  <2>9. Amounts((T \ {q}) \ {p}) \in Int
    BY <2>8, AmountsInt
  <2>10. p.amount \in Int /\ q.amount \in Int
    BY DEF Rows
  <2> QED
    BY <2>2, <2>3, <2>5, <2>6, <2>7, <2>9, <2>10
<1>2. S \notin Bad
  BY <1>1
<1> QED
  BY <1>2

\* The sum of two sets that share no row is that of the one and of the other.
LEMMA AmountsUnion ==
  ASSUME NEW S, NEW T, Rows(S), Rows(T), S \cap T = {}
  PROVE  Amounts(S \cup T) = Amounts(S) + Amounts(T)
<1> DEFINE Bad == {s \in SUBSET S : Amounts(s \cup T) # Amounts(s) + Amounts(T)}
<1>0. ASSUME Bad # {}
      PROVE  \E U \in Bad : IsFiniteSet(U) /\ \A V \in Bad : V \subseteq U => V = U
  <2>1. Bad \subseteq SUBSET S /\ IsFiniteSet(S)
    BY DEF Rows
  <2> HIDE DEF Bad
  <2> QED
    BY <1>0, <2>1, LeastFailure
<1>1. ASSUME Bad # {}
      PROVE  FALSE
  <2>1. PICK U \in Bad : IsFiniteSet(U) /\ \A V \in Bad : V \subseteq U => V = U
    BY <1>0, <1>1
  <2>2. Amounts(T) \in Int
    BY AmountsInt
  <2>3. CASE U = {}
    <3>1. Amounts(U) = 0
      BY <2>1, <2>3, AmountsSplit
    <3>2. U \cup T = T
      BY <2>3
    <3>3. Amounts(U \cup T) = Amounts(T)
      BY <3>2, Zenon
    <3> QED
      BY <2>1, <2>2, <3>1, <3>3
  <2>4. CASE U # {}
    <3>1. PICK r \in U : r \in S /\ r \notin T
      BY <2>1, <2>4
    <3>2. U \ {r} \notin Bad /\ U \ {r} \in SUBSET S
      BY <2>1, <3>1
    <3>3. Amounts((U \ {r}) \cup T) = Amounts(U \ {r}) + Amounts(T)
      BY <3>2
    <3>4. Rows(U) /\ Rows(U \cup T) /\ Rows(U \ {r})
      BY <2>1, FS_Union, FS_RemoveElement DEF Rows
    <3>5. Amounts(U) = r.amount + Amounts(U \ {r})
      BY <3>1, <3>4, AmountsRemove
    <3>6. Amounts(U \cup T) = r.amount + Amounts((U \cup T) \ {r})
      BY <3>1, <3>4, AmountsRemove
    <3>7. Amounts((U \cup T) \ {r}) = Amounts((U \ {r}) \cup T)
      <4>1. (U \cup T) \ {r} = (U \ {r}) \cup T
        BY <3>1
      <4> QED
        BY <4>1, Zenon
    <3>8. r.amount \in Int /\ Amounts(U \ {r}) \in Int
      BY <3>1, <3>4, AmountsInt DEF Rows
    <3> QED
      BY <2>1, <2>2, <3>3, <3>5, <3>6, <3>7, <3>8
  <2> QED
    BY <2>3, <2>4
<1>2. S \notin Bad
  BY <1>1
<1> QED
  BY <1>2

-----------------------------------------------------------------------------
(* What a statement adds up *)

IsOpening(o) == DOMAIN o = {"account", "amount", "date"} /\ o.amount \in Int
IsMovement(m) == "id" \in DOMAIN m

\* Openings and movements are rows of two kinds, committed or under way.
RowKinds ==
  /\ IsFiniteSet(openings)
  /\ \A o \in openings : IsOpening(o)
  /\ \A m \in movements : IsMovement(m)
  /\ \A c \in Callers :
       /\ IsFiniteSet(work[c].openings)
       /\ \A o \in work[c].openings : IsOpening(o)
       /\ \A m \in work[c].movements : IsMovement(m)

\* What the read of a statement has collected: the account, then openings that
\* were there to be read.
Collected(c) ==
  pc[c] = "read" /\ req[c].op = "statement" =>
    \/ shown[c] = <<>>
    \/ \E a : shown[c] = <<a>>
    \/ \E a : \E o \in SUBSET OpeningRow(req[c].from) : shown[c] = <<a, o>>

ReadInv == RowKinds /\ DOMAIN shown = Callers /\ \A c \in Callers : Collected(c)

\* What a statement of a call does to the rows.
LEMMA StatementWrites ==
  ASSUME WholeInv, NEW c \in Callers, Statement(c) \/ Cut(c)
  PROVE  /\ UNCHANGED req /\ pc'[c] # "read"
         /\ \A d \in Callers \ {c} : pc'[d] = pc[d] /\ work'[d] = work[d]
         /\ \/ /\ UNCHANGED <<movements, openings>>
               /\ \/ work'[c] = NoWork
                  \/ /\ work'[c].openings = work[c].openings
                     /\ work'[c].movements = work[c].movements
                  \/ /\ work'[c].openings = work[c].openings
                     /\ work'[c].movements = work[c].movements \cup {NewMovement(c)}
                  \/ /\ pc[c] = "anchor"
                     /\ work'[c].openings = work[c].openings \cup {NewOpening(c)}
                     /\ work'[c].movements = work[c].movements
            \/ /\ movements' = movements \cup work[c].movements
               /\ openings' = openings \cup work[c].openings
               /\ work'[c] = NoWork
<1>1. DOMAIN work = Callers /\ DOMAIN work[c] = Fields /\ DOMAIN pc = Callers
  BY DEF WholeInv, Shape
<1> USE DEF tables
<1>2. ASSUME NEW kind, Return(c, kind)
      PROVE  /\ UNCHANGED req /\ pc'[c] # "read" /\ work'[c] = NoWork
             /\ \A d \in Callers \ {c} : pc'[d] = pc[d] /\ work'[d] = work[d]
  BY <1>1, <1>2 DEF Return
<1>3. ASSUME NEW kind, Refuse(c, kind)
      PROVE  /\ UNCHANGED req /\ pc'[c] # "read" /\ work'[c] = NoWork
             /\ \A d \in Callers \ {c} : pc'[d] = pc[d] /\ work'[d] = work[d]
             /\ UNCHANGED <<movements, openings>>
  BY <1>2, <1>3 DEF Refuse
<1>4. ASSUME NEW p, Goto(c, p), p # "read"
      PROVE  /\ UNCHANGED <<movements, openings, req>> /\ pc'[c] # "read"
             /\ \A d \in Callers \ {c} : pc'[d] = pc[d]
  BY <1>1, <1>4 DEF Goto
<1>5. CASE Lookup(c)
  <2>1. AfterLookup(req[c].op) # "read"
    BY DEF AfterLookup
  <2> QED
    BY <1>3, <1>4, <1>5, <2>1 DEF Lookup
<1>6. CASE Original(c) \/ Reread(c) \/ Lock(c) \/ Recheck(c) \/ Policy(c) \/ Cut(c)
  BY <1>3, <1>4, <1>6 DEF Original, Reread, Lock, Recheck, Policy, Cut
<1>7. CASE Guard(c)
  <2>1. (IF Undoes(c) THEN "lock" ELSE "policy") # "read"
    OBVIOUS
  <2> QED
    BY <1>3, <1>4, <1>7, <2>1 DEF Guard
<1>8. CASE Claim(c)
  <2>1. \/ \E kind : Refuse(c, kind)
        \/ Goto(c, "reread") /\ UNCHANGED work
        \/ /\ Goto(c, "guard")
           /\ work' = [work EXCEPT ![c] = WithTransfer(work[c], NewTransfer(c))]
    BY <1>8 DEF Claim
  <2>2. ASSUME work' = [work EXCEPT ![c] = WithTransfer(work[c], NewTransfer(c))]
        PROVE  /\ work'[c].openings = work[c].openings
               /\ work'[c].movements = work[c].movements
               /\ \A d \in Callers \ {c} : work'[d] = work[d]
    BY <1>1, <2>2 DEF WithTransfer, Fields
  <2> QED
    BY <1>3, <1>4, <2>1, <2>2
<1>9. CASE Index(c)
  <2>1. \/ \E kind : Refuse(c, kind)
        \/ Goto(c, "reread") /\ UNCHANGED work
        \/ \E p \in {"audit", "guard"} :
             /\ Goto(c, p)
             /\ work' = [work EXCEPT ![c] = WithMovement(work[c], NewMovement(c))]
    BY <1>9 DEF Index
  <2>2. ASSUME work' = [work EXCEPT ![c] = WithMovement(work[c], NewMovement(c))]
        PROVE  /\ work'[c].openings = work[c].openings
               /\ work'[c].movements = work[c].movements \cup {NewMovement(c)}
               /\ \A d \in Callers \ {c} : work'[d] = work[d]
    BY <1>1, <2>2 DEF WithMovement, Fields
  <2> QED
    BY <1>3, <1>4, <2>1, <2>2
<1>10. CASE Anchor(c)
  <2>1. \/ \E kind : Refuse(c, kind)
        \/ /\ Goto(c, "audit") /\ pc[c] = "anchor"
           /\ work' = [work EXCEPT ![c] = WithOpening(work[c], NewOpening(c))]
    BY <1>10 DEF Anchor
  <2>2. ASSUME work' = [work EXCEPT ![c] = WithOpening(work[c], NewOpening(c))]
        PROVE  /\ work'[c].openings = work[c].openings \cup {NewOpening(c)}
               /\ work'[c].movements = work[c].movements
               /\ \A d \in Callers \ {c} : work'[d] = work[d]
    BY <1>1, <2>2 DEF WithOpening, Fields
  <2> QED
    BY <1>3, <1>4, <2>1, <2>2
<1>11. CASE Register(c) \/ Audit(c)
  <2>1. \E p \in {"audit", "commit"} :
          /\ Goto(c, p)
          /\ \/ work' = [work EXCEPT ![c] = WithAccount(work[c], req[c].from)]
             \/ work' = [work EXCEPT ![c] = WithAudit(work[c], AuditEvents(work[c]))]
    BY <1>11 DEF Register, Audit
  <2>2. /\ work'[c].openings = work[c].openings
        /\ work'[c].movements = work[c].movements
        /\ \A d \in Callers \ {c} : work'[d] = work[d]
    BY <1>1, <2>1 DEF WithAccount, WithAudit, Fields
  <2> QED
    BY <1>4, <2>1, <2>2
<1>12. CASE Commit(c)
  BY <1>2, <1>12 DEF Commit, Store
<1> QED
  BY <1>5, <1>6, <1>7, <1>8, <1>9, <1>10, <1>11, <1>12 DEF Statement

LEMMA StatementKeepsKinds ==
  ASSUME WholeInv, RowKinds, NEW c \in Callers, Statement(c) \/ Cut(c)
  PROVE  RowKinds' /\ movements \subseteq movements' /\ openings \subseteq openings'
<1>1. IsMovement(NewMovement(c))
  BY DEF IsMovement, NewMovement
<1>2. pc[c] = "anchor" => IsOpening(NewOpening(c))
  <2>1. Stage(c, pc[c])
    BY StageOf
  <2> QED
    BY <2>1 DEF Stage, Asked, IsOpening, NewOpening
<1>3. /\ IsFiniteSet(openings) /\ IsFiniteSet(work[c].openings)
      /\ IsFiniteSet(work[c].openings \cup {NewOpening(c)})
      /\ IsFiniteSet(openings \cup work[c].openings)
  BY FS_Union, FS_AddElement DEF RowKinds
<1>4. /\ IsFiniteSet(NoWork.openings) /\ NoWork.openings = {} /\ NoWork.movements = {}
  BY FS_EmptySet DEF NoWork
<1>5. /\ \A d \in Callers \ {c} : work'[d] = work[d]
      /\ \/ /\ UNCHANGED <<movements, openings>>
            /\ \/ work'[c] = NoWork
               \/ /\ work'[c].openings = work[c].openings
                  /\ work'[c].movements = work[c].movements
               \/ /\ work'[c].openings = work[c].openings
                  /\ work'[c].movements = work[c].movements \cup {NewMovement(c)}
               \/ /\ pc[c] = "anchor"
                  /\ work'[c].openings = work[c].openings \cup {NewOpening(c)}
                  /\ work'[c].movements = work[c].movements
         \/ /\ movements' = movements \cup work[c].movements
            /\ openings' = openings \cup work[c].openings
            /\ work'[c] = NoWork
  BY StatementWrites
<1>6. /\ IsFiniteSet(work'[c].openings)
      /\ \A o \in work'[c].openings : IsOpening(o)
      /\ \A m \in work'[c].movements : IsMovement(m)
  BY <1>1, <1>2, <1>3, <1>4, <1>5 DEF RowKinds
<1>7. /\ IsFiniteSet(openings')
      /\ \A o \in openings' : IsOpening(o)
      /\ \A m \in movements' : IsMovement(m)
  BY <1>3, <1>5 DEF RowKinds
<1>8. \A d \in Callers :
        /\ IsFiniteSet(work'[d].openings)
        /\ \A o \in work'[d].openings : IsOpening(o)
        /\ \A m \in work'[d].movements : IsMovement(m)
  BY <1>5, <1>6 DEF RowKinds
<1>9. RowKinds'
  BY <1>7, <1>8 DEF RowKinds, IsOpening, IsMovement
<1> QED
  BY <1>5, <1>9

LEMMA StatementKeepsRead ==
  ASSUME WholeInv, ReadInv, NEW c \in Callers, Statement(c) \/ Cut(c), UNCHANGED shown
  PROVE  ReadInv'
<1>1. RowKinds' /\ openings \subseteq openings'
  BY StatementKeepsKinds DEF ReadInv
<1>2. UNCHANGED req /\ pc'[c] # "read" /\ \A d \in Callers \ {c} : pc'[d] = pc[d]
  BY StatementWrites
<1>3. ASSUME NEW d \in Callers
      PROVE  Collected(d)'
  BY <1>1, <1>2 DEF ReadInv, Collected, OpeningRow
<1> QED
  BY <1>1, <1>3 DEF ReadInv

\* A call that begins, by a payload or by a read, has collected nothing.
LEMMA BeginningKeepsRead ==
  ASSUME WholeInv, ReadInv, NEW c \in Callers, Post(c) \/ PostMalformed(c) \/ Get(c)
  PROVE  ReadInv'
<1>1. /\ UNCHANGED <<movements, openings, work>>
      /\ shown' = [shown EXCEPT ![c] = <<>>]
      /\ \A d \in Callers \ {c} : pc'[d] = pc[d] /\ req'[d] = req[d]
  BY DEF WholeInv, Shape, Post, PostMalformed, Get, Begin, tables
<1>2. RowKinds'
  BY <1>1 DEF ReadInv, RowKinds, IsOpening, IsMovement
<1>3. /\ DOMAIN shown' = Callers /\ shown'[c] = <<>>
      /\ \A d \in Callers \ {c} : shown'[d] = shown[d]
  BY <1>1 DEF ReadInv
<1>4. ASSUME NEW d \in Callers
      PROVE  Collected(d)'
  BY <1>1, <1>3 DEF ReadInv, Collected, OpeningRow
<1> QED
  BY <1>2, <1>3, <1>4 DEF ReadInv

\* The sections of a statement.
LEMMA StatementSections ==
  /\ Len(Sections("statement")) = 3
  /\ Sections("statement")[1] = "account"
  /\ Sections("statement")[2] = "openings"
  /\ Sections("statement")[3] = "movements"
BY DEF Sections

\* A read goes on, or it ends.
LEMMA ReadDoes ==
  ASSUME WholeInv, Answers, ReadInv, NEW c \in Callers, Read(c)
  PROVE  /\ UNCHANGED <<movements, openings, req>>
         /\ \A d \in Callers \ {c} : pc'[d] = pc[d] /\ shown'[d] = shown[d]
         /\ \A d \in Callers : work'[d] = work[d] \/ work'[d] = NoWork
         /\ DOMAIN shown' = Callers
         /\ \/ pc'[c] = "idle" /\ answer'[c] = "not_found"
            \/ /\ shown'[c] =
                    Append(shown[c], SectionRows(c, Sections(req[c].op)[Len(shown[c]) + 1]))
               /\ \/ /\ Len(shown[c]) + 1 = Len(Sections(req[c].op))
                     /\ pc'[c] = "idle"
                  \/ /\ Len(shown[c]) + 1 # Len(Sections(req[c].op))
                     /\ pc'[c] = "read" /\ UNCHANGED answer
<1>1. /\ DOMAIN work = Callers /\ DOMAIN pc = Callers /\ DOMAIN shown = Callers
      /\ DOMAIN answer = Callers
  BY DEF WholeInv, Shape, Answers, ReadInv
<1> USE DEF tables
<1>2. ASSUME NEW kind, Refuse(c, kind)
      PROVE  /\ UNCHANGED <<movements, openings, req>> /\ pc'[c] = "idle" /\ answer'[c] = kind
             /\ \A d \in Callers \ {c} : pc'[d] = pc[d]
             /\ \A d \in Callers : work'[d] = work[d] \/ work'[d] = NoWork
  BY <1>1, <1>2 DEF Refuse, Return
<1>3. ASSUME Goto(c, "read"), UNCHANGED work
      PROVE  /\ UNCHANGED <<movements, openings, req, answer>> /\ pc'[c] = "read"
             /\ \A d \in Callers \ {c} : pc'[d] = pc[d]
             /\ \A d \in Callers : work'[d] = work[d] \/ work'[d] = NoWork
  BY <1>1, <1>3 DEF Goto
<1>4. PICK rows : rows = SectionRows(c, Sections(req[c].op)[Len(shown[c]) + 1])
  OBVIOUS
<1>5. \/ Refuse(c, "not_found") /\ UNCHANGED shown
      \/ /\ shown' = [shown EXCEPT ![c] = Append(shown[c], rows)]
         /\ IF Len(shown[c]) + 1 = Len(Sections(req[c].op))
            THEN Refuse(c, "ok")
            ELSE Goto(c, "read") /\ UNCHANGED work
  BY <1>4 DEF Read
<1> QED
  BY <1>1, <1>2, <1>3, <1>4, <1>5

LEMMA AppendTo ==
  ASSUME NEW x, NEW y, NEW z
  PROVE  Append(<<x>>, y) = <<x, y>> /\ Append(<<x, y>>, z) = <<x, y, z>>
<1> DEFINE S == {x, y, z}
<1>1. <<x>> \in Seq(S) /\ <<x, y>> \in Seq(S) /\ x \in S /\ y \in S /\ z \in S
  OBVIOUS
<1>2. Len(<<x>>) = 1 /\ Len(<<x, y>>) = 2
  OBVIOUS
<1> HIDE DEF S
<1>3. PICK s : s = Append(<<x>>, y)
  OBVIOUS
<1>4. s \in Seq(S) /\ Len(s) = 2 /\ s[1] = x /\ s[2] = y
  BY <1>1, <1>2, <1>3, AppendProperties
<1>5. s = <<x, y>>
  BY <1>4
<1>6. PICK t : t = Append(<<x, y>>, z)
  OBVIOUS
<1>7. t \in Seq(S) /\ Len(t) = 3 /\ t[1] = x /\ t[2] = y /\ t[3] = z
  BY <1>1, <1>2, <1>6, AppendProperties
<1>8. t = <<x, y, z>>
  BY <1>7
<1> QED
  BY <1>3, <1>5, <1>6, <1>8

LEMMA ShortLens ==
  ASSUME NEW s, NEW x, s = <<>> \/ s = <<x>>
  PROVE  Len(s) \in {0, 1}
OBVIOUS

LEMMA ReadKeepsRead ==
  ASSUME WholeInv, Answers, ReadInv, NEW c \in Callers, Read(c)
  PROVE  ReadInv'
<1>1. /\ UNCHANGED <<movements, openings, req>>
      /\ \A d \in Callers \ {c} : pc'[d] = pc[d] /\ shown'[d] = shown[d]
      /\ \A d \in Callers : work'[d] = work[d] \/ work'[d] = NoWork
      /\ DOMAIN shown' = Callers
  BY ReadDoes
<1>2. RowKinds'
  BY <1>1, FS_EmptySet DEF ReadInv, RowKinds, IsOpening, IsMovement, NoWork
<1>3. ASSUME pc'[c] = "read", req[c].op = "statement"
      PROVE  \/ \E a : shown'[c] = <<a>>
             \/ \E a : \E o \in SUBSET OpeningRow(req[c].from) : shown'[c] = <<a, o>>
  <2>1. PICK rows : rows = SectionRows(c, Sections(req[c].op)[Len(shown[c]) + 1])
    OBVIOUS
  <2>2. shown'[c] = Append(shown[c], rows) /\ Len(shown[c]) + 1 # 3
    BY <1>3, <2>1, ReadDoes, StatementSections
  <2>3. \/ shown[c] = <<>>
        \/ \E a : shown[c] = <<a>>
        \/ \E a : \E o : shown[c] = <<a, o>>
    BY <1>3 DEF ReadInv, Collected, Read
  <2>4. CASE shown[c] = <<>>
    BY <2>2, <2>4
  <2>5. ASSUME NEW a, shown[c] = <<a>>
        PROVE  \E o \in SUBSET OpeningRow(req[c].from) : shown'[c] = <<a, o>>
    <3>1. Len(shown[c]) + 1 = 2
      BY <2>5
    <3>2. rows = OpeningRow(req[c].from)
      BY <1>3, <2>1, <3>1, StatementSections DEF SectionRows
    <3>3. shown'[c] = <<a, rows>>
      BY <2>2, <2>5, AppendTo, Zenon
    <3>4. rows \in SUBSET OpeningRow(req[c].from)
      BY <3>2
    <3> QED
      BY <3>3, <3>4, Zenon
  <2>6. ASSUME NEW a, NEW o, shown[c] = <<a, o>>
        PROVE  FALSE
    BY <2>2, <2>6
  <2> QED
    BY <2>3, <2>4, <2>5, <2>6
<1>4. ASSUME NEW d \in Callers
      PROVE  Collected(d)'
  <2>1. CASE d = c
    BY <1>1, <1>3, <2>1 DEF Collected, OpeningRow
  <2>2. CASE d # c
    BY <1>1, <2>2 DEF ReadInv, Collected, OpeningRow
  <2> QED
    BY <2>1, <2>2
<1> QED
  BY <1>1, <1>2, <1>4 DEF ReadInv

\* ReadInv is inductive for the API, given what is known of the calls.
LEMMA ApiNextKeepsRead == WholeInv /\ Answers /\ ReadInv /\ [ApiNext]_apiVars => ReadInv'
<1> SUFFICES ASSUME WholeInv, Answers, ReadInv, [ApiNext]_apiVars PROVE ReadInv'
  OBVIOUS
<1>1. CASE UNCHANGED apiVars \/ (Done /\ UNCHANGED shown)
  <2>1. UNCHANGED <<movements, openings, work, pc, req, shown>>
    BY <1>1 DEF Done, apiVars, vars, tables
  <2>2. RowKinds'
    BY <2>1 DEF ReadInv, RowKinds, IsOpening, IsMovement
  <2> QED
    BY <2>1, <2>2 DEF ReadInv, Collected, OpeningRow
<1>2. ASSUME NEW c \in Callers, Post(c) \/ PostMalformed(c) \/ Get(c)
      PROVE  ReadInv'
  BY <1>2, BeginningKeepsRead
<1>3. ASSUME NEW c \in Callers, Read(c)
      PROVE  ReadInv'
  BY <1>3, ReadKeepsRead
<1>4. ASSUME NEW c \in Callers, Statement(c) \/ Cut(c), UNCHANGED shown
      PROVE  ReadInv'
  BY <1>4, StatementKeepsRead
<1> QED
  BY <1>1, <1>2, <1>3, <1>4 DEF ApiNext

\* A client is told of a statement by the last step of its read.
LEMMA ToldByRead ==
  ASSUME WholeInv, Answers, ReadInv, [ApiNext]_apiVars, NEW c \in Callers, Told(c)
  PROVE  Read(c)
<1>1. pc[c] = "read" /\ pc'[c] = "idle" /\ answer'[c] = "ok"
  BY DEF Told
<1>2. DOMAIN pc = Callers /\ DOMAIN answer = Callers
  BY DEF WholeInv, Shape, Answers
<1>3. ~UNCHANGED pc
  BY <1>1
<1>4. ASSUME NEW d \in Callers, d # c,
             Post(d) \/ PostMalformed(d) \/ Get(d) \/ Read(d) \/ Statement(d) \/ Cut(d)
      PROVE  FALSE
  <2>1. \A e \in Callers \ {d} : pc'[e] = pc[e]
    <3>1. CASE Post(d) \/ PostMalformed(d) \/ Get(d)
      BY <1>2, <3>1 DEF Post, PostMalformed, Get, Begin
    <3>2. CASE Read(d)
      BY <3>2, ReadDoes
    <3>3. CASE Statement(d) \/ Cut(d)
      BY <3>3, StatementWrites
    <3> QED
      BY <1>4, <3>1, <3>2, <3>3
  <2> QED
    BY <1>1, <1>4, <2>1
<1>5. ~(Post(c) \/ PostMalformed(c) \/ Get(c))
  BY <1>1 DEF Post, PostMalformed, Get, Begin
<1>6. ~Cut(c)
  BY <1>1, <1>2 DEF Cut, Refuse, Return
<1>7. ~Statement(c)
  BY <1>1 DEF Statement, Lookup, Original, Claim, Reread, Guard, Lock, Recheck, Policy,
              Index, Anchor, Register, Audit, Commit
<1>8. ~Done /\ ~UNCHANGED apiVars
  BY <1>3 DEF Done, apiVars, vars
<1> QED
  BY <1>4, <1>5, <1>6, <1>7, <1>8 DEF ApiNext

\* What a client of a statement is told, and what the ledger holds.
AddsUp(c, opening, entries) ==
  LET a == req[c].from
      unseen == {o \in openings : o.account = a} \ opening
  IN /\ Closing(opening, entries) + Amounts(unseen)
          = Amounts({row \in openings \cup movements : row.account = a})
     /\ entries \subseteq movements
     /\ \A m \in entries : m.reverses # None => m.reverses \in Ids(entries)

\* The three results of a statement's read, by the names of their sections.
LEMMA PartsOf ==
  ASSUME NEW x, NEW o, NEW m
  PROVE  Part(<<x, o, m>>, "openings") = o /\ Part(<<x, o, m>>, "movements") = m
<1> DEFINE All == <<x, o, m>>
           S == Sections("statement")
<1>1. DOMAIN All = 1..3 /\ All[2] = o /\ All[3] = m
  OBVIOUS
<1>2. S[1] = "account" /\ S[2] = "openings" /\ S[3] = "movements"
  BY StatementSections
<1>3. \A i \in DOMAIN All : (S[i] = "openings" <=> i = 2) /\ (S[i] = "movements" <=> i = 3)
  <2> HIDE DEF S, All
  <2> QED
    BY <1>1, <1>2
<1>4. 2 \in DOMAIN All /\ 3 \in DOMAIN All
  BY <1>1
<1>5. /\ (CHOOSE i \in DOMAIN All : S[i] = "openings") = 2
      /\ (CHOOSE i \in DOMAIN All : S[i] = "movements") = 3
  <2> HIDE DEF S, All
  <2> QED
    BY <1>3, <1>4
<1> QED
  BY <1>1, <1>5, Zenon DEF Part

LEMMA ToldAddsUp ==
  ASSUME WholeInv, Answers, ReadInv, NEW c \in Callers, Read(c), Told(c),
         req[c].op = "statement"
  PROVE  AddsUp(c, Part(shown'[c], "openings"), Part(shown'[c], "movements"))
<1> DEFINE a == req[c].from
           opening == Part(shown'[c], "openings")
           entries == Part(shown'[c], "movements")
           unseen == {o \in openings : o.account = a} \ opening
<1>1. PICK rows : rows = SectionRows(c, Sections(req[c].op)[Len(shown[c]) + 1])
  OBVIOUS
<1>2. shown'[c] = Append(shown[c], rows) /\ Len(shown[c]) + 1 = 3
  BY <1>1, ReadDoes, StatementSections DEF Told
<1>3. \E x : \E o \in SUBSET OpeningRow(a) : shown[c] = <<x, o>>
  <2>1. pc[c] = "read" /\ Collected(c)
    BY DEF ReadInv, Read
  <2>2. ASSUME NEW x, shown[c] = <<>> \/ shown[c] = <<x>>
        PROVE  FALSE
    <3>1. Len(shown[c]) \in {0, 1}
      BY <2>2, ShortLens, Zenon
    <3>2. PICK n : n = Len(shown[c])
      OBVIOUS
    <3>3. n \in {0, 1} /\ n + 1 = 3
      BY <1>2, <3>1, <3>2, Zenon
    <3> QED
      BY <3>3
  <2> QED
    BY <2>1, <2>2 DEF Collected
<1>4. rows = AccountMovements(a)
  BY <1>1, <1>2, StatementSections DEF SectionRows
<1>5. opening \in SUBSET OpeningRow(a) /\ entries = AccountMovements(a)
  <2>1. PICK x, o : o \in SUBSET OpeningRow(a) /\ shown[c] = <<x, o>>
    BY <1>3
  <2>2. shown'[c] = <<x, o, rows>>
    BY <1>2, <2>1, AppendTo, Zenon
  <2> QED
    BY <1>4, <2>1, <2>2, PartsOf
<1>6. /\ unseen = OpeningRow(a) \ opening
       /\ {row \in openings \cup movements : row.account = a}
            = OpeningRow(a) \cup AccountMovements(a)
  BY DEF OpeningRow, AccountMovements
<1> HIDE DEF a, opening, entries, unseen
<1>7. IsFiniteSet(movements) /\ IsFiniteSet(openings)
  BY DEF WholeInv, Ledgered, ReadInv, RowKinds
<1>8. Rows(opening) /\ Rows(unseen) /\ Rows(entries) /\ Rows(OpeningRow(a))
  <2>1. /\ opening \subseteq openings /\ unseen \subseteq openings
        /\ entries \subseteq movements /\ OpeningRow(a) \subseteq openings
    BY <1>5, <1>6 DEF OpeningRow, AccountMovements
  <2>2. /\ IsFiniteSet(opening) /\ IsFiniteSet(unseen) /\ IsFiniteSet(entries)
        /\ IsFiniteSet(OpeningRow(a))
    BY <1>7, <2>1, FS_Subset
  <2>3. /\ \A m \in movements : m.amount \in Int
        /\ \A p \in openings : p.amount \in Int
    BY DEF WholeInv, Ledgered, ReadInv, RowKinds, IsOpening
  <2> QED
    BY <2>1, <2>2, <2>3 DEF Rows
<1>9. Amounts(OpeningRow(a)) = Amounts(opening) + Amounts(unseen)
  <2>1. opening \cup unseen = OpeningRow(a) /\ opening \cap unseen = {}
    BY <1>5, <1>6
  <2>2. Amounts(opening \cup unseen) = Amounts(opening) + Amounts(unseen)
    BY <1>8, <2>1, AmountsUnion
  <2> QED
    BY <2>1, <2>2, Zenon
<1>10. Amounts({row \in openings \cup movements : row.account = a})
        = Amounts(OpeningRow(a)) + Amounts(entries)
  <2>1. {row \in openings \cup movements : row.account = a} = OpeningRow(a) \cup entries
    BY <1>5, <1>6
  <2>2. OpeningRow(a) \cap entries = {}
    <3>1. \A p \in openings : "id" \notin DOMAIN p
      BY DEF ReadInv, RowKinds, IsOpening
    <3>2. \A m \in movements : "id" \in DOMAIN m
      BY DEF ReadInv, RowKinds, IsMovement
    <3> QED
      BY <1>5, <3>1, <3>2 DEF OpeningRow, AccountMovements
  <2>3. Amounts(OpeningRow(a) \cup entries) = Amounts(OpeningRow(a)) + Amounts(entries)
    BY <1>8, <2>2, AmountsUnion
  <2> QED
    BY <2>1, <2>3, Zenon
<1>11. Amounts(opening) \in Int /\ Amounts(unseen) \in Int /\ Amounts(entries) \in Int
  BY <1>8, AmountsInt
<1>12. ASSUME NEW m \in entries, m.reverses # None
       PROVE  m.reverses \in Ids(entries)
  <2>1. PICK n \in movements : n.id = m.reverses /\ n.account = m.account
    BY <1>5, <1>12 DEF WholeInv, Ledgered, Cancels, Standard, AccountMovements
  <2> QED
    BY <1>5, <2>1 DEF AccountMovements, Ids
<1>13. Closing(opening, entries) + Amounts(unseen)
         = Amounts({row \in openings \cup movements : row.account = a})
  BY <1>9, <1>10, <1>11 DEF Closing
<1>14. entries \subseteq movements
  BY <1>5 DEF AccountMovements
<1> QED
  BY <1>12, <1>13, <1>14, Zenon DEF AddsUp, a, opening, entries, unseen

\* FINANCIAL_BALANCE_STATEMENT, for every number of clients, accounts and calls:
\* whatever is stored between the three transactions of a read, the balance that
\* a client is told is that of its account when the read ends, but for an opening
\* balance that came meanwhile, and no reversal is shown alone.
THEOREM ApiStatementsAreTrue == ApiSpec => StatementsAreTrue
<1> DEFINE I == WholeInv /\ Answers /\ ReadInv
           Tells(c) ==
             Told(c) /\ req[c].op = "statement" =>
               AddsUp(c, Part(shown'[c], "openings"), Part(shown'[c], "movements"))
<1>1. ApiInit => I
  <2> SUFFICES ASSUME ApiInit PROVE I
    OBVIOUS
  <2>1. WholeInv /\ Answers
    BY InitWhole, InitTells DEF ApiInit
  <2>2. /\ openings = {} /\ movements = {} /\ pc = [c \in Callers |-> "idle"]
        /\ work = [c \in Callers |-> NoWork] /\ shown = [c \in Callers |-> <<>>]
    BY DEF ApiInit, Init
  <2>3. RowKinds
    BY <2>2, FS_EmptySet DEF RowKinds, NoWork
  <2>4. ReadInv
    BY <2>2, <2>3 DEF ReadInv, Collected
  <2> QED
    BY <2>1, <2>4
<1>2. I /\ [ApiNext]_apiVars => I'
  BY ApiNextKeepsWhole, ApiNextKeepsAnswers, ApiNextKeepsRead
<1>3. I /\ [ApiNext]_apiVars => \A c \in Callers : Tells(c)
  BY ToldByRead, ToldAddsUp
<1>4. (\A c \in Callers : Tells(c)) =>
        \A c \in Callers : Told(c) /\ req[c].op = "statement" =>
          LET a == req[c].from
              opening == Part(shown'[c], "openings")
              entries == Part(shown'[c], "movements")
              unseen == {o \in openings : o.account = a} \ opening
          IN /\ Closing(opening, entries) + Amounts(unseen)
                  = Amounts({row \in openings \cup movements : row.account = a})
             /\ entries \subseteq movements
             /\ \A m \in entries : m.reverses # None => m.reverses \in Ids(entries)
  BY Zenon DEF AddsUp
<1> QED
  BY <1>1, <1>2, <1>3, <1>4, PTL DEF ApiSpec, StatementsAreTrue

-----------------------------------------------------------------------------
(* Waits *)

\* What c holds when it is at p: the rows it locked, of one movement or of the
\* legs of one transfer, and the unique values that no key guards.
Holding(c, p) ==
  /\ p \in NothingYet \/ ~Undoes(c) => lock[c] = {}
  /\ p \in {"guard", "lock"} /\ work[c].movements = {} => lock[c] = {}
  /\ req[c].op = "untransfer" /\ lock[c] # {} =>
       \E t \in transfers : t.id = req[c].target /\ lock[c] \subseteq {t.legs[1], t.legs[2]}
  /\ work[c].openings # {} => p \in {"audit", "commit"}
  /\ \A m \in work[c].movements : IsTransfer(c) => m.key = NoKey
  /\ p \notin {"idle", "read"} /\ req[c].op \in {"create", "reverse"} => req[c].key # NoKey

HoldInv == DOMAIN lock = Callers /\ \A c \in Callers : Holding(c, pc[c])

LEMMA HoldStep ==
  ASSUME HoldInv, NEW c \in Callers, transfers \subseteq transfers',
         \A d \in Callers \ {c} :
           /\ work'[d] = work[d] /\ pc'[d] = pc[d]
           /\ req'[d] = req[d] /\ lock'[d] = lock[d],
         DOMAIN lock' = Callers, Holding(c, pc[c])'
  PROVE  HoldInv'
<1>1. ASSUME NEW d \in Callers \ {c}
      PROVE  Holding(d, pc[d])'
  <2>1. /\ Holding(d, pc[d]) /\ work'[d] = work[d] /\ pc'[d] = pc[d]
        /\ req'[d] = req[d] /\ lock'[d] = lock[d]
    BY DEF HoldInv
  <2> QED
    BY <2>1 DEF Holding, Undoes, IsTransfer
<1> QED
  BY <1>1 DEF HoldInv

\* A transaction that is over holds nothing.
LEMMA RefuseHolds ==
  ASSUME WholeInv, HoldInv, NEW c \in Callers, NEW kind, Return(c, kind),
         transfers \subseteq transfers'
  PROVE  HoldInv'
<1>1. /\ pc'[c] = "idle" /\ work'[c] = NoWork /\ lock'[c] = {} /\ DOMAIN lock' = Callers
      /\ \A d \in Callers \ {c} :
           /\ work'[d] = work[d] /\ pc'[d] = pc[d]
           /\ req'[d] = req[d] /\ lock'[d] = lock[d]
  BY DEF Return, WholeInv, Shape, HoldInv
<1>2. Holding(c, "idle")'
  BY <1>1 DEF Holding, NoWork
<1> QED
  BY <1>1, <1>2, HoldStep

\* A statement that neither writes nor locks.
LEMMA GotoHolds ==
  ASSUME WholeInv, HoldInv, NEW c \in Callers, NEW p, Goto(c, p), UNCHANGED work,
         UNCHANGED lock, Holding(c, p)
  PROVE  HoldInv'
<1>1. /\ UNCHANGED <<transfers, req>> /\ pc'[c] = p
      /\ \A d \in Callers \ {c} : pc'[d] = pc[d]
  BY DEF Goto, tables, WholeInv, Shape
<1>2. Holding(c, p)'
  BY <1>1 DEF Holding, Undoes, IsTransfer
<1> QED
  BY <1>1, <1>2, HoldStep DEF HoldInv

\* A caller that runs no transaction.
LEMMA IdleHolds ==
  ASSUME WholeInv, HoldInv, NEW c \in Callers, pc[c] = "idle"
  PROVE  /\ lock[c] = {} /\ work[c].movements = {} /\ work[c].transfers = {}
         /\ work[c].openings = {}
<1>1. Holding(c, "idle") /\ Stage(c, "idle")
  BY StageOf DEF HoldInv
<1> QED
  BY <1>1 DEF Holding, Stage, Events, Blank, NothingYet, Before

LEMMA PostHolds ==
  ASSUME WholeInv, HoldInv, NEW c \in Callers, Post(c)
  PROVE  HoldInv'
<1>1. PICK p \in Payloads : /\ WellFormed(p)
                            /\ \E t \in Targets(p.op) :
                                 LET r == [Draft(p) EXCEPT !.target = t]
                                 IN Names(r) /\ Begin(c, r)
  BY DEF Post
<1>2. PICK t, r : r = [Draft(p) EXCEPT !.target = t] /\ Begin(c, r)
  BY <1>1
<1>3. IsCall(p) /\ (p.op \in Keyed => p.key # NoKey)
  BY PayloadsAssumption DEF IsRequest, IsCall
<1>4. IsCall(Draft(p)) /\ (Draft(p).op \in {"create", "reverse"} => Draft(p).key # NoKey)
  <2>1. CASE p.op \in {"income", "expense"}
    BY <1>3, <2>1 DEF Draft, IsCall, Keyed
  <2>2. CASE p.op \notin {"income", "expense"}
    BY <1>3, <2>2 DEF Draft, Keyed
  <2> QED
    BY <2>1, <2>2
<1>5. r.op \in {"create", "reverse"} => r.key # NoKey
  BY <1>2, <1>4 DEF IsCall
<1>6. /\ pc[c] = "idle" /\ req'[c] = r /\ pc'[c] = FirstStatement(r.op)
      /\ UNCHANGED <<transfers, work, lock>>
      /\ \A d \in Callers \ {c} : pc'[d] = pc[d] /\ req'[d] = req[d]
  BY <1>2 DEF Begin, tables, WholeInv, Shape
<1>7. Holding(c, pc[c])'
  BY <1>5, <1>6, IdleHolds DEF Holding
<1> QED
  BY <1>6, <1>7, HoldStep DEF HoldInv

LEMMA UnwrittenCallsHold ==
  ASSUME WholeInv, HoldInv, NEW c \in Callers, PostMalformed(c) \/ Get(c)
  PROVE  HoldInv'
<1>1. /\ pc[c] = "idle" /\ pc'[c] \in {"idle", "read"} /\ UNCHANGED <<transfers, work, lock>>
      /\ \A d \in Callers \ {c} : pc'[d] = pc[d] /\ req'[d] = req[d]
  BY DEF PostMalformed, Get, tables, WholeInv, Shape
<1>2. Holding(c, pc[c])'
  BY <1>1, IdleHolds DEF Holding
<1> QED
  BY <1>1, <1>2, HoldStep DEF HoldInv

LEMMA ReadHolds ==
  ASSUME WholeInv, HoldInv, NEW c \in Callers, Read(c)
  PROVE  HoldInv'
<1>1. \/ \E kind : Refuse(c, kind)
      \/ Goto(c, "read") /\ UNCHANGED work /\ UNCHANGED lock
  BY DEF Read
<1>2. Holding(c, "read")
  BY DEF HoldInv, Read
<1> QED
  BY <1>1, <1>2, RefuseHolds, GotoHolds DEF Refuse, tables

\* The statements that neither write nor lock.
LEMMA ReadingHolds ==
  ASSUME WholeInv, HoldInv, NEW c \in Callers,
         Lookup(c) \/ Original(c) \/ Reread(c) \/ Guard(c) \/ Recheck(c) \/ Policy(c) \/ Cut(c)
  PROVE  HoldInv'
<1>1. PICK p : p = pc[c] /\ Holding(c, p) /\ Stage(c, p)
  BY StageOf DEF HoldInv
<1>2. CASE \E kind : Refuse(c, kind)
  BY <1>2, RefuseHolds DEF Refuse, tables
<1>3. ASSUME NEW q, Goto(c, q), UNCHANGED <<work, lock>>,
             \/ p \in {"lookup", "original"} /\ q \in {"claim", "original", "guard"}
             \/ p = "guard" /\ q \in {"lock", "policy"}
             \/ p \in {"recheck", "policy"} /\ q \in {"policy", "index"}
      PROVE  HoldInv'
  <2>1. Holding(c, q)
    BY <1>1, <1>3 DEF Holding, NothingYet, Before, Stage, Asked, Ops, Undoes
  <2> QED
    BY <1>3, <2>1, GotoHolds
<1>4. CASE Lookup(c)
  BY <1>1, <1>2, <1>3, <1>4 DEF Lookup, AfterLookup
<1>5. CASE Guard(c)
  BY <1>1, <1>2, <1>3, <1>5 DEF Guard
<1>6. CASE Original(c) \/ Recheck(c) \/ Policy(c)
  BY <1>1, <1>2, <1>3, <1>6 DEF Original, Recheck, Policy
<1>7. CASE Reread(c) \/ Cut(c)
  BY <1>2, <1>7 DEF Reread, Cut
<1> QED
  BY <1>4, <1>5, <1>6, <1>7

LEMMA LockHolds ==
  ASSUME WholeInv, HoldInv, NEW c \in Callers, Lock(c)
  PROVE  HoldInv'
<1>1. Holding(c, "lock") /\ Stage(c, "lock") /\ pc[c] = "lock"
  BY StageOf DEF HoldInv, Lock
<1>2. /\ UNCHANGED <<transfers, req, work>> /\ pc'[c] = "recheck"
      /\ lock'[c] = lock[c] \cup {LegTarget(c)} /\ DOMAIN lock' = Callers
      /\ \A d \in Callers \ {c} : pc'[d] = pc[d] /\ lock'[d] = lock[d]
  BY DEF Lock, Goto, tables, WholeInv, Shape, HoldInv
<1>3. Undoes(c)
  BY <1>1 DEF Stage, Asked, Inserting
<1>4. ASSUME req[c].op = "untransfer"
      PROVE  \E t \in transfers :
               t.id = req[c].target /\ lock'[c] \subseteq {t.legs[1], t.legs[2]}
  <2>1. PICK t \in transfers : t.id = req[c].target
    BY <1>1, <1>4 DEF Stage, Aims, Writing, Inserting, HasStandard, Standard
  <2>2. ById(transfers, req[c].target) = t
    BY <2>1, TransferIs DEF WholeInv
  <2>3. LegTarget(c) \in {t.legs[1], t.legs[2]}
    BY <1>4, <2>2 DEF LegTarget
  <2>4. lock[c] \subseteq {t.legs[1], t.legs[2]}
    BY <1>1, <1>4, <2>1 DEF Holding, WholeInv, Transferred
  <2> QED
    BY <1>2, <2>1, <2>3, <2>4
<1>5. Holding(c, "recheck")'
  BY <1>1, <1>2, <1>3, <1>4 DEF Holding, Undoes, IsTransfer, NothingYet, Before
<1> QED
  BY <1>2, <1>5, HoldStep

\* The inserts, and the audit events.
LEMMA WritingHolds ==
  ASSUME WholeInv, HoldInv, NEW c \in Callers,
         Claim(c) \/ Index(c) \/ Anchor(c) \/ Register(c) \/ Audit(c)
  PROVE  HoldInv'
<1>1. PICK p : p = pc[c] /\ Holding(c, p) /\ Stage(c, p)
  BY StageOf DEF HoldInv
<1>2. CASE \E kind : Refuse(c, kind)
  BY <1>2, RefuseHolds DEF Refuse, tables
<1>3. CASE p \in {"claim", "index"} /\ Goto(c, "reread") /\ UNCHANGED <<work, lock>>
           /\ (p = "index" => req[c].op = "create")
  <2>1. Holding(c, "reread")
    BY <1>1, <1>3 DEF Holding, NothingYet, Before, Undoes
  <2> QED
    BY <1>3, <2>1, GotoHolds
<1>4. ASSUME NEW q, NEW w, Goto(c, q), work' = [work EXCEPT ![c] = w], UNCHANGED lock,
             \/ p = "claim" /\ q = "guard" /\ w.movements = {} /\ w.openings = {}
             \/ /\ p = "index" /\ q = (IF LastLeg(c) THEN "audit" ELSE "guard")
                /\ w.movements = work[c].movements \cup {NewMovement(c)} /\ w.openings = {}
             \/ p \in {"anchor", "register", "audit"} /\ q \in {"audit", "commit"}
                /\ w.movements = work[c].movements
      PROVE  HoldInv'
  <2>1. /\ UNCHANGED <<transfers, req, lock>> /\ pc'[c] = q /\ work'[c] = w
        /\ \A d \in Callers \ {c} : pc'[d] = pc[d] /\ work'[d] = work[d]
    BY <1>4 DEF Goto, tables, WholeInv, Shape
  <2>2. NewMovement(c).key = IF IsTransfer(c) THEN NoKey ELSE req[c].key
    BY DEF NewMovement
  <2>3. Holding(c, q)'
    BY <1>1, <1>4, <2>1, <2>2 DEF Holding, NothingYet, Before, Undoes, IsTransfer
  <2> QED
    BY <2>1, <2>3, HoldStep DEF HoldInv
<1>5. DOMAIN work[c] = Fields
  BY DEF WholeInv, Shape
<1>6. CASE Claim(c)
  <2>1. PICK w : w = WithTransfer(work[c], NewTransfer(c))
    OBVIOUS
  <2>2. work[c].movements = {} /\ work[c].openings = {} /\ p = "claim"
    BY <1>1, <1>6 DEF Claim, Stage, Events, Blank, NothingYet, Before, Holding
  <2>3. w.movements = {} /\ w.openings = {}
    BY <1>5, <2>1, <2>2 DEF WithTransfer, Fields
  <2>4. \/ Refuse(c, "not_found")
        \/ Goto(c, "reread") /\ UNCHANGED <<work, lock>>
        \/ Goto(c, "guard") /\ work' = [work EXCEPT ![c] = w] /\ UNCHANGED lock
    BY <1>6, <2>1 DEF Claim
  <2> QED
    BY <1>2, <1>3, <1>4, <2>2, <2>3, <2>4
<1>7. CASE Index(c)
  <2>1. PICK w, q : /\ w = WithMovement(work[c], NewMovement(c))
                    /\ q = IF LastLeg(c) THEN "audit" ELSE "guard"
    OBVIOUS
  <2>2. work[c].openings = {} /\ p = "index"
    BY <1>1, <1>7 DEF Index, Holding
  <2>3. w.movements = work[c].movements \cup {NewMovement(c)} /\ w.openings = {}
    BY <1>5, <2>1, <2>2 DEF WithMovement, Fields
  <2>4. \/ Refuse(c, "conflict") \/ Refuse(c, "already")
        \/ req[c].op = "create" /\ Goto(c, "reread") /\ UNCHANGED <<work, lock>>
        \/ Goto(c, q) /\ work' = [work EXCEPT ![c] = w] /\ UNCHANGED lock
    BY <1>7, <2>1 DEF Index
  <2> QED
    BY <1>2, <1>3, <1>4, <2>1, <2>2, <2>3, <2>4
<1>8. CASE Anchor(c) \/ Register(c) \/ Audit(c)
  BY <1>1, <1>2, <1>4, <1>5, <1>8 DEF Anchor, Register, Audit, WithOpening, WithAccount,
    WithAudit, Fields
<1> QED
  BY <1>6, <1>7, <1>8

LEMMA CommitHolds ==
  ASSUME WholeInv, HoldInv, NEW c \in Callers, Commit(c)
  PROVE  HoldInv'
<1>1. PICK kind : Return(c, kind)
  BY DEF Commit
<1> QED
  BY <1>1, CommitDoes, RefuseHolds

LEMMA StutterHolds == HoldInv /\ UNCHANGED vars => HoldInv'
<1> SUFFICES ASSUME HoldInv, UNCHANGED vars PROVE HoldInv'
  OBVIOUS
<1>1. UNCHANGED <<transfers, pc, req, work, lock>>
  BY DEF vars, tables
<1> QED
  BY <1>1 DEF HoldInv, Holding, Undoes, IsTransfer

LEMMA ApiNextHolds == WholeInv /\ HoldInv /\ [ApiNext]_apiVars => HoldInv'
<1> SUFFICES ASSUME WholeInv, HoldInv, [ApiNext]_apiVars PROVE HoldInv'
  OBVIOUS
<1>1. CASE UNCHANGED apiVars
  BY <1>1, StutterHolds DEF apiVars
<1>2. ASSUME NEW c \in Callers,
             Post(c) \/ PostMalformed(c) \/ Get(c) \/ Read(c) \/ Statement(c) \/ Cut(c)
      PROVE  HoldInv'
  <2>1. CASE Statement(c)
    BY <2>1, ReadingHolds, LockHolds, WritingHolds, CommitHolds DEF Statement
  <2> QED
    BY <1>2, <2>1, PostHolds, UnwrittenCallsHold, ReadHolds, ReadingHolds
<1>3. CASE Done
  BY <1>3, StutterHolds DEF Done
<1> QED
  BY <1>1, <1>2, <1>3 DEF ApiNext

LEMMA InitHoldsNothing == Init => HoldInv
<1> SUFFICES ASSUME Init, NEW c \in Callers PROVE Holding(c, pc[c])
  BY DEF Init, HoldInv
<1> QED
  BY DEF Init, Holding, NoWork

\* The second leg that c is about to reverse, and what its first one reversed.
LEMMA SecondLeg ==
  ASSUME WholeInv, NEW c \in Callers, pc[c] = "lock", work[c].movements # {}
  PROVE  /\ req[c].op = "untransfer"
         /\ \E t \in transfers : \E m \in work[c].movements :
              /\ t.id = req[c].target /\ LegTarget(c) = t.legs[1]
              /\ m.reverses = t.legs[2] /\ m.reverses # None
<1>1. Stage(c, "lock")
  BY StageOf
<1>2. req[c].op = "untransfer"
  BY <1>1 DEF Stage, Asked, Alone, Inserting, Undoes, IsTransfer
<1>3. PICK u \in work[c].transfers : OneLeg(c, u)
  BY <1>1, <1>2 DEF Stage, Pair, Inserting, Writing, IsTransfer
<1>4. PICK m \in work[c].movements : LegOf(c, u, m, 1)
  BY <1>3 DEF OneLeg
<1>5. PICK t \in Standard(transfers), n \in movements :
        t.id = req[c].target /\ n.id = t.legs[2] /\ m.reverses = n.id
  BY <1>2, <1>4 DEF LegOf
<1>6. t \in transfers /\ n.id # None
  BY DEF Standard, None, WholeInv, Ledgered
<1>7. ById(transfers, req[c].target) = t
  BY <1>5, <1>6, TransferIs DEF WholeInv
<1>8. LegTarget(c) = t.legs[1]
  BY <1>2, <1>7 DEF LegTarget
<1> QED
  BY <1>2, <1>5, <1>6, <1>8

\* The order in which calls wait: each waits only for those below it.
Rank(c) ==
  CASE pc[c] = "claim" -> 4
    [] pc[c] = "lock" -> IF work[c].movements = {} THEN 3 ELSE 2
    [] pc[c] \in {"index", "anchor"} -> 1
    [] OTHER -> 0

\* Of two reversals of one transfer only one is under way, and it alone locks the
\* legs in turn: a call that has a row waits for no call that waits for its second.
LEMMA LegWaits ==
  ASSUME WholeInv, Answers, HoldInv, NEW c \in Callers, NEW d \in Callers, c # d,
         pc[c] = "lock", pc[d] = "lock", work[c].movements # {}, work[d].movements # {}
  PROVE  LegTarget(c) \notin lock[d]
<1> SUFFICES ASSUME LegTarget(c) \in lock[d] PROVE FALSE
  OBVIOUS
<1>1. PICK t \in transfers, m \in work[c].movements :
        LegTarget(c) = t.legs[1] /\ m.reverses = t.legs[2] /\ m.reverses # None
  BY SecondLeg
<1>2. PICK u \in transfers, n \in work[d].movements :
        u.id = req[d].target /\ n.reverses = u.legs[2]
  BY SecondLeg
<1>3. t.legs[1] \in {u.legs[1], u.legs[2]}
  BY <1>1, <1>2, SecondLeg DEF HoldInv, Holding, WholeInv, Transferred
<1>4. t = u
  BY <1>3 DEF WholeInv, Transferred
<1> QED
  BY <1>1, <1>2, <1>4 DEF WholeInv, Transactions, Apart, SameReversal

LEMMA Descends ==
  ASSUME WholeInv, Answers, HoldInv, NEW c \in Callers, NEW d \in Callers, WaitsFor(c, d)
  PROVE  Rank(d) < Rank(c) /\ pc[d] # "idle"
<1>1. /\ Stage(c, pc[c]) /\ Holding(c, pc[c]) /\ Course(c, pc[c])
      /\ Stage(d, pc[d]) /\ Holding(d, pc[d]) /\ WorkTells(d)
  BY CourseOf DEF HoldInv
<1>2. c # d
  BY DEF WaitsFor
<1>3. \/ work[d].movements # {} \/ work[d].transfers # {} \/ lock[d] # {}
      => pc[d] \notin NothingYet
  BY <1>1 DEF Stage, Events, Blank, Holding
<1>4. CASE pc[c] = "claim" /\ AwaitsTransfer(c, d)
  <2>1. pc[d] \notin {"claim", "idle"}
    BY <1>3, <1>4 DEF AwaitsTransfer, NothingYet, Before
  <2> QED
    BY <1>4, <2>1 DEF Rank
<1>5. CASE pc[c] = "anchor" /\ AwaitsOpening(c, d)
  <2>1. pc[d] \in {"audit", "commit"}
    BY <1>1, <1>5 DEF AwaitsOpening, Holding
  <2> QED
    BY <1>5, <2>1 DEF Rank
<1>6. CASE pc[c] = "index" /\ AwaitsMovement(c, d)
  <2>1. PICK row \in work[d].movements : KeyClash(c, row) \/ ReversalClash(c, row)
    BY <1>6 DEF AwaitsMovement
  <2>2. ~ReversalClash(c, row)
    <3> SUFFICES ASSUME ReversalClash(c, row) PROVE FALSE
      OBVIOUS
    <3>1. Undoes(c) /\ row.reverses = LegTarget(c)
      BY DEF ReversalClash
    <3>2. LegTarget(c) \in lock[c] /\ HasStandard(movements, LegTarget(c))
      BY <1>1, <1>6, <3>1 DEF Course, Locked, Stage, Aims
    <3>3. LegTarget(c) # None
      BY <3>2 DEF HasStandard, Standard, None, WholeInv, Ledgered
    <3>4. LegTarget(c) \in lock[d]
      BY <1>1, <3>1, <3>3 DEF WorkTells
    <3> QED
      BY <1>2, <3>2, <3>4 DEF Answers
  <2>3. ~IsTransfer(c) /\ row.key = req[c].key
    BY <2>1, <2>2 DEF KeyClash
  <2>4. req[c].op \in {"create", "reverse"}
    BY <1>1, <1>6, <2>3 DEF Stage, Asked, Ops, Inserting, IsTransfer
  <2>5. ~IsTransfer(d)
    BY <1>1, <1>6, <2>3, <2>4 DEF Holding
  <2>6. pc[d] \notin Inserting /\ pc[d] \notin NothingYet
    BY <1>1, <1>3, <2>5 DEF Stage, Alone
  <2> QED
    BY <1>6, <2>6 DEF Rank, Inserting, NothingYet, Before
<1>7. CASE pc[c] = "lock" /\ AwaitsRow(c, d)
  <2>1. LegTarget(c) \in lock[d]
    BY <1>7 DEF AwaitsRow
  <2>2. pc[d] \notin NothingYet /\ (pc[d] = "lock" => work[d].movements # {})
    BY <1>1, <1>3, <2>1 DEF Holding
  <2>3. CASE work[c].movements = {}
    BY <1>7, <2>2, <2>3 DEF Rank, NothingYet, Before
  <2>4. CASE work[c].movements # {}
    <3>1. pc[d] # "lock"
      BY <1>2, <1>7, <2>1, <2>2, <2>4, LegWaits
    <3> QED
      BY <1>7, <2>2, <2>4, <3>1 DEF Rank, NothingYet, Before
  <2> QED
    BY <2>3, <2>4
<1> QED
  BY <1>4, <1>5, <1>6, <1>7 DEF WaitsFor

\* Of any calls, one of the lowest rank waits for none of them.
LEMMA LowestWaitsForNone ==
  ASSUME WholeInv, Answers, HoldInv, NEW calling \in (SUBSET Callers) \ {{}}
  PROVE  \E c \in calling : \A d \in calling : ~WaitsFor(c, d)
<1>1. \A c \in calling : Rank(c) \in 0..4
  BY DEF Rank
<1>2. PICK c \in calling : \A d \in calling : ~(Rank(d) < Rank(c))
  <2>1. CASE \E c \in calling : Rank(c) = 0
    BY <1>1, <2>1
  <2>2. CASE ~(\E c \in calling : Rank(c) = 0) /\ \E c \in calling : Rank(c) = 1
    BY <1>1, <2>2
  <2>3. CASE ~(\E c \in calling : Rank(c) \in 0..1) /\ \E c \in calling : Rank(c) = 2
    BY <1>1, <2>3
  <2>4. CASE ~(\E c \in calling : Rank(c) \in 0..2) /\ \E c \in calling : Rank(c) = 3
    BY <1>1, <2>4
  <2>5. CASE ~(\E c \in calling : Rank(c) \in 0..3)
    BY <1>1, <2>5
  <2> QED
    BY <1>1, <2>1, <2>2, <2>3, <2>4, <2>5
<1>3. \A d \in calling : ~WaitsFor(c, d)
  BY <1>2, Descends
<1> QED
  BY <1>3

\* The deferred triggers pass what comes to its commit.
LEMMA CommitsAreComplete ==
  ASSUME WholeInv, NEW c \in Callers, pc[c] = "commit"
  PROVE  Complete(work[c])
<1>1. Stage(c, "commit")
  BY StageOf
<1>2. AuditEvents(work[c]) \subseteq work[c].audit
  BY <1>1 DEF Stage, Events
<1>3. ASSUME NEW t \in work[c].transfers
      PROVE  {t.legs[1], t.legs[2]} = Ids(work[c].movements)
  <2>1. IsTransfer(c)
    BY <1>1 DEF Stage, Alone
  <2>2. BothLegs(c, t)
    BY <1>1, <2>1 DEF Stage, Pair, Writing, Inserting
  <2>3. PICK m, n : work[c].movements = {m, n} /\ m.id = t.legs[1] /\ n.id = t.legs[2]
    BY <2>2 DEF BothLegs, LegOf
  <2>4. Ids({m, n}) = {m.id, n.id}
    BY DEF Ids
  <2> QED
    BY <2>3, <2>4, Zenon
<1> QED
  BY <1>2, <1>3 DEF Complete

\* Nobody waits for ever on the rows and unique values of the ledger, however
\* many clients create, transfer, reverse and open at once: each of the stores'
\* transactions waits for one that will not come to wait for it.
THEOREM ApiWaitsNeverClose == ApiSpec => []WaitsNeverClose
<1>1. ApiInit => HoldInv
  BY InitHoldsNothing DEF ApiInit
<1>2. ApiInit => WholeInv /\ Answers
  BY InitWhole, InitTells DEF ApiInit
<1>3. WholeInv /\ Answers /\ HoldInv => WaitsNeverClose
  BY Descends, LowestWaitsForNone, CommitsAreComplete DEF WaitsNeverClose
<1> QED
  BY <1>1, <1>2, <1>3, ApiNextKeepsWhole, ApiNextKeepsAnswers, ApiNextHolds, PTL DEF ApiSpec
=============================================================================
