------------------------ MODULE ReconciliationProofs ------------------------
(***************************************************************************)
(* Batches never conflict, nothing is missed, decisions are current and    *)
(* imports are whole, for any clients, transactions, pages and decisions.  *)
(*                                                                         *)
(* IInv says of a committed row how far the batches have come with it, and *)
(* of every open transaction what its row locks keep true until it ends: a *)
(* page holds only newer versions than are stored, a batch the versions    *)
(* that are stored, a decision past its checks the row it was made on.     *)
(***************************************************************************)
EXTENDS Reconciliation, FiniteSetTheorems, FunctionTheorems, TLAPS

Fields == {"rows", "locked", "wrote", "links", "movements"}

Shape ==
  /\ DOMAIN pc = Clients /\ DOMAIN req = Clients /\ DOMAIN work = Clients
  /\ DOMAIN answer = Clients
  /\ DOMAIN obsLock = Transactions /\ DOMAIN canonLock = Transactions
  /\ \A c \in Clients : DOMAIN work[c] = Fields
  /\ stamp \in Nat

PageSteps == {"upsert", "page"}
RowSteps == {"source", "target", "settle"}
BatchSteps == {"select", "lock"} \cup RowSteps
Settling == {"movement", "link", "commit"}
Reviewing == {"lookup", "canon", "observation", "check"} \cup Settling

\* The stamps of the pages that are committed.
Past(u) == u \in Nat /\ u <= stamp /\ (Writing # {} => u < stamp)

\* What the batches have recorded of an observation never runs ahead of it, and
\* is the observation itself where they are not behind.
RowKept(t) ==
  /\ obs[t].seen \in Nat /\ canon[t].seen \in Nat /\ sources[t] \in Nat
  /\ Past(obs[t].updated)
  /\ canon[t] = [status |-> canon[t].status, seen |-> canon[t].seen]
  /\ sources[t] <= obs[t].updated /\ canon[t].seen <= obs[t].seen
  /\ canon[t].seen = obs[t].seen => canon[t].status = obs[t].status
  /\ canon[t] = NoCanon => sources[t] = 0
  /\ obs[t].seen = 0 => obs[t].updated = 0
  /\ sources[t] = obs[t].updated =>
       canon[t] = [status |-> obs[t].status, seen |-> obs[t].seen]

RowsKept == \A t \in Transactions : RowKept(t)

\* BankingSync!SingleFlight: one run writes pages at a time.
OneWriter == \A c, d \in Clients : pc[c] \in PageSteps /\ pc[d] \in PageSteps => c = d

Items == [t : Transactions, status : STRING, amount : Int]

\* A page under way holds newer versions of rows that it has locked.
PageStage(c, p) ==
  p \in PageSteps =>
    /\ p = "upsert" =>
         DOMAIN req[c] = {"op", "page", "seen"} /\ req[c].page \in Seq(Items) \ {<<>>}
    /\ req[c].seen \in Nat
    /\ \A t \in DOMAIN work[c].wrote :
         /\ t \in Transactions /\ obsLock[t] = c
         /\ work[c].wrote[t].updated = stamp
         /\ work[c].wrote[t].seen \in Nat /\ obs[t].seen < work[c].wrote[t].seen

\* A batch under way holds the versions that are stored, of rows that it has
\* locked.
BatchStage(c, p) ==
  p \in BatchSteps =>
    /\ p \in {"select", "lock"} => DOMAIN work[c].wrote = {}
    /\ p = "select" => work[c].locked = 0
    /\ p # "select" => work[c].rows \in Seq(Transactions) /\ work[c].locked \in Nat
    /\ p = "lock" =>
         /\ work[c].locked < Len(work[c].rows)
         /\ \A i \in 1..work[c].locked : obsLock[work[c].rows[i]] = c
    /\ p \in RowSteps => \A i \in 1..Len(work[c].rows) : obsLock[work[c].rows[i]] = c
    /\ p \in {"source", "target"} =>
         work[c].locked < Len(work[c].rows) /\ work[c].locked < Limit
    /\ \A t \in DOMAIN work[c].wrote :
         /\ t \in Transactions /\ obsLock[t] = c /\ canonLock[t] = c
         /\ work[c].wrote[t].source = obs[t].updated
         /\ work[c].wrote[t].canon = [status |-> obs[t].status, seen |-> obs[t].seen]

\* m is the movement that the import of c makes.
Drawn(c, m) ==
  work[c].movements = {m} /\ m.key = req[c].key /\ m.amount = req[c].saw.amount

\* l is the link that the decision of c makes.
Stated(c, l) ==
  LET r == req[c]
  IN /\ work[c].links = {l}
     /\ l.t = r.t /\ l.key = r.key /\ l.decision = r.decision /\ l.saw = r.saw
     /\ l.digest = DigestOf(r)
     /\ IF IsImport(r.decision) THEN \E m : Drawn(c, m) /\ l.movement = m.id
                                ELSE work[c].movements = {}

\* The candidate that c saw, unless its key is used, is a version of its row.
Trusted(c) ==
  LET r == req[c]
  IN LinksWithKey(r.key) = {} =>
       /\ r.saw = [updated |-> r.saw.updated, amount |-> r.saw.amount]
       /\ Past(r.saw.updated)
       /\ r.saw.updated = obs[r.t].updated => r.saw.amount = obs[r.t].amount

\* What the check found, the locks keep.
Checked(c) ==
  LET r == req[c]
  IN r.saw = Candidate(r.t) /\ Confirmed(r) /\ LinksOf(r.t) = {}

DecisionStage(c, p) ==
  p \in Reviewing =>
    LET r == req[c]
    IN /\ r.op = "decide" /\ r.t \in Transactions
       /\ \A m \in FirstMovements : m.key # r.key
       /\ Trusted(c)
       /\ p \notin {"lookup", "canon"} => canonLock[r.t] = c
       /\ p \in {"check"} \cup Settling => obsLock[r.t] = c
       /\ p \in Settling => Checked(c)
       /\ p = "movement" => IsImport(r.decision)
       /\ p = "link" =>
            IF IsImport(r.decision)
            THEN \/ \E m : Drawn(c, m)
                 \/ work[c].movements = {} /\ \E m \in movements : m.key = r.key
            ELSE work[c].movements = {}
       /\ p = "commit" => \E l : Stated(c, l)

\* Rows of the ledger are written by the last steps of a decision only.
LedgerStage(c, p) ==
  /\ p \notin {"link", "commit"} => work[c].movements = {}
  /\ p # "commit" => work[c].links = {}

Stage(c, p) ==
  PageStage(c, p) /\ BatchStage(c, p) /\ DecisionStage(c, p) /\ LedgerStage(c, p)

\* The rows of an open decision clash with no stored row.
NewRows(c) ==
  /\ IsFiniteSet(work[c].movements)
  /\ \A m \in work[c].movements : \A n \in movements : m.id # n.id /\ m.key # n.key
  /\ \A l \in work[c].links : \A k \in links : l.key # k.key

Apart(c, d) ==
  /\ \A m \in work[c].movements : \A n \in work[d].movements : m.id # n.id /\ m.key # n.key
  /\ \A k \in work[c].links : \A l \in work[d].links : k.key # l.key

Client(c) == Stage(c, pc[c]) /\ NewRows(c)

ClientsKept ==
  /\ \A c \in Clients : Client(c)
  /\ \A c, d \in Clients : c # d => Apart(c, d)

Imported == movements \ FirstMovements

\* The committed decisions and their movements.
Books ==
  /\ FirstMovements \subseteq movements /\ IsFiniteSet(movements)
  /\ \A m, n \in Imported : m.id = n.id => m = n
  /\ \A k, l \in links : k.t = l.t \/ k.key = l.key => k = l
  /\ \A l \in links : l.digest.t = l.t
  /\ \A l \in ImportLinks :
       \E m \in Imported : m.id = l.movement /\ m.key = l.key /\ m.amount = l.saw.amount
  /\ \A m \in Imported : \E l \in ImportLinks : l.movement = m.id /\ l.key = m.key
  /\ audit = {m.id : m \in movements}

IInv ==
  Shape /\ RowsKept /\ OneWriter /\ ClientsKept /\ Books /\ BatchesNeverConflict

-----------------------------------------------------------------------------
(* Sequences of rows *)

LEMMA UpToIs ==
  ASSUME NEW S, NEW q \in Seq(S), NEW n \in Nat
  PROVE  UpTo(n, q) \in Seq(S) /\ Len(UpTo(n, q)) = IF Len(q) < n THEN Len(q) ELSE n
BY DEF UpTo

LEMMA QueueIs ==
  ASSUME NEW q \in Queues
  PROVE  q \in Seq(Transactions)
<1> DEFINE dirty == {t \in Transactions : Dirty(t)}
           n == Cardinality(dirty)
<1>1. n \in Nat
  BY TransactionsAssumption, FS_Subset, FS_CardinalityType
<1>2. q \in [1..n -> dirty]
  BY DEF Queues, SetToSeqs
<1>3. q \in [1..n -> Transactions]
  BY <1>2
<1> HIDE DEF n
<1> QED
  BY <1>1, <1>3

-----------------------------------------------------------------------------
(* What a step of one client leaves to the others *)

\* The rows that d has locked, and its own transaction, are as they were.
Undisturbed(d) ==
  /\ pc'[d] = pc[d] /\ req'[d] = req[d] /\ work'[d] = work[d]
  /\ \A t \in Transactions : obsLock[t] = d => obsLock'[t] = d /\ obs'[t] = obs[t]
  /\ \A t \in Transactions : canonLock[t] = d => canonLock'[t] = d /\ canon'[t] = canon[t]
  /\ \A l \in links' \ links : canonLock[l.t] # d
  /\ pc[d] \in PageSteps => stamp' = stamp

\* Tables only grow, and a version is replaced by that of the page under way.
Growth ==
  /\ links \subseteq links' /\ movements \subseteq movements'
  /\ \A u : Past(u) => Past(u)'
  /\ \A t \in Transactions :
       obs'[t] = obs[t] \/ (obs'[t].updated = stamp /\ Writing # {})

LEMMA StageKept ==
  ASSUME IInv, NEW d \in Clients, Undisturbed(d), Growth
  PROVE  Stage(d, pc[d])'
<1>1. Stage(d, pc[d])
  BY DEF IInv, ClientsKept, Client
<1>2. pc'[d] = pc[d] /\ req'[d] = req[d] /\ work'[d] = work[d]
  BY DEF Undisturbed
<1>3. PageStage(d, pc[d])'
  BY <1>1, <1>2 DEF Stage, PageStage, Undisturbed
<1>4. BatchStage(d, pc[d])'
  <2>1. CASE pc[d] \in BatchSteps
    <3>1. BatchStage(d, pc[d])
      BY <1>1 DEF Stage
    <3>2. ASSUME NEW i \in 1..Len(work[d].rows), pc[d] # "select",
                 obsLock[work[d].rows[i]] = d
          PROVE  obsLock'[work[d].rows[i]] = d
      BY <2>1, <3>1, <3>2 DEF BatchStage, Undisturbed
    <3>3. pc[d] = "lock" => \A i \in 1..work[d].locked : i \in 1..Len(work[d].rows)
      BY <2>1, <3>1 DEF BatchStage
    <3>4. \A t \in DOMAIN work[d].wrote :
            /\ t \in Transactions /\ obs'[t] = obs[t]
            /\ obsLock'[t] = d /\ canonLock'[t] = d
      BY <2>1, <3>1 DEF BatchStage, Undisturbed
    <3> QED
      BY <1>2, <2>1, <3>1, <3>2, <3>3, <3>4 DEF BatchStage, RowSteps
  <2> QED
    BY <1>2, <2>1 DEF BatchStage
<1>5. DecisionStage(d, pc[d])'
  <2>1. CASE pc[d] \in Reviewing
    <3> DEFINE r == req[d]
    <3>1. DecisionStage(d, pc[d]) /\ r.t \in Transactions
      BY <1>1, <2>1 DEF Stage, DecisionStage
    <3>2. Trusted(d)'
      <4>1. Trusted(d) /\ req'[d] = r
        BY <1>2, <2>1, <3>1 DEF DecisionStage
      <4>2. LinksWithKey(r.key)' = {} => LinksWithKey(r.key) = {}
        BY <1>2 DEF LinksWithKey, Growth
      <4>3. ASSUME Past(r.saw.updated), r.saw.updated = obs'[r.t].updated
            PROVE  obs'[r.t] = obs[r.t]
        BY <3>1, <4>3 DEF Growth, Past, IInv, Shape
      <4> QED
        BY <4>1, <4>2, <4>3 DEF Trusted, Growth
    <3>3. pc[d] \in Settling => Checked(d)'
      <4> SUFFICES ASSUME pc[d] \in Settling PROVE Checked(d)'
        OBVIOUS
      <4>1. Checked(d) /\ canonLock[r.t] = d /\ obsLock[r.t] = d
        BY <2>1, <3>1 DEF DecisionStage, Settling
      <4>2. obs'[r.t] = obs[r.t] /\ canon'[r.t] = canon[r.t] /\ req'[d] = req[d]
        BY <3>1, <4>1 DEF Undisturbed
      <4>3. LinksOf(r.t)' = {}
        BY <1>2, <4>1 DEF Checked, LinksOf, Undisturbed
      <4> QED
        BY <4>1, <4>2, <4>3 DEF Checked, Candidate, Confirmed
    <3>4. \A m : Drawn(d, m) => Drawn(d, m)'
      BY <1>2 DEF Drawn
    <3>5. \A l : Stated(d, l) => Stated(d, l)'
      BY <1>2, <3>4 DEF Stated, DigestOf
    <3> QED
      BY <1>2, <2>1, <3>1, <3>2, <3>3, <3>4, <3>5 DEF DecisionStage, Undisturbed, Growth
  <2> QED
    BY <1>2, <2>1 DEF DecisionStage
<1>6. LedgerStage(d, pc[d])'
  BY <1>1, <1>2 DEF Stage, LedgerStage
<1> QED
  BY <1>3, <1>4, <1>5, <1>6 DEF Stage

\* While nothing is stored and no page starts, only the transaction of c changes.
Local(c) ==
  /\ UNCHANGED tables /\ UNCHANGED stamp /\ Shape'
  /\ pc'[c] \in PageSteps => pc[c] \in PageSteps
  /\ \A d \in Clients \ {c} :
       pc'[d] = pc[d] /\ req'[d] = req[d] /\ work'[d] = work[d] /\ answer'[d] = answer[d]
  /\ \A d \in Clients \ {c} : \A t \in Transactions :
       /\ obsLock[t] = d => obsLock'[t] = d
       /\ canonLock[t] = d => canonLock'[t] = d

LEMMA LocalGrowth ==
  ASSUME IInv, NEW c \in Clients, Local(c)
  PROVE  Growth /\ \A d \in Clients \ {c} : Undisturbed(d)
<1>1. UNCHANGED <<obs, canon, sources, links, movements, audit, stamp>>
  BY DEF Local, tables
<1>2. Writing' \subseteq Writing
  BY DEF Writing, Local, PageSteps
<1>3. Growth
  BY <1>1, <1>2 DEF Growth, Past
<1>4. \A d \in Clients \ {c} : Undisturbed(d)
  BY <1>1 DEF Undisturbed, Local
<1> QED
  BY <1>3, <1>4

LEMMA LocalStep ==
  ASSUME IInv, NEW c \in Clients, Local(c), answer'[c] # "incompatible",
         Stage(c, pc[c])', NewRows(c)',
         \A d \in Clients \ {c} : Apart(c, d)' /\ Apart(d, c)'
  PROVE  IInv'
<1>1. UNCHANGED <<obs, canon, sources, links, movements, audit, stamp>>
  BY DEF Local, tables
<1>2. Growth /\ \A d \in Clients \ {c} : Undisturbed(d)
  BY LocalGrowth
<1>3. RowsKept'
  BY <1>1, <1>2 DEF IInv, RowsKept, RowKept, Growth
<1>4. OneWriter'
  BY DEF IInv, OneWriter, Local
<1>5. ASSUME NEW d \in Clients \ {c}
      PROVE  Client(d)'
  <2>1. Stage(d, pc[d])' 
    BY <1>2, StageKept
  <2>2. NewRows(d)'
    BY <1>1 DEF IInv, ClientsKept, Client, NewRows, Local
  <2> QED
    BY <2>1, <2>2 DEF Client
<1>6. ASSUME NEW d \in Clients, NEW e \in Clients, d # e
      PROVE  Apart(d, e)'
  <2>1. CASE d = c \/ e = c
    BY <1>6, <2>1
  <2>2. CASE d # c /\ e # c
    <3>1. Apart(d, e) /\ work'[d] = work[d] /\ work'[e] = work[e]
      BY <1>6, <2>2 DEF IInv, ClientsKept, Local
    <3> QED
      BY <3>1 DEF Apart
  <2> QED
    BY <2>1, <2>2
<1>7. Books'
  BY <1>1 DEF IInv, Books, Imported, ImportLinks
<1>8. BatchesNeverConflict'
  BY DEF IInv, BatchesNeverConflict, Local
<1> QED
  BY <1>3, <1>4, <1>5, <1>6, <1>7, <1>8 DEF IInv, ClientsKept, Client, Local

\* A transaction that adds nothing to the ledger clashes with nothing new.
LEMMA RowsKeptApart ==
  ASSUME IInv, NEW c \in Clients, UNCHANGED <<links, movements>>,
         work'[c].links \in {work[c].links, {}},
         work'[c].movements \in {work[c].movements, {}},
         \A d \in Clients \ {c} : work'[d] = work[d]
  PROVE  NewRows(c)' /\ \A d \in Clients \ {c} : Apart(c, d)' /\ Apart(d, c)'
<1>1. NewRows(c)'
  BY FS_EmptySet DEF IInv, ClientsKept, Client, NewRows
<1>2. ASSUME NEW d \in Clients \ {c}
      PROVE  Apart(c, d)' /\ Apart(d, c)'
  <2>1. Apart(c, d) /\ Apart(d, c) /\ work'[d] = work[d]
    BY DEF IInv, ClientsKept
  <2> QED
    BY <2>1 DEF Apart
<1> QED
  BY <1>1, <1>2

LEMMA IdleStage ==
  ASSUME NEW c \in Clients, work'[c] = NoWork
  PROVE  Stage(c, "idle")'
BY DEF Stage, PageStage, BatchStage, DecisionStage, LedgerStage, PageSteps, BatchSteps,
       RowSteps, Reviewing, Settling, NoWork

\* A call that ends without a commit.
LEMMA RefuseKeeps ==
  ASSUME IInv, NEW c \in Clients, NEW kind, kind # "incompatible", Refuse(c, kind)
  PROVE  IInv'
<1>1. /\ work'[c] = NoWork /\ pc'[c] = "idle" /\ answer'[c] = kind
      /\ UNCHANGED <<tables, stamp>> /\ UNCHANGED <<links, movements>>
      /\ \A d \in Clients \ {c} :
           pc'[d] = pc[d] /\ req'[d] = req[d] /\ work'[d] = work[d] /\ answer'[d] = answer[d]
  BY DEF IInv, Shape, Refuse, Return, End, tables
<1>2. /\ DOMAIN pc' = Clients /\ DOMAIN req' = Clients /\ DOMAIN work' = Clients
      /\ DOMAIN answer' = Clients /\ DOMAIN NoWork = Fields
  BY DEF IInv, Shape, Refuse, Return, End, Fields, NoWork
<1>3. obsLock' = Freed(c, obsLock) /\ canonLock' = Freed(c, canonLock)
  BY DEF Refuse, Return, End
<1>4. Shape'
  BY <1>1, <1>2, <1>3 DEF IInv, Shape, Freed
<1>5. Local(c)
  BY <1>1, <1>3, <1>4 DEF Local, Freed, PageSteps
<1>6. work'[c].links = {} /\ work'[c].movements = {}
  BY <1>1 DEF NoWork
<1>7. NewRows(c)' /\ \A d \in Clients \ {c} : Apart(c, d)' /\ Apart(d, c)'
  BY <1>1, <1>6, RowsKeptApart
<1>8. Stage(c, pc[c])'
  BY <1>1, IdleStage
<1> QED
  BY <1>1, <1>5, <1>7, <1>8, LocalStep

-----------------------------------------------------------------------------
(* Calls that begin *)

\* What a call finds when it begins.
LEMMA BeginIs ==
  ASSUME IInv, NEW c \in Clients, NEW r, NEW p, Begin(c, r, p)
  PROVE  /\ pc[c] = "idle" /\ pc'[c] = p /\ req'[c] = r /\ work'[c] = NoWork
         /\ answer'[c] = "none"
         /\ DOMAIN pc' = Clients /\ DOMAIN req' = Clients /\ DOMAIN work' = Clients
         /\ DOMAIN answer' = Clients /\ \A d \in Clients : DOMAIN work'[d] = Fields
         /\ UNCHANGED <<obs, canon, sources, links, movements, audit, obsLock, canonLock>>
         /\ \A d \in Clients \ {c} :
              pc'[d] = pc[d] /\ req'[d] = req[d] /\ work'[d] = work[d] /\ answer'[d] = answer[d]
<1>1. DOMAIN NoWork = Fields
  BY DEF NoWork, Fields
<1>2. UNCHANGED <<obs, canon, sources, links, movements, audit, obsLock, canonLock>>
  BY DEF Begin, tables, locks
<1>3. /\ DOMAIN pc' = Clients /\ DOMAIN req' = Clients /\ DOMAIN work' = Clients
      /\ DOMAIN answer' = Clients
  BY DEF Begin, IInv, Shape
<1>4. pc[c] = "idle" /\ pc'[c] = p /\ req'[c] = r /\ work'[c] = NoWork /\ answer'[c] = "none"
  BY DEF Begin, IInv, Shape
<1>5. \A d \in Clients \ {c} :
        pc'[d] = pc[d] /\ req'[d] = req[d] /\ work'[d] = work[d] /\ answer'[d] = answer[d]
  BY DEF Begin, IInv, Shape
<1>6. \A d \in Clients : DOMAIN work'[d] = Fields
  BY <1>1, <1>4, <1>5 DEF IInv, Shape
<1> QED
  BY <1>2, <1>3, <1>4, <1>5, <1>6

LEMMA BeginKeeps ==
  ASSUME IInv, NEW c \in Clients, NEW r, NEW p, Begin(c, r, p), UNCHANGED stamp,
         p \notin PageSteps, Stage(c, p)'
  PROVE  IInv'
<1>1. /\ pc'[c] = p /\ work'[c] = NoWork /\ answer'[c] = "none"
      /\ DOMAIN pc' = Clients /\ DOMAIN req' = Clients /\ DOMAIN work' = Clients
      /\ DOMAIN answer' = Clients /\ \A d \in Clients : DOMAIN work'[d] = Fields
      /\ UNCHANGED <<obs, canon, sources, links, movements, audit, obsLock, canonLock>>
      /\ \A d \in Clients \ {c} :
           pc'[d] = pc[d] /\ req'[d] = req[d] /\ work'[d] = work[d] /\ answer'[d] = answer[d]
  BY BeginIs
<1>2. Shape'
  BY <1>1 DEF IInv, Shape
<1>3. Local(c)
  BY <1>1, <1>2 DEF Local, tables
<1>4. work'[c].links = {} /\ work'[c].movements = {}
  BY <1>1 DEF NoWork
<1>5. NewRows(c)' /\ \A d \in Clients \ {c} : Apart(c, d)' /\ Apart(d, c)'
  BY <1>1, <1>4, RowsKeptApart
<1>6. Stage(c, pc[c])'
  BY <1>1
<1> QED
  BY <1>1, <1>3, <1>5, <1>6, LocalStep

LEMMA AskBatchKeeps ==
  ASSUME IInv, NEW c \in Clients, AskBatch(c)
  PROVE  IInv'
<1>1. Begin(c, [op |-> "batch"], "select") /\ UNCHANGED stamp
  BY DEF AskBatch
<1>2. work'[c] = NoWork
  BY <1>1, BeginIs
<1>3. Stage(c, "select")'
  BY <1>2 DEF Stage, PageStage, BatchStage, DecisionStage, LedgerStage, PageSteps,
              BatchSteps, RowSteps, Reviewing, Settling, NoWork
<1>4. "select" \notin PageSteps
  BY DEF PageSteps
<1> QED
  BY <1>1, <1>3, <1>4, BeginKeeps

LEMMA AskDecisionKeeps ==
  ASSUME IInv, NEW c \in Clients, AskDecision(c)
  PROVE  IInv'
<1>1. PICK d \in Decisions : \E saw \in {Candidate(d.t)} \cup {l.saw : l \in LinksWithKey(d.key)} :
        Begin(c, [op |-> "decide", t |-> d.t, decision |-> d.decision, key |-> d.key,
                  movement |-> d.movement, fits |-> d.fits, saw |-> saw], "lookup")
  BY DEF AskDecision
<1>2. PICK saw \in {Candidate(d.t)} \cup {l.saw : l \in LinksWithKey(d.key)} :
        Begin(c, [op |-> "decide", t |-> d.t, decision |-> d.decision, key |-> d.key,
                  movement |-> d.movement, fits |-> d.fits, saw |-> saw], "lookup")
  BY <1>1
<1> DEFINE r == [op |-> "decide", t |-> d.t, decision |-> d.decision, key |-> d.key,
                 movement |-> d.movement, fits |-> d.fits, saw |-> saw]
<1>3. Begin(c, r, "lookup") /\ UNCHANGED stamp
  BY <1>2 DEF AskDecision
<1>4. /\ pc[c] = "idle" /\ pc'[c] = "lookup" /\ req'[c] = r /\ work'[c] = NoWork
      /\ UNCHANGED <<obs, links, movements>>
      /\ \A e \in Clients \ {c} : pc'[e] = pc[e]
  BY <1>3, BeginIs
<1>5. r.t = d.t /\ r.key = d.key /\ r.saw = saw /\ r.op = "decide"
  OBVIOUS
<1>6. d.t \in Transactions /\ \A m \in FirstMovements : m.key # d.key
  BY DecisionsAssumption
<1> HIDE DEF r
<1>7. Trusted(c)'
  <2>1. SUFFICES ASSUME LinksWithKey(d.key)' = {}
                 PROVE  /\ saw = [updated |-> saw.updated, amount |-> saw.amount]
                        /\ Past(saw.updated)'
                        /\ saw.updated = obs'[d.t].updated => saw.amount = obs'[d.t].amount
    BY <1>4, <1>5 DEF Trusted, LinksWithKey
  <2>2. LinksWithKey(d.key) = {}
    BY <1>4, <2>1 DEF LinksWithKey
  <2>3. saw = Candidate(d.t)
    BY <1>2, <2>2
  <2>4. saw.updated = obs[d.t].updated /\ saw.amount = obs[d.t].amount
        /\ saw = [updated |-> saw.updated, amount |-> saw.amount]
    BY <2>3 DEF Candidate
  <2>5. Past(saw.updated)
    BY <1>6, <2>4 DEF IInv, RowsKept, RowKept
  <2>6. Writing' = Writing
    BY <1>4 DEF Writing
  <2> QED
    BY <1>3, <1>4, <2>4, <2>5, <2>6 DEF Past
<1>8. Stage(c, "lookup")'
  <2>1. PageStage(c, "lookup")' /\ BatchStage(c, "lookup")'
    BY DEF PageStage, BatchStage, PageSteps, BatchSteps, RowSteps
  <2>2. LedgerStage(c, "lookup")'
    BY <1>4 DEF LedgerStage, NoWork
  <2>3. DecisionStage(c, "lookup")'
    BY <1>4, <1>5, <1>6, <1>7 DEF DecisionStage, Settling
  <2> QED
    BY <2>1, <2>2, <2>3 DEF Stage
<1>9. "lookup" \notin PageSteps
  BY DEF PageSteps
<1> QED
  BY <1>3, <1>8, <1>9, BeginKeeps

\* What a step of c owes to the others, when tables or the stamp change.
LEMMA StepKeeps ==
  ASSUME IInv, NEW c \in Clients, Growth, Shape', RowsKept', OneWriter', Books',
         answer'[c] # "incompatible", Client(c)',
         \A d \in Clients \ {c} :
           Undisturbed(d) /\ answer'[d] = answer[d] /\ NewRows(d)'
             /\ Apart(c, d)' /\ Apart(d, c)'
  PROVE  IInv'
<1>1. ASSUME NEW d \in Clients \ {c}
      PROVE  Client(d)'
  <2>1. Stage(d, pc[d])'
    BY StageKept
  <2> QED
    BY <2>1 DEF Client
<1>2. ASSUME NEW d \in Clients, NEW e \in Clients, d # e
      PROVE  Apart(d, e)'
  <2>1. CASE d = c \/ e = c
    BY <1>2, <2>1
  <2>2. CASE d # c /\ e # c
    <3>1. Apart(d, e) /\ work'[d] = work[d] /\ work'[e] = work[e]
      BY <1>2, <2>2 DEF IInv, ClientsKept, Undisturbed
    <3> QED
      BY <3>1 DEF Apart
  <2> QED
    BY <2>1, <2>2
<1>3. ClientsKept'
  BY <1>1, <1>2 DEF ClientsKept
<1>4. BatchesNeverConflict'
  BY DEF IInv, BatchesNeverConflict
<1> QED
  BY <1>3, <1>4 DEF IInv

LEMMA AskSyncKeeps ==
  ASSUME IInv, NEW c \in Clients, AskSync(c)
  PROVE  IInv'
<1>1. PICK page \in {q \in Pages : Distinct(q)}, seen \in Readings :
        Begin(c, [op |-> "sync", page |-> page, seen |-> seen], "upsert")
  BY DEF AskSync
<1> DEFINE r == [op |-> "sync", page |-> page, seen |-> seen]
<1>2. /\ pc[c] = "idle" /\ pc'[c] = "upsert" /\ req'[c] = r /\ work'[c] = NoWork
      /\ answer'[c] = "none"
      /\ DOMAIN pc' = Clients /\ DOMAIN req' = Clients /\ DOMAIN work' = Clients
      /\ DOMAIN answer' = Clients /\ \A d \in Clients : DOMAIN work'[d] = Fields
      /\ UNCHANGED <<obs, canon, sources, links, movements, audit, obsLock, canonLock>>
      /\ \A d \in Clients \ {c} :
           pc'[d] = pc[d] /\ req'[d] = req[d] /\ work'[d] = work[d] /\ answer'[d] = answer[d]
  BY <1>1, BeginIs
<1>3. DOMAIN r = {"op", "page", "seen"} /\ r.page = page /\ r.seen = seen
  OBVIOUS
<1> HIDE DEF r
<1>4. Writing = {} /\ stamp' = stamp + 1 /\ stamp \in Nat
  BY DEF AskSync, IInv, Shape
<1>5. \A u : Past(u) => Past(u)'
  BY <1>4 DEF Past
<1>6. Growth
  BY <1>2, <1>5 DEF Growth
<1>7. \A d \in Clients : pc[d] \notin PageSteps
  BY <1>4 DEF Writing, PageSteps
<1>8. \A d \in Clients \ {c} : Undisturbed(d)
  BY <1>2, <1>7 DEF Undisturbed
<1>9. Shape'
  BY <1>2, <1>4 DEF IInv, Shape
<1>10. RowsKept'
  BY <1>2, <1>5 DEF IInv, RowsKept, RowKept
<1>11. OneWriter'
  BY <1>2, <1>7 DEF OneWriter
<1>12. Books'
  BY <1>2 DEF IInv, Books, Imported, ImportLinks
<1>13. work'[c].links = {} /\ work'[c].movements = {} /\ DOMAIN work'[c].wrote = {}
  BY <1>2 DEF NoWork
<1>14. NewRows(c)' /\ \A d \in Clients \ {c} : Apart(c, d)' /\ Apart(d, c)'
  BY <1>2, <1>13, RowsKeptApart
<1>15. \A d \in Clients \ {c} : NewRows(d)'
  BY <1>2 DEF IInv, ClientsKept, Client, NewRows
<1>16. PageStage(c, "upsert")'
  <2>1. page \in Seq(Items) \ {<<>>} /\ seen \in Nat
    BY PagesAssumption, ReadingsAssumption DEF Items
  <2> QED
    BY <1>2, <1>3, <1>13, <2>1 DEF PageStage
<1>17. Stage(c, "upsert")'
  BY <1>13, <1>16 DEF Stage, BatchStage, DecisionStage, LedgerStage, BatchSteps, RowSteps,
                      Reviewing, Settling
<1>18. Client(c)'
  BY <1>2, <1>14, <1>17 DEF Client
<1> QED
  BY <1>2, <1>6, <1>8, <1>9, <1>10, <1>11, <1>12, <1>14, <1>15, <1>18, StepKeeps

-----------------------------------------------------------------------------
(* Steps of a transaction before its commit *)

\* Locks are only added.
LocksKept ==
  /\ DOMAIN obsLock' = Transactions /\ DOMAIN canonLock' = Transactions
  /\ \A t \in Transactions :
       /\ obsLock[t] # Nobody => obsLock'[t] = obsLock[t]
       /\ canonLock[t] # Nobody => canonLock'[t] = canonLock[t]

\* The transaction of c is w now, and the others are as they were.
WorkIs(c, w) ==
  /\ DOMAIN work' = Clients /\ work'[c] = w
  /\ \A d \in Clients \ {c} : work'[d] = work[d]

LEMMA GotoIs ==
  ASSUME IInv, NEW c \in Clients, NEW p, Goto(c, p), p \notin PageSteps, LocksKept,
         NEW w, DOMAIN w = Fields, WorkIs(c, w)
  PROVE  /\ Local(c)
         /\ pc'[c] = p /\ req'[c] = req[c] /\ work'[c] = w /\ answer'[c] # "incompatible"
         /\ UNCHANGED <<obs, canon, sources, links, movements, audit, stamp>>
         /\ \A d \in Clients \ {c} : work'[d] = work[d]
<1>1. /\ pc' = [pc EXCEPT ![c] = p]
      /\ UNCHANGED <<obs, canon, sources, links, movements, audit, req, answer, stamp>>
  BY DEF Goto, tables
<1>2. Shape'
  BY <1>1 DEF IInv, Shape, LocksKept, WorkIs
<1>3. pc'[c] = p /\ work'[c] = w
  BY <1>1 DEF IInv, Shape, WorkIs
<1>4. Local(c)
  BY <1>1, <1>2, <1>3, ClientsAssumption DEF IInv, Shape, Local, LocksKept, WorkIs, tables
<1> QED
  BY <1>1, <1>3, <1>4 DEF IInv, BatchesNeverConflict, Shape, WorkIs

LEMMA GotoKeeps ==
  ASSUME IInv, NEW c \in Clients, NEW p, Goto(c, p), p \notin PageSteps, LocksKept,
         NEW w, DOMAIN w = Fields, WorkIs(c, w),
         w.links \in {work[c].links, {}}, w.movements \in {work[c].movements, {}},
         Stage(c, p)'
  PROVE  IInv'
<1>1. /\ Local(c) /\ pc'[c] = p /\ work'[c] = w /\ answer'[c] # "incompatible"
      /\ UNCHANGED <<links, movements>>
      /\ \A d \in Clients \ {c} : work'[d] = work[d]
  BY GotoIs
<1>2. NewRows(c)' /\ \A d \in Clients \ {c} : Apart(c, d)' /\ Apart(d, c)'
  BY <1>1, RowsKeptApart
<1>3. Stage(c, pc[c])'
  BY <1>1
<1> QED
  BY <1>1, <1>2, <1>3, LocalStep

\* A step that goes on without a write.
LEMMA ReadIs ==
  ASSUME IInv, NEW c \in Clients, UNCHANGED work
  PROVE  DOMAIN work[c] = Fields /\ WorkIs(c, work[c])
BY DEF IInv, Shape, WorkIs

LEMMA NotAPage ==
  ASSUME NEW p \in BatchSteps \cup Reviewing
  PROVE  p \notin PageSteps /\ p # "idle"
BY DEF PageSteps, BatchSteps, RowSteps, Reviewing, Settling

LEMMA SelectKeeps ==
  ASSUME IInv, NEW c \in Clients, Select(c)
  PROVE  IInv'
<1>1. PICK q \in Queues :
        IF q = <<>> THEN Refuse(c, "reconciled")
        ELSE /\ work' = [work EXCEPT ![c].rows = UpTo(Limit + 1, q)]
             /\ Goto(c, "lock")
             /\ UNCHANGED locks
  BY DEF Select
<1>2. CASE q = <<>>
  BY <1>1, <1>2, RefuseKeeps
<1>3. CASE q # <<>>
  <2> DEFINE w == [work[c] EXCEPT !.rows = UpTo(Limit + 1, q)]
  <2>1. /\ work[c].locked = 0 /\ DOMAIN work[c].wrote = {} /\ DOMAIN work[c] = Fields
        /\ work[c].links = {} /\ work[c].movements = {}
    BY DEF IInv, Shape, ClientsKept, Client, Stage, BatchStage, BatchSteps, LedgerStage, Select
  <2>2. /\ w.rows = UpTo(Limit + 1, q) /\ w.locked = 0 /\ w.wrote = work[c].wrote
        /\ w.links = work[c].links /\ w.movements = work[c].movements /\ DOMAIN w = Fields
    BY <2>1 DEF Fields
  <2>3. WorkIs(c, w)
    BY <1>1, <1>3 DEF WorkIs, IInv, Shape
  <2> HIDE DEF w
  <2>4. q \in Seq(Transactions) /\ Limit \in Nat /\ Limit > 0
    BY QueueIs, LimitAssumption
  <2>5. Len(q) \in Nat /\ Len(q) # 0
    BY <1>3, <2>4
  <2>6. w.rows \in Seq(Transactions) /\ 0 < Len(w.rows)
    BY <2>2, <2>4, <2>5, UpToIs
  <2>7. LocksKept
    BY <1>1, <1>3 DEF LocksKept, locks, IInv, Shape
  <2>8. "lock" \notin PageSteps /\ Goto(c, "lock")
    BY <1>1, <1>3 DEF PageSteps
  <2>9. work'[c] = w
    BY <2>3 DEF WorkIs
  <2>10. Stage(c, "lock")'
    BY <2>1, <2>2, <2>6, <2>9 DEF Stage, PageStage, BatchStage, DecisionStage, LedgerStage,
         PageSteps, BatchSteps, RowSteps, Reviewing, Settling
  <2> QED
    BY <2>2, <2>3, <2>7, <2>8, <2>10, GotoKeeps
<1> QED
  BY <1>2, <1>3

\* The row that c takes next.
LEMMA NextRowIs ==
  ASSUME IInv, NEW c \in Clients, pc[c] \in {"lock", "source", "target"}
  PROVE  /\ NextRow(c) \in Transactions /\ Len(work[c].rows) \in Nat
         /\ work[c].locked \in Nat /\ work[c].locked < Len(work[c].rows)
         /\ pc[c] # "lock" => obsLock[NextRow(c)] = c
<1>1. /\ work[c].rows \in Seq(Transactions)
      /\ work[c].locked \in Nat /\ work[c].locked < Len(work[c].rows)
      /\ pc[c] # "lock" => \A i \in 1..Len(work[c].rows) : obsLock[work[c].rows[i]] = c
  BY DEF IInv, ClientsKept, Client, Stage, BatchStage, BatchSteps, RowSteps
<1>2. Len(work[c].rows) \in Nat /\ work[c].locked + 1 \in 1..Len(work[c].rows)
  BY <1>1
<1> QED
  BY <1>1, <1>2 DEF NextRow

LEMMA LockRowKeeps ==
  ASSUME IInv, NEW c \in Clients, LockRow(c)
  PROVE  IInv'
<1> DEFINE rows == work[c].rows
           k == work[c].locked
           all == k + 1 = Len(rows)
           next == IF all THEN 0 ELSE k + 1
           w == [work[c] EXCEPT !.locked = next]
<1>0. PICK p : p = IF all THEN "source" ELSE "lock"
  OBVIOUS
<1>1. /\ pc[c] = "lock" /\ obsLock[NextRow(c)] = Nobody
      /\ obsLock' = [obsLock EXCEPT ![NextRow(c)] = c]
      /\ work' = [work EXCEPT ![c].locked = next] /\ Goto(c, p) /\ UNCHANGED canonLock
  BY <1>0 DEF LockRow
<1>2. /\ rows \in Seq(Transactions) /\ DOMAIN work[c].wrote = {} /\ DOMAIN work[c] = Fields
      /\ k \in Nat /\ k < Len(rows)
      /\ \A i \in 1..k : obsLock[rows[i]] = c
      /\ work[c].links = {} /\ work[c].movements = {}
  BY <1>1 DEF IInv, Shape, ClientsKept, Client, Stage, BatchStage, BatchSteps, LedgerStage
<1>3. /\ w.rows = rows /\ w.locked = next /\ w.wrote = work[c].wrote
      /\ w.links = work[c].links /\ w.movements = work[c].movements /\ DOMAIN w = Fields
  BY <1>2 DEF Fields
<1>4. WorkIs(c, w)
  BY <1>1 DEF WorkIs, IInv, Shape
<1> HIDE DEF w
<1>5. work'[c] = w
  BY <1>4 DEF WorkIs
<1>6. NextRow(c) \in Transactions /\ NextRow(c) = rows[k + 1] /\ Len(rows) \in Nat
  BY <1>1, NextRowIs DEF NextRow
<1>7. LocksKept
  BY <1>1, <1>6 DEF LocksKept, IInv, Shape
<1>8. \A i \in 1..(k + 1) : obsLock'[rows[i]] = c
  <2>1. SUFFICES ASSUME NEW i \in 1..(k + 1) PROVE obsLock'[rows[i]] = c
    OBVIOUS
  <2>2. rows[i] \in Transactions
    BY <1>2, <1>6
  <2>3. rows[i] = NextRow(c) \/ obsLock[rows[i]] = c
    BY <1>2, <1>6
  <2> QED
    BY <1>1, <2>2, <2>3 DEF IInv, Shape
<1>9. BatchStage(c, p)'
  <2>1. CASE all
    <3>1. \A i \in 1..Len(rows) : obsLock'[rows[i]] = c
      BY <1>8, <2>1
    <3>2. 0 < Len(rows) /\ 0 < Limit
      BY <1>2, LimitAssumption
    <3> QED
      BY <1>0, <1>2, <1>3, <1>5, <2>1, <3>1, <3>2 DEF BatchStage, RowSteps
  <2>2. CASE ~all
    <3>1. k + 1 < Len(rows) /\ k + 1 \in Nat
      BY <1>2, <1>6, <2>2
    <3> QED
      BY <1>0, <1>2, <1>3, <1>5, <1>8, <2>2, <3>1 DEF BatchStage, RowSteps
  <2> QED
    BY <2>1, <2>2
<1>10. p \in {"source", "lock"}
  BY <1>0
<1>11. Stage(c, p)' /\ p \notin PageSteps
  BY <1>2, <1>3, <1>5, <1>9, <1>10 DEF Stage, PageStage, DecisionStage, LedgerStage,
       PageSteps, Reviewing, Settling
<1> QED
  BY <1>1, <1>3, <1>4, <1>7, <1>11, GotoKeeps

LEMMA AfterRowIs ==
  ASSUME IInv, NEW c \in Clients, pc[c] \in {"source", "target"}
  PROVE  /\ AfterRow(c) \in {"source", "settle"}
         /\ AfterRow(c) = "source" =>
              work[c].locked + 1 < Len(work[c].rows) /\ work[c].locked + 1 < Limit
<1>1. /\ work[c].rows \in Seq(Transactions) /\ work[c].locked \in Nat
      /\ work[c].locked < Len(work[c].rows) /\ work[c].locked < Limit
  BY DEF IInv, ClientsKept, Client, Stage, BatchStage, BatchSteps, RowSteps
<1>2. Limit \in Nat /\ Len(work[c].rows) \in Nat
  BY <1>1, LimitAssumption
<1>3. Len(Selected(c)) = IF Len(work[c].rows) < Limit THEN Len(work[c].rows) ELSE Limit
  BY <1>1, <1>2, UpToIs DEF Selected
<1> QED
  BY <1>1, <1>2, <1>3 DEF AfterRow

\* The next row of a batch is done with: the batch is as before, or holds one row more.
LEMMA RowDone ==
  ASSUME IInv, NEW c \in Clients, pc[c] \in {"source", "target"}, LocksKept,
         Goto(c, AfterRow(c)),
         NEW w, DOMAIN w = Fields, WorkIs(c, w),
         w.rows = work[c].rows, w.locked = work[c].locked + 1,
         w.links = work[c].links, w.movements = work[c].movements,
         \A t \in DOMAIN w.wrote \ DOMAIN work[c].wrote :
           /\ t \in Transactions /\ obsLock[t] = c /\ canonLock'[t] = c
           /\ w.wrote[t].source = obs[t].updated
           /\ w.wrote[t].canon = [status |-> obs[t].status, seen |-> obs[t].seen],
         \A t \in DOMAIN w.wrote \cap DOMAIN work[c].wrote :
           w.wrote[t] = work[c].wrote[t] \/
             /\ w.wrote[t].source = obs[t].updated
             /\ w.wrote[t].canon = [status |-> obs[t].status, seen |-> obs[t].seen]
  PROVE  IInv'
<1>1. PICK p : p = AfterRow(c)
  OBVIOUS
<1>2. /\ p \in {"source", "settle"}
      /\ p = "source" => w.locked < Len(work[c].rows) /\ w.locked < Limit
  BY <1>1, AfterRowIs
<1>3. p \notin PageSteps /\ Goto(c, p)
  BY <1>1, <1>2 DEF PageSteps
<1>4. /\ work'[c] = w /\ UNCHANGED <<obs, canon, sources, links, movements>>
  BY <1>3, GotoIs
<1>5. /\ work[c].rows \in Seq(Transactions) /\ work[c].locked \in Nat
      /\ \A i \in 1..Len(work[c].rows) : obsLock[work[c].rows[i]] = c
      /\ \A t \in DOMAIN work[c].wrote :
           /\ t \in Transactions /\ obsLock[t] = c /\ canonLock[t] = c
           /\ work[c].wrote[t].source = obs[t].updated
           /\ work[c].wrote[t].canon = [status |-> obs[t].status, seen |-> obs[t].seen]
      /\ work[c].links = {} /\ work[c].movements = {}
  BY DEF IInv, ClientsKept, Client, Stage, BatchStage, BatchSteps, RowSteps, LedgerStage
<1>6. \A i \in 1..Len(work[c].rows) : obsLock'[work[c].rows[i]] = c
  <2>1. SUFFICES ASSUME NEW i \in 1..Len(work[c].rows) PROVE obsLock'[work[c].rows[i]] = c
    OBVIOUS
  <2>2. work[c].rows[i] \in Transactions /\ obsLock[work[c].rows[i]] = c
    BY <1>5
  <2> QED
    BY <2>2, ClientsAssumption DEF LocksKept
<1>7. \A t \in DOMAIN w.wrote :
        /\ t \in Transactions /\ obsLock'[t] = c /\ canonLock'[t] = c
        /\ w.wrote[t].source = obs[t].updated
        /\ w.wrote[t].canon = [status |-> obs[t].status, seen |-> obs[t].seen]
  <2>1. SUFFICES ASSUME NEW t \in DOMAIN w.wrote
        PROVE  /\ t \in Transactions /\ obsLock'[t] = c /\ canonLock'[t] = c
               /\ w.wrote[t].source = obs[t].updated
               /\ w.wrote[t].canon = [status |-> obs[t].status, seen |-> obs[t].seen]
    OBVIOUS
  <2>2. CASE t \in DOMAIN work[c].wrote
    BY <1>5, <2>2, ClientsAssumption DEF LocksKept
  <2>3. CASE t \notin DOMAIN work[c].wrote
    BY <2>3, ClientsAssumption DEF LocksKept
  <2> QED
    BY <2>2, <2>3
<1>8. BatchStage(c, p)'
  BY <1>2, <1>4, <1>5, <1>6, <1>7 DEF BatchStage, RowSteps
<1>9. Stage(c, p)'
  BY <1>2, <1>4, <1>5, <1>8 DEF Stage, PageStage, DecisionStage, LedgerStage, PageSteps,
       Reviewing, Settling
<1> QED
  BY <1>3, <1>9, GotoKeeps

LEMMA SourceKeeps ==
  ASSUME IInv, NEW c \in Clients, Source(c)
  PROVE  IInv'
<1>1. pc[c] = "source"
  BY DEF Source
<1>2. CASE Goto(c, AfterRow(c)) /\ work' = Advance(c) /\ UNCHANGED locks
  <2> DEFINE w == [work[c] EXCEPT !.locked = work[c].locked + 1]
  <2>1. DOMAIN work[c] = Fields
    BY DEF IInv, Shape
  <2>2. /\ w.rows = work[c].rows /\ w.locked = work[c].locked + 1 /\ w.wrote = work[c].wrote
        /\ w.links = work[c].links /\ w.movements = work[c].movements /\ DOMAIN w = Fields
    BY <2>1 DEF Fields
  <2>3. WorkIs(c, w)
    BY <1>2 DEF WorkIs, IInv, Shape, Advance
  <2> HIDE DEF w
  <2>4. LocksKept
    BY <1>2 DEF LocksKept, locks, IInv, Shape
  <2> QED
    BY <1>1, <1>2, <2>2, <2>3, <2>4, RowDone
<1>3. CASE Read(c, "target")
  <2>1. Goto(c, "target") /\ UNCHANGED <<work, obsLock, canonLock>>
    BY <1>3 DEF Read, locks
  <2>2. LocksKept
    BY <2>1 DEF LocksKept, IInv, Shape
  <2>3. DOMAIN work[c] = Fields /\ WorkIs(c, work[c])
    BY <2>1, ReadIs
  <2>4. UNCHANGED <<obs, canon>>
    BY <2>1 DEF Goto, tables
  <2>5. Stage(c, "target")'
    <3>1. BatchStage(c, "source") /\ LedgerStage(c, "source")
      BY <1>1 DEF IInv, ClientsKept, Client, Stage
    <3>2. BatchStage(c, "target")' /\ LedgerStage(c, "target")'
      BY <2>1, <2>4, <3>1 DEF BatchStage, BatchSteps, RowSteps, LedgerStage
    <3> QED
      BY <3>2 DEF Stage, PageStage, DecisionStage, PageSteps, Reviewing, Settling
  <2>6. "target" \notin PageSteps
    BY DEF PageSteps
  <2> QED
    BY <2>1, <2>2, <2>3, <2>5, <2>6, GotoKeeps
<1> QED
  BY <1>2, <1>3 DEF Source

\* What a batch makes of a row is its observation.
LEMMA ProgressIs ==
  ASSUME IInv, NEW t \in Transactions
  PROVE  /\ ~Incompatible(t)
         /\ Progress(t).source = obs[t].updated
         /\ Progress(t).canon = [status |-> obs[t].status, seen |-> obs[t].seen]
<1>1. RowKept(t)
  BY DEF IInv, RowsKept
<1>2. ~Incompatible(t)
  BY <1>1 DEF RowKept, Incompatible, Past
<1>3. Canonical(t) = [status |-> obs[t].status, seen |-> obs[t].seen]
  <2>1. CASE canon[t].seen < obs[t].seen
    BY <2>1 DEF Canonical
  <2>2. CASE ~(canon[t].seen < obs[t].seen)
    <3>1. canon[t].seen = obs[t].seen
      BY <1>1, <2>2 DEF RowKept
    <3>2. canon[t].status = obs[t].status
      BY <1>1, <3>1 DEF RowKept
    <3>3. canon[t] = [status |-> canon[t].status, seen |-> canon[t].seen]
      BY <1>1 DEF RowKept
    <3> QED
      BY <2>2, <3>1, <3>2, <3>3 DEF Canonical
  <2> QED
    BY <2>1, <2>2
<1> QED
  BY <1>2, <1>3 DEF Progress

LEMMA TargetKeeps ==
  ASSUME IInv, NEW c \in Clients, Target(c)
  PROVE  IInv'
<1> DEFINE t == NextRow(c)
           wrote == With(work[c].wrote, t, Progress(t))
           w == [work[c] EXCEPT !.locked = work[c].locked + 1, !.wrote = wrote]
<1>1. pc[c] = "target" /\ canonLock[t] = Nobody
  BY DEF Target
<1>2. t \in Transactions /\ obsLock[t] = c
  BY <1>1, NextRowIs
<1>3. /\ canonLock' = [canonLock EXCEPT ![t] = c] /\ UNCHANGED obsLock
      /\ Goto(c, AfterRow(c))
      /\ work' = [Advance(c) EXCEPT ![c].wrote = wrote]
  BY <1>2, ProgressIs DEF Target
<1>4. DOMAIN work[c] = Fields /\ DOMAIN work = Clients
  BY DEF IInv, Shape
<1>5. /\ w.rows = work[c].rows /\ w.locked = work[c].locked + 1 /\ w.wrote = wrote
      /\ w.links = work[c].links /\ w.movements = work[c].movements /\ DOMAIN w = Fields
  BY <1>4 DEF Fields
<1>6. WorkIs(c, w)
  BY <1>3, <1>4 DEF WorkIs, Advance
<1>7. LocksKept
  BY <1>1, <1>2, <1>3 DEF LocksKept, IInv, Shape
<1>8. canonLock'[t] = c
  BY <1>2, <1>3 DEF IInv, Shape
<1>9. /\ DOMAIN wrote = DOMAIN work[c].wrote \cup {t}
      /\ wrote[t] = Progress(t)
      /\ \A u \in DOMAIN work[c].wrote : u # t => wrote[u] = work[c].wrote[u]
  BY DEF With
<1> HIDE DEF w, wrote
<1>10. Progress(t).source = obs[t].updated
       /\ Progress(t).canon = [status |-> obs[t].status, seen |-> obs[t].seen]
  BY <1>2, ProgressIs
<1>11. \A u \in DOMAIN w.wrote \ DOMAIN work[c].wrote :
         /\ u \in Transactions /\ obsLock[u] = c /\ canonLock'[u] = c
         /\ w.wrote[u].source = obs[u].updated
         /\ w.wrote[u].canon = [status |-> obs[u].status, seen |-> obs[u].seen]
  BY <1>2, <1>5, <1>8, <1>9, <1>10
<1>12. \A u \in DOMAIN w.wrote \cap DOMAIN work[c].wrote :
         w.wrote[u] = work[c].wrote[u] \/
           /\ w.wrote[u].source = obs[u].updated
           /\ w.wrote[u].canon = [status |-> obs[u].status, seen |-> obs[u].seen]
  BY <1>5, <1>9, <1>10
<1> QED
  BY <1>1, <1>3, <1>5, <1>6, <1>7, <1>11, <1>12, RowDone

-----------------------------------------------------------------------------
(* Commits *)

\* The transaction of c is over, its call perhaps not.
Ended(c) ==
  /\ work'[c] = NoWork /\ Shape' /\ UNCHANGED stamp
  /\ pc'[c] \in {"idle", "select"} /\ answer'[c] # "incompatible"
  /\ \A d \in Clients \ {c} :
       pc'[d] = pc[d] /\ req'[d] = req[d] /\ work'[d] = work[d] /\ answer'[d] = answer[d]
  /\ \A d \in Clients \ {c} : \A t \in Transactions :
       /\ obsLock[t] = d => obsLock'[t] = d
       /\ canonLock[t] = d => canonLock'[t] = d

LEMMA ReturnEnds ==
  ASSUME IInv, NEW c \in Clients, NEW kind, kind # "incompatible", Return(c, kind)
  PROVE  Ended(c)
<1>1. /\ work'[c] = NoWork /\ pc'[c] = "idle" /\ answer'[c] = kind /\ UNCHANGED stamp
      /\ \A d \in Clients \ {c} :
           pc'[d] = pc[d] /\ req'[d] = req[d] /\ work'[d] = work[d] /\ answer'[d] = answer[d]
  BY DEF IInv, Shape, Return, End
<1>2. /\ DOMAIN pc' = Clients /\ DOMAIN req' = Clients /\ DOMAIN work' = Clients
      /\ DOMAIN answer' = Clients /\ DOMAIN NoWork = Fields
  BY DEF IInv, Shape, Return, End, Fields, NoWork
<1>3. obsLock' = Freed(c, obsLock) /\ canonLock' = Freed(c, canonLock)
  BY DEF Return, End
<1>4. Shape'
  BY <1>1, <1>2, <1>3 DEF IInv, Shape, Freed
<1> QED
  BY <1>1, <1>3, <1>4 DEF Ended, Freed

\* What a commit owes: its tables, and to the others their rows.
LEMMA CommitKeeps ==
  ASSUME IInv, NEW c \in Clients, Ended(c), Growth, RowsKept', Books',
         \A d \in Clients \ {c} : Undisturbed(d) /\ NewRows(d)'
  PROVE  IInv'
<1>1. /\ work'[c].links = {} /\ work'[c].movements = {} /\ DOMAIN work'[c].wrote = {}
      /\ work'[c].locked = 0
  BY DEF Ended, NoWork
<1>2. NewRows(c)' /\ \A d \in Clients \ {c} : Apart(c, d)' /\ Apart(d, c)'
  BY <1>1, FS_EmptySet DEF NewRows, Apart
<1>3. PICK p : p = pc'[c]
  OBVIOUS
<1>4. p \in {"idle", "select"}
  BY <1>3 DEF Ended
<1>5. Stage(c, p)'
  BY <1>1, <1>4 DEF Stage, PageStage, BatchStage, DecisionStage, LedgerStage, PageSteps,
       BatchSteps, RowSteps, Reviewing, Settling
<1>6. Client(c)'
  BY <1>2, <1>3, <1>5 DEF Client
<1>7. OneWriter'
  BY DEF IInv, OneWriter, Ended, PageSteps
<1> QED
  BY <1>2, <1>6, <1>7, StepKeeps DEF Ended

LEMMA CommitPageKeeps ==
  ASSUME IInv, NEW c \in Clients, CommitPage(c)
  PROVE  IInv'
<1>1. /\ pc[c] = "page"
      /\ obs' = [t \in Transactions |->
                   IF t \in DOMAIN work[c].wrote THEN work[c].wrote[t] ELSE obs[t]]
      /\ UNCHANGED <<canon, sources, links, movements, audit>>
  BY DEF CommitPage
<1>2. Ended(c)
  <2>1. CASE Return(c, "run failed")
    BY <2>1, ReturnEnds
  <2>2. CASE /\ End(c) /\ pc' = [pc EXCEPT ![c] = "select"]
             /\ UNCHANGED <<req, answer, stamp, calls>>
    <3>1. /\ work'[c] = NoWork /\ pc'[c] = "select" /\ UNCHANGED <<req, answer, stamp>>
          /\ \A d \in Clients \ {c} : pc'[d] = pc[d] /\ work'[d] = work[d]
          /\ obsLock' = Freed(c, obsLock) /\ canonLock' = Freed(c, canonLock)
      BY <2>2 DEF IInv, Shape, End
    <3>2. /\ DOMAIN pc' = Clients /\ DOMAIN work' = Clients /\ DOMAIN NoWork = Fields
      BY <2>2 DEF IInv, Shape, End, Fields, NoWork
    <3>3. Shape'
      BY <3>1, <3>2 DEF IInv, Shape, Freed
    <3> QED
      BY <3>1, <3>3 DEF Ended, Freed, IInv, BatchesNeverConflict
  <2> QED
    BY <2>1, <2>2 DEF CommitPage
<1>3. stamp \in Nat /\ UNCHANGED stamp
  BY <1>2 DEF Ended, IInv, Shape
<1>4. /\ \A t \in DOMAIN work[c].wrote :
           /\ t \in Transactions /\ obsLock[t] = c
           /\ work[c].wrote[t].updated = stamp
           /\ work[c].wrote[t].seen \in Nat /\ obs[t].seen < work[c].wrote[t].seen
  BY <1>1 DEF IInv, ClientsKept, Client, Stage, PageStage, PageSteps
<1>5. c \in Writing /\ \A d \in Clients \ {c} : pc[d] \notin PageSteps
  BY <1>1 DEF IInv, OneWriter, Writing, PageSteps
<1>6. Writing' = {}
  BY <1>2, <1>5 DEF Writing, Ended, PageSteps
<1>7. \A u : Past(u) => Past(u)'
  BY <1>3, <1>6 DEF Past
<1>8. Growth
  BY <1>1, <1>4, <1>5, <1>7 DEF Growth
<1>9. RowsKept'
  <2>1. SUFFICES ASSUME NEW t \in Transactions PROVE RowKept(t)'
    BY DEF RowsKept
  <2>2. RowKept(t)
    BY DEF IInv, RowsKept
  <2>3. CASE t \in DOMAIN work[c].wrote
    <3>1. obs'[t] = work[c].wrote[t]
      BY <1>1, <2>3
    <3>2. /\ obs'[t].updated = stamp /\ obs'[t].seen \in Nat /\ obs[t].seen < obs'[t].seen
          /\ canon'[t] = canon[t] /\ sources'[t] = sources[t]
      BY <1>1, <1>4, <2>3, <3>1
    <3>3. Past(stamp)'
      BY <1>3, <1>6 DEF Past
    <3>4. obs[t].updated < stamp /\ obs[t].updated \in Nat
      BY <1>5, <2>2 DEF RowKept, Past
    <3> QED
      BY <1>3, <2>2, <3>2, <3>3, <3>4 DEF RowKept
  <2>4. CASE t \notin DOMAIN work[c].wrote
    <3>1. obs'[t] = obs[t] /\ canon'[t] = canon[t] /\ sources'[t] = sources[t]
      BY <1>1, <2>4
    <3> QED
      BY <1>7, <2>2, <3>1 DEF RowKept
  <2> QED
    BY <2>3, <2>4
<1>10. Books'
  BY <1>1 DEF IInv, Books, Imported, ImportLinks
<1>11. ASSUME NEW d \in Clients \ {c}
       PROVE  Undisturbed(d) /\ NewRows(d)'
  <2>1. NewRows(d)'
    BY <1>1, <1>2 DEF IInv, ClientsKept, Client, NewRows, Ended
  <2>2. \A t \in Transactions : obsLock[t] = d => obs'[t] = obs[t]
    BY <1>1, <1>4
  <2> QED
    BY <1>1, <1>2, <2>1, <2>2 DEF Undisturbed, Ended
<1> QED
  BY <1>2, <1>8, <1>9, <1>10, <1>11, CommitKeeps

LEMMA CommitBatchKeeps ==
  ASSUME IInv, NEW c \in Clients, CommitBatch(c)
  PROVE  IInv'
<1>1. /\ pc[c] = "settle"
      /\ canon' = [t \in Transactions |->
            IF t \in DOMAIN work[c].wrote THEN work[c].wrote[t].canon ELSE canon[t]]
      /\ sources' = [t \in Transactions |->
            IF t \in DOMAIN work[c].wrote THEN work[c].wrote[t].source ELSE sources[t]]
      /\ UNCHANGED <<obs, links, movements, audit>>
  BY DEF CommitBatch
<1>2. Ended(c)
  BY ReturnEnds DEF CommitBatch
<1>3. pc'[c] \notin PageSteps /\ pc[c] \notin PageSteps
  BY <1>1, <1>2 DEF Ended, PageSteps
<1>4. \A t \in DOMAIN work[c].wrote :
        /\ t \in Transactions /\ obsLock[t] = c /\ canonLock[t] = c
        /\ work[c].wrote[t].source = obs[t].updated
        /\ work[c].wrote[t].canon = [status |-> obs[t].status, seen |-> obs[t].seen]
  BY <1>1 DEF IInv, ClientsKept, Client, Stage, BatchStage, BatchSteps, RowSteps
<1>5. Writing' = Writing
  BY <1>2, <1>3 DEF Writing, Ended, PageSteps
<1>6. \A u : Past(u) => Past(u)'
  BY <1>2, <1>5 DEF Past, Ended
<1>7. Growth
  BY <1>1, <1>6 DEF Growth
<1>8. RowsKept'
  <2>1. SUFFICES ASSUME NEW t \in Transactions PROVE RowKept(t)'
    BY DEF RowsKept
  <2>2. RowKept(t) /\ obs'[t] = obs[t]
    BY <1>1 DEF IInv, RowsKept
  <2>3. CASE t \in DOMAIN work[c].wrote
    <3>1. /\ canon'[t] = [status |-> obs[t].status, seen |-> obs[t].seen]
          /\ sources'[t] = obs[t].updated
      BY <1>1, <1>4, <2>3
    <3>2. canon'[t].status = obs[t].status /\ canon'[t].seen = obs[t].seen
          /\ canon'[t] = [status |-> canon'[t].status, seen |-> canon'[t].seen]
      BY <3>1
    <3>3. canon'[t] = NoCanon => obs[t].seen = 0
      BY <3>2 DEF NoCanon
    <3> QED
      BY <1>6, <2>2, <3>1, <3>2, <3>3 DEF RowKept, Past
  <2>4. CASE t \notin DOMAIN work[c].wrote
    <3>1. canon'[t] = canon[t] /\ sources'[t] = sources[t]
      BY <1>1, <2>4
    <3> QED
      BY <1>6, <2>2, <3>1 DEF RowKept
  <2> QED
    BY <2>3, <2>4
<1>9. Books'
  BY <1>1 DEF IInv, Books, Imported, ImportLinks
<1>10. ASSUME NEW d \in Clients \ {c}
       PROVE  Undisturbed(d) /\ NewRows(d)'
  <2>1. NewRows(d)'
    BY <1>1, <1>2 DEF IInv, ClientsKept, Client, NewRows, Ended
  <2>2. \A t \in Transactions : canonLock[t] = d => canon'[t] = canon[t]
    BY <1>1, <1>4
  <2> QED
    BY <1>1, <1>2, <2>1, <2>2 DEF Undisturbed, Ended
<1> QED
  BY <1>2, <1>7, <1>8, <1>9, <1>10, CommitKeeps

-----------------------------------------------------------------------------
(* Decisions *)

LEMMA FreshIsNew ==
  ASSUME NEW used, IsFiniteSet(used)
  PROVE  Fresh(used) \notin used
<1> DEFINE k == Cardinality(used)
           some == 1..(k + 1)
<1>1. k \in Nat
  BY FS_CardinalityType
<1>2. IsFiniteSet(some) /\ Cardinality(some) = k + 1
  BY <1>1, FS_Interval
<1>3. ~(some \subseteq used)
  <2> SUFFICES ASSUME some \in SUBSET used PROVE FALSE
    OBVIOUS
  <2>1. Cardinality(some) <= k
    BY FS_Subset
  <2> QED
    BY <1>1, <1>2, <2>1
<1>4. PICK n \in some : n \notin used
  BY <1>3
<1> QED
  BY <1>4 DEF Fresh

LEMMA UsedIdsFinite ==
  ASSUME IInv
  PROVE  IsFiniteSet(UsedIds)
<1> DEFINE held == {work[d].movements : d \in Clients}
           rows == movements \cup UNION held
           ids == {m.id : m \in rows}
<1>1. IsFiniteSet(movements) /\ \A d \in Clients : IsFiniteSet(work[d].movements)
  BY DEF IInv, Books, ClientsKept, Client, NewRows
<1>2. IsFiniteSet(held)
  <2> DEFINE f == [d \in Clients |-> work[d].movements]
  <2>1. f \in Surjection(Clients, held)
    BY DEF Surjection
  <2> HIDE DEF f, held
  <2> QED
    BY <2>1, ClientsAssumption, FS_Surjection
<1>3. \A S \in held : IsFiniteSet(S)
  BY <1>1
<1>4. IsFiniteSet(rows)
  <2> HIDE DEF held
  <2> QED
    BY <1>1, <1>2, <1>3, FS_UNION, FS_Union
<1>5. IsFiniteSet(ids)
  <2> DEFINE f == [m \in rows |-> m.id]
  <2>1. f \in Surjection(rows, ids)
    BY DEF Surjection
  <2> HIDE DEF f, ids, rows
  <2> QED
    BY <1>4, <2>1, FS_Surjection
<1>6. ids = UsedIds
  BY DEF UsedIds
<1> QED
  BY <1>5, <1>6

\* What is known of a decision under way.
LEMMA DecisionIs ==
  ASSUME IInv, NEW c \in Clients, pc[c] \in Reviewing
  PROVE  /\ DecisionStage(c, pc[c]) /\ LedgerStage(c, pc[c]) /\ Trusted(c)
         /\ req[c].op = "decide" /\ req[c].t \in Transactions
         /\ \A m \in FirstMovements : m.key # req[c].key
         /\ pc[c] \in Settling =>
              Checked(c) /\ obsLock[req[c].t] = c /\ canonLock[req[c].t] = c
BY DEF IInv, ClientsKept, Client, Stage, DecisionStage, Settling

LEMMA TrustedKept ==
  ASSUME IInv, NEW c \in Clients, Local(c), req'[c] = req[c], pc[c] \in Reviewing
  PROVE  Trusted(c)'
<1>1. UNCHANGED <<obs, links>>
  BY DEF Local, tables
<1>2. Trusted(c)
  BY DecisionIs
<1>3. \A u : Past(u) => Past(u)'
  BY LocalGrowth DEF Growth
<1> QED
  BY <1>1, <1>2, <1>3 DEF Trusted, LinksWithKey

LEMMA CheckedKept ==
  ASSUME NEW c \in Clients, UNCHANGED tables, req'[c] = req[c], Checked(c)
  PROVE  Checked(c)'
BY DEF Checked, Candidate, Confirmed, LinksOf, tables

\* A decision takes a lock, or none, and goes on.
LEMMA DecisionGoesOn ==
  ASSUME IInv, NEW c \in Clients, pc[c] \in Reviewing, UNCHANGED work, LocksKept,
         NEW p \in Reviewing \ {"commit"}, Goto(c, p),
         p \notin {"lookup", "canon"} => canonLock'[req[c].t] = c,
         p \in {"check"} \cup Settling => obsLock'[req[c].t] = c,
         p \in Settling => Checked(c),
         p = "movement" => IsImport(req[c].decision),
         p = "link" =>
           IF IsImport(req[c].decision)
           THEN work[c].movements = {} /\ \E m \in movements : m.key = req[c].key
           ELSE work[c].movements = {},
         pc[c] \notin {"link", "commit"}
  PROVE  IInv'
<1>1. p \notin PageSteps /\ p \notin BatchSteps
  BY DEF PageSteps, BatchSteps, RowSteps, Reviewing, Settling
<1>2. DOMAIN work[c] = Fields /\ WorkIs(c, work[c])
  BY ReadIs
<1>3. /\ Local(c) /\ req'[c] = req[c] /\ work'[c] = work[c]
      /\ UNCHANGED <<obs, canon, sources, links, movements, audit, stamp>>
  BY <1>1, <1>2, GotoIs
<1>4. DecisionStage(c, p)'
  <2>1. Trusted(c)'
    BY <1>3, TrustedKept
  <2>2. p \in Settling => Checked(c)'
    BY <1>3, CheckedKept DEF tables
  <2>3. /\ req[c].op = "decide" /\ req[c].t \in Transactions
        /\ \A m \in FirstMovements : m.key # req[c].key
    BY DecisionIs
  <2> QED
    BY <1>3, <2>1, <2>2, <2>3 DEF DecisionStage
<1>5. LedgerStage(c, p)'
  <2>1. work[c].movements = {} /\ work[c].links = {}
    BY DecisionIs DEF LedgerStage
  <2> QED
    BY <1>3, <2>1 DEF LedgerStage
<1>6. Stage(c, p)'
  BY <1>1, <1>4, <1>5 DEF Stage, PageStage, BatchStage
<1> QED
  BY <1>1, <1>2, <1>6, GotoKeeps

LEMMA LookupKeeps ==
  ASSUME IInv, NEW c \in Clients, Lookup(c)
  PROVE  IInv'
<1>1. pc[c] = "lookup"
  BY DEF Lookup
<1>2. CASE LinksWithKey(req[c].key) # {}
  <2>1. Replayed(req[c]) # "incompatible"
    BY DEF Replayed
  <2> QED
    BY <1>2, <2>1, RefuseKeeps DEF Lookup
<1>3. CASE LinksWithKey(req[c].key) = {}
  <2>1. Goto(c, "canon") /\ UNCHANGED <<work, obsLock, canonLock>>
    BY <1>3 DEF Lookup, Read, locks
  <2>2. LocksKept
    BY <2>1 DEF LocksKept, IInv, Shape
  <2> QED
    BY <1>1, <2>1, <2>2, DecisionGoesOn DEF Reviewing, Settling
<1> QED
  BY <1>2, <1>3

LEMMA LockCanonKeeps ==
  ASSUME IInv, NEW c \in Clients, LockCanon(c)
  PROVE  IInv'
<1>1. /\ pc[c] = "canon" /\ canonLock[req[c].t] = Nobody
      /\ canonLock' = [canonLock EXCEPT ![req[c].t] = c]
      /\ Goto(c, "observation") /\ UNCHANGED <<work, obsLock>>
  BY DEF LockCanon
<1>2. req[c].t \in Transactions
  BY <1>1, DecisionIs DEF Reviewing
<1>3. LocksKept /\ canonLock'[req[c].t] = c
  BY <1>1, <1>2 DEF LocksKept, IInv, Shape
<1> QED
  BY <1>1, <1>3, DecisionGoesOn DEF Reviewing, Settling

LEMMA LockObservationKeeps ==
  ASSUME IInv, NEW c \in Clients, LockObservation(c)
  PROVE  IInv'
<1>1. /\ pc[c] = "observation" /\ obsLock[req[c].t] = Nobody
      /\ obsLock' = [obsLock EXCEPT ![req[c].t] = c]
      /\ Goto(c, "check") /\ UNCHANGED <<work, canonLock>>
  BY DEF LockObservation
<1>2. req[c].t \in Transactions /\ canonLock[req[c].t] = c
  BY <1>1, DecisionIs DEF Reviewing, DecisionStage
<1>3. LocksKept /\ obsLock'[req[c].t] = c
  BY <1>1, <1>2 DEF LocksKept, IInv, Shape
<1> QED
  BY <1>1, <1>2, <1>3, DecisionGoesOn DEF Reviewing, Settling

LEMMA CheckKeeps ==
  ASSUME IInv, NEW c \in Clients, Check(c)
  PROVE  IInv'
<1> DEFINE r == req[c]
<1>1. pc[c] = "check"
  BY DEF Check
<1>2. CASE \E kind : kind # "incompatible" /\ Refuse(c, kind)
  BY <1>2, RefuseKeeps
<1>3. CASE /\ LinksWithKey(r.key) = {} /\ Unchanged(r) /\ Confirmed(r) /\ LinksOf(r.t) = {}
           /\ \/ IsImport(r.decision) /\ Read(c, "movement")
              \/ ~IsImport(r.decision) /\ Read(c, "link")
  <2>1. /\ Trusted(c) /\ obsLock[r.t] = c /\ canonLock[r.t] = c /\ work[c].movements = {}
    BY <1>1, DecisionIs DEF Reviewing, DecisionStage, LedgerStage
  <2>2. Checked(c)
    BY <1>3, <2>1 DEF Checked, Trusted, Unchanged, Candidate
  <2>3. UNCHANGED <<work, obsLock, canonLock>>
    BY <1>3 DEF Read, locks
  <2>4. LocksKept
    BY <2>3 DEF LocksKept, IInv, Shape
  <2>5. PICK p : p = IF IsImport(r.decision) THEN "movement" ELSE "link"
    OBVIOUS
  <2>6. Goto(c, p)
    BY <1>3, <2>5 DEF Read
  <2>7. p \in Reviewing \ {"commit"} /\ pc[c] \in Reviewing
        /\ pc[c] \notin {"link", "commit"}
    BY <1>1, <2>5 DEF Reviewing, Settling
  <2> QED
    BY <2>1, <2>2, <2>3, <2>4, <2>5, <2>6, <2>7, DecisionGoesOn
<1>4. Replayed(r) # "incompatible"
  BY DEF Replayed
<1> QED
  <2>1. ASSUME ~(\E kind : kind # "incompatible" /\ Refuse(c, kind))
        PROVE  /\ LinksWithKey(r.key) = {} /\ Unchanged(r) /\ Confirmed(r) /\ LinksOf(r.t) = {}
               /\ \/ IsImport(r.decision) /\ Read(c, "movement")
                  \/ ~IsImport(r.decision) /\ Read(c, "link")
    BY <1>4, <2>1 DEF Check
  <2> QED
    BY <1>2, <1>3, <2>1

LEMMA MovementKeeps ==
  ASSUME IInv, NEW c \in Clients, Movement(c)
  PROVE  IInv'
<1> DEFINE k == req[c].key
           stored == {n \in movements : n.key = k}
<1>1. pc[c] = "movement" /\ \A n \in Pending(c, "movements") : n.key # k
  BY DEF Movement
<1>2. /\ pc[c] \in Reviewing /\ Checked(c) /\ obsLock[req[c].t] = c /\ canonLock[req[c].t] = c
      /\ IsImport(req[c].decision) /\ work[c].movements = {} /\ work[c].links = {}
  BY <1>1, DecisionIs DEF Reviewing, Settling, DecisionStage, LedgerStage
<1>3. CASE /\ stored = {}
           /\ work' = [work EXCEPT ![c].movements = {NewMovement(c)}] /\ Goto(c, "link")
           /\ UNCHANGED locks
  <2>1. PICK m : m = NewMovement(c)
    OBVIOUS
  <2> DEFINE w == [work[c] EXCEPT !.movements = {m}]
  <2>2. m.id = Fresh(UsedIds) /\ m.amount = obs[req[c].t].amount /\ m.key = k
    BY <2>1 DEF NewMovement
  <2>3. m.id \notin UsedIds
    BY <2>2, UsedIdsFinite, FreshIsNew
  <2>4. DOMAIN work[c] = Fields
    BY DEF IInv, Shape
  <2>5. w.movements = {m} /\ w.links = work[c].links /\ DOMAIN w = Fields
    BY <2>4 DEF Fields
  <2>6. WorkIs(c, w)
    BY <1>3, <2>1 DEF WorkIs, IInv, Shape
  <2> HIDE DEF w
  <2>7. LocksKept
    BY <1>3 DEF LocksKept, locks, IInv, Shape
  <2>8. "link" \notin PageSteps
    BY DEF PageSteps
  <2>9. /\ Local(c) /\ pc'[c] = "link" /\ req'[c] = req[c] /\ work'[c] = w
        /\ answer'[c] # "incompatible"
        /\ UNCHANGED <<obs, canon, sources, links, movements, audit, stamp>>
        /\ \A d \in Clients \ {c} : work'[d] = work[d]
    BY <1>3, <2>5, <2>6, <2>7, <2>8, GotoIs
  <2>10. DecisionStage(c, "link")'
    <3>1. Drawn(c, m)'
      BY <1>2, <2>2, <2>5, <2>9 DEF Drawn, Checked, Candidate
    <3>2. Trusted(c)' /\ Checked(c)'
      BY <1>2, <2>9, TrustedKept, CheckedKept DEF tables
    <3>3. /\ req[c].op = "decide" /\ req[c].t \in Transactions
          /\ \A n \in FirstMovements : n.key # req[c].key
      BY <1>2, DecisionIs
    <3>4. obsLock'[req[c].t] = c /\ canonLock'[req[c].t] = c
      BY <1>2, <1>3 DEF locks
    <3> QED
      BY <1>2, <2>9, <3>1, <3>2, <3>3, <3>4 DEF DecisionStage
  <2>11. Stage(c, pc[c])'
    BY <1>2, <2>5, <2>9, <2>10 DEF Stage, PageStage, BatchStage, LedgerStage, PageSteps, BatchSteps,
         RowSteps
  <2>12. NewRows(c)'
    <3>1. IsFiniteSet({m})
      BY FS_Singleton
    <3>2. \A n \in movements : m.id # n.id /\ m.key # n.key
      BY <1>3, <2>2, <2>3 DEF UsedIds
    <3> QED
      BY <1>2, <2>5, <2>9, <3>1, <3>2 DEF NewRows
  <2>13. ASSUME NEW d \in Clients \ {c}
         PROVE  Apart(c, d)' /\ Apart(d, c)'
    <3>1. \A n \in work[d].movements : m.id # n.id /\ m.key # n.key
      <4>1. SUFFICES ASSUME NEW n \in work[d].movements PROVE m.id # n.id /\ m.key # n.key
        OBVIOUS
      <4>2. n.id \in UsedIds
        BY DEF UsedIds
      <4>3. n \in Pending(c, "movements")
        BY DEF Pending
      <4> QED
        BY <1>1, <2>2, <2>3, <4>2, <4>3
    <3> QED
      BY <1>2, <2>5, <2>9, <3>1 DEF Apart
  <2> QED
    BY <2>9, <2>11, <2>12, <2>13, LocalStep
<1>4. CASE stored # {} /\ Read(c, "link")
  <2>1. Goto(c, "link") /\ UNCHANGED <<work, obsLock, canonLock>>
    BY <1>4 DEF Read, locks
  <2>2. LocksKept
    BY <2>1 DEF LocksKept, IInv, Shape
  <2>3. \E m \in movements : m.key = req[c].key
    BY <1>4
  <2>4. "link" \in Reviewing \ {"commit"} /\ pc[c] \notin {"link", "commit"}
    BY <1>1 DEF Reviewing, Settling
  <2> QED
    BY <1>2, <2>1, <2>2, <2>3, <2>4, DecisionGoesOn
<1>5. CASE Refuse(c, "conflict")
  BY <1>5, RefuseKeeps
<1> QED
  BY <1>3, <1>4, <1>5 DEF Movement

\* The link of a decision that meets none under its key.
LEMMA NewLinkIs ==
  ASSUME IInv, NEW c \in Clients, pc[c] = "link",
         \A l \in links : l.key # req[c].key
  PROVE  LET r == req[c]
             l == NewLink(c)
         IN /\ l.t = r.t /\ l.key = r.key /\ l.decision = r.decision /\ l.saw = r.saw
            /\ l.digest = DigestOf(r)
            /\ IF IsImport(r.decision) THEN \E m : Drawn(c, m) /\ l.movement = m.id
                                       ELSE work[c].movements = {}
<1> DEFINE r == req[c]
           l == NewLink(c)
           drawn == CHOOSE m \in work[c].movements \cup movements : m.key = r.key
<1>1. /\ l.t = r.t /\ l.key = r.key /\ l.decision = r.decision /\ l.saw = r.saw
      /\ l.digest = DigestOf(r)
  BY DEF NewLink
<1>2. DecisionStage(c, "link") /\ NewRows(c)
  BY DEF IInv, ClientsKept, Client, Stage
<1>3. CASE ~IsImport(r.decision)
  BY <1>1, <1>2, <1>3 DEF DecisionStage, Reviewing, Settling
<1>4. CASE IsImport(r.decision)
  <2>1. l.movement = drawn.id
    BY <1>4 DEF NewLink
  <2>2. ASSUME NEW m \in movements, m.key = r.key
        PROVE  FALSE
    <3>1. m \in Imported
      BY <2>2, DecisionIs DEF Imported, Reviewing, Settling
    <3>2. \E k \in ImportLinks : k.key = m.key
      BY <3>1 DEF IInv, Books
    <3> QED
      BY <2>2, <3>2 DEF ImportLinks
  <2>3. PICK m : Drawn(c, m)
    BY <1>2, <1>4, <2>2 DEF DecisionStage, Reviewing, Settling
  <2>4. m \in work[c].movements /\ m.key = r.key
        /\ \A n \in work[c].movements \cup movements : n.key = r.key => n = m
    BY <2>2, <2>3 DEF Drawn
  <2>5. drawn = m
    BY <2>4
  <2> QED
    BY <1>1, <1>4, <2>1, <2>3, <2>5
<1> QED
  BY <1>3, <1>4

LEMMA LinkKeeps ==
  ASSUME IInv, NEW c \in Clients, Link(c)
  PROVE  IInv'
<1>1. pc[c] = "link" /\ \A l \in Pending(c, "links") : l.key # req[c].key
  BY DEF Link, SameKey
<1>2. CASE Refuse(c, "conflict")
  BY <1>2, RefuseKeeps
<1>3. CASE /\ \A l \in links : l.key # req[c].key
           /\ work' = [work EXCEPT ![c].links = {NewLink(c)}] /\ Goto(c, "commit")
           /\ UNCHANGED locks
  <2>1. PICK l : l = NewLink(c)
    OBVIOUS
  <2> DEFINE w == [work[c] EXCEPT !.links = {l}]
  <2>2. /\ l.t = req[c].t /\ l.key = req[c].key /\ l.decision = req[c].decision
        /\ l.saw = req[c].saw /\ l.digest = DigestOf(req[c])
        /\ IF IsImport(req[c].decision) THEN \E m : Drawn(c, m) /\ l.movement = m.id
                                        ELSE work[c].movements = {}
    BY <1>1, <1>3, <2>1, NewLinkIs
  <2>3. DOMAIN work[c] = Fields
    BY DEF IInv, Shape
  <2>4. w.movements = work[c].movements /\ w.links = {l} /\ DOMAIN w = Fields
    BY <2>3 DEF Fields
  <2>5. WorkIs(c, w)
    BY <1>3, <2>1 DEF WorkIs, IInv, Shape
  <2> HIDE DEF w
  <2>6. LocksKept
    BY <1>3 DEF LocksKept, locks, IInv, Shape
  <2>7. "commit" \notin PageSteps /\ pc[c] \in Reviewing
    BY <1>1 DEF PageSteps, Reviewing, Settling
  <2>8. /\ Local(c) /\ pc'[c] = "commit" /\ req'[c] = req[c] /\ work'[c] = w
        /\ answer'[c] # "incompatible"
        /\ UNCHANGED <<obs, canon, sources, links, movements, audit, stamp>>
        /\ \A d \in Clients \ {c} : work'[d] = work[d]
    BY <1>3, <2>4, <2>5, <2>6, <2>7, GotoIs
  <2>9. DecisionStage(c, "commit")'
    <3>1. Checked(c) /\ obsLock[req[c].t] = c /\ canonLock[req[c].t] = c
      BY <1>1, <2>7, DecisionIs DEF Settling
    <3>2. Trusted(c)' /\ Checked(c)'
      BY <2>7, <2>8, <3>1, TrustedKept, CheckedKept DEF tables
    <3>3. /\ req[c].op = "decide" /\ req[c].t \in Transactions
          /\ \A n \in FirstMovements : n.key # req[c].key
      BY <2>7, DecisionIs
    <3>4. obsLock'[req[c].t] = c /\ canonLock'[req[c].t] = c
      BY <1>3, <3>1 DEF locks
    <3>5. \A m : Drawn(c, m) => Drawn(c, m)'
      BY <2>4, <2>8 DEF Drawn
    <3>6. Stated(c, l)'
      BY <2>2, <2>4, <2>8, <3>5 DEF Stated, DigestOf
    <3> QED
      BY <2>8, <3>2, <3>3, <3>4, <3>6 DEF DecisionStage
  <2>10. Stage(c, pc[c])'
    BY <2>8, <2>9 DEF Stage, PageStage, BatchStage, LedgerStage, PageSteps, BatchSteps, RowSteps
  <2>11. NewRows(c)'
    <3>1. NewRows(c)
      BY DEF IInv, ClientsKept, Client
    <3>2. work'[c].movements = work[c].movements /\ work'[c].links = {l}
      BY <2>4, <2>8
    <3>3. \A k \in links : l.key # k.key
      BY <1>3, <2>2
    <3>4. \A n \in work[c].movements : \A m \in movements : n.id # m.id /\ n.key # m.key
      BY <3>1 DEF NewRows
    <3> QED
      BY <2>8, <3>1, <3>2, <3>3, <3>4 DEF NewRows
  <2>12. ASSUME NEW d \in Clients \ {c}
         PROVE  Apart(c, d)' /\ Apart(d, c)'
    <3>1. Apart(c, d) /\ Apart(d, c)
      BY DEF IInv, ClientsKept
    <3>2. \A k \in work[d].links : k.key # l.key
      BY <1>1, <2>2 DEF Pending
    <3> QED
      BY <2>4, <2>8, <3>1, <3>2 DEF Apart
  <2> QED
    BY <2>8, <2>10, <2>11, <2>12, LocalStep
<1> QED
  BY <1>2, <1>3 DEF Link, SameKey

\* What the commit of a decision adds to the ledger.
LEMMA DecisionAdds ==
  ASSUME IInv, NEW c \in Clients, CommitDecision(c)
  PROVE  \E l :
           /\ links' = links \cup {l} /\ l.t = req[c].t /\ l.key = req[c].key
           /\ l.digest = DigestOf(req[c]) /\ l.decision = req[c].decision
           /\ l.saw = req[c].saw /\ l.saw = Candidate(l.t)
           /\ l.decision # "IGNORE" =>
                obs[l.t].status = "CONFIRMED" /\ canon[l.t].status = "CONFIRMED"
           /\ LinksOf(l.t) = {} /\ \A k \in links : k.key # l.key
           /\ \/ /\ ~IsImport(l.decision) /\ movements' = movements /\ audit' = audit
              \/ /\ IsImport(l.decision)
                 /\ \E m : /\ movements' = movements \cup {m} /\ audit' = audit \cup {m.id}
                          /\ m.id = l.movement /\ m.key = l.key /\ m.amount = l.saw.amount
                          /\ m \notin FirstMovements
                          /\ \A n \in movements : m.id # n.id
<1>1. /\ pc[c] = "commit" /\ links' = links \cup work[c].links
      /\ movements' = movements \cup work[c].movements
      /\ audit' = audit \cup ImportsAudited(work[c].links)
  BY DEF CommitDecision
<1>2. /\ DecisionStage(c, "commit") /\ Checked(c) /\ NewRows(c)
      /\ \A m \in FirstMovements : m.key # req[c].key
  BY <1>1, DecisionIs DEF Reviewing, Settling, IInv, ClientsKept, Client
<1>3. PICK l : Stated(c, l)
  BY <1>2 DEF DecisionStage, Reviewing, Settling
<1>4. /\ work[c].links = {l}
      /\ l.t = req[c].t /\ l.key = req[c].key /\ l.decision = req[c].decision
      /\ l.saw = req[c].saw /\ l.digest = DigestOf(req[c])
  BY <1>3 DEF Stated
<1>5. /\ l.saw = Candidate(l.t) /\ LinksOf(l.t) = {}
      /\ l.decision # "IGNORE" =>
           obs[l.t].status = "CONFIRMED" /\ canon[l.t].status = "CONFIRMED"
  BY <1>2, <1>4 DEF Checked, Confirmed
<1>6. \A k \in links : k.key # l.key
  BY <1>2, <1>4 DEF NewRows
<1>7. CASE ~IsImport(l.decision)
  <2>1. work[c].movements = {} /\ ImportsAudited({l}) = {}
    BY <1>3, <1>4, <1>7 DEF Stated, ImportsAudited
  <2>2. movements' = movements /\ audit' = audit
    BY <1>1, <1>4, <2>1
  <2> QED
    BY <1>1, <1>4, <1>5, <1>6, <1>7, <2>2
<1>8. CASE IsImport(l.decision)
  <2>1. PICK m : Drawn(c, m) /\ l.movement = m.id
    BY <1>3, <1>4, <1>8 DEF Stated
  <2>2. work[c].movements = {m} /\ m.key = l.key /\ m.amount = l.saw.amount
    BY <1>4, <2>1 DEF Drawn
  <2>3. ImportsAudited({l}) = {m.id}
    BY <1>8, <2>1 DEF ImportsAudited
  <2>4. m \notin FirstMovements /\ \A n \in movements : m.id # n.id
    BY <1>2, <1>4, <2>2 DEF NewRows
  <2>5. movements' = movements \cup {m} /\ audit' = audit \cup {m.id}
    BY <1>1, <1>4, <2>2, <2>3
  <2>6. /\ IsImport(l.decision)
        /\ \E n : /\ movements' = movements \cup {n} /\ audit' = audit \cup {n.id}
                 /\ n.id = l.movement /\ n.key = l.key /\ n.amount = l.saw.amount
                 /\ n \notin FirstMovements
                 /\ \A o \in movements : n.id # o.id
    BY <1>8, <2>1, <2>2, <2>4, <2>5
  <2>7. links' = links \cup {l}
    BY <1>1, <1>4
  <2> HIDE <1>8
  <2> QED
    BY <1>4, <1>5, <1>6, <2>6, <2>7
<1> QED
  BY <1>7, <1>8

LEMMA BooksKept ==
  ASSUME IInv, NEW c \in Clients, CommitDecision(c)
  PROVE  Books'
<1>1. PICK l :
        /\ links' = links \cup {l} /\ l.t = req[c].t /\ l.key = req[c].key
        /\ l.digest = DigestOf(req[c]) /\ l.decision = req[c].decision
        /\ l.saw = req[c].saw /\ l.saw = Candidate(l.t)
        /\ l.decision # "IGNORE" =>
             obs[l.t].status = "CONFIRMED" /\ canon[l.t].status = "CONFIRMED"
        /\ LinksOf(l.t) = {} /\ \A k \in links : k.key # l.key
        /\ \/ /\ ~IsImport(l.decision) /\ movements' = movements /\ audit' = audit
           \/ /\ IsImport(l.decision)
              /\ \E m : /\ movements' = movements \cup {m} /\ audit' = audit \cup {m.id}
                       /\ m.id = l.movement /\ m.key = l.key /\ m.amount = l.saw.amount
                       /\ m \notin FirstMovements
                       /\ \A n \in movements : m.id # n.id
  BY DecisionAdds
<1>2. \A k, j \in links' : k.t = j.t \/ k.key = j.key => k = j
  <2>1. \A k \in links : k.t # l.t /\ k.key # l.key
    BY <1>1 DEF LinksOf
  <2>2. \A k, j \in links : k.t = j.t \/ k.key = j.key => k = j
    BY DEF IInv, Books
  <2> QED
    BY <1>1, <2>1, <2>2
<1>3. \A k \in links' : k.digest.t = k.t
  <2>1. l.digest.t = l.t
    BY <1>1 DEF DigestOf
  <2> QED
    BY <1>1, <2>1 DEF IInv, Books
<1>4. CASE ~IsImport(l.decision) /\ movements' = movements /\ audit' = audit
  <2>1. ImportLinks' = ImportLinks /\ Imported' = Imported
    BY <1>1, <1>4 DEF ImportLinks, Imported
  <2> QED
    BY <1>2, <1>3, <1>4, <2>1 DEF IInv, Books
<1>5. CASE IsImport(l.decision)
  <2>1. PICK m : /\ movements' = movements \cup {m} /\ audit' = audit \cup {m.id}
                 /\ m.id = l.movement /\ m.key = l.key /\ m.amount = l.saw.amount
                 /\ m \notin FirstMovements
                 /\ \A n \in movements : m.id # n.id
    BY <1>1, <1>5
  <2>2. ImportLinks' = ImportLinks \cup {l} /\ Imported' = Imported \cup {m}
        /\ Imported \subseteq movements
    BY <1>1, <1>5, <2>1 DEF ImportLinks, Imported
  <2>3. FirstMovements \subseteq movements' /\ IsFiniteSet(movements')
    BY <2>1, FS_AddElement DEF IInv, Books
  <2>4. \A n, o \in Imported' : n.id = o.id => n = o
    BY <2>1, <2>2 DEF IInv, Books
  <2>5. \A k \in ImportLinks' :
          \E n \in Imported' : n.id = k.movement /\ n.key = k.key /\ n.amount = k.saw.amount
    BY <2>1, <2>2 DEF IInv, Books
  <2>6. \A n \in Imported' : \E k \in ImportLinks' : k.movement = n.id /\ k.key = n.key
    BY <2>1, <2>2 DEF IInv, Books
  <2>7. audit' = {n.id : n \in movements'}
    <3>1. audit = {n.id : n \in movements}
      BY DEF IInv, Books
    <3> QED
      BY <2>1, <3>1
  <2> QED
    BY <1>2, <1>3, <2>3, <2>4, <2>5, <2>6, <2>7 DEF Books
<1> QED
  BY <1>1, <1>4, <1>5

LEMMA CommitDecisionKeeps ==
  ASSUME IInv, NEW c \in Clients, CommitDecision(c)
  PROVE  IInv'
<1>1. /\ pc[c] = "commit" /\ UNCHANGED <<obs, canon, sources>>
      /\ links' = links \cup work[c].links /\ movements' = movements \cup work[c].movements
  BY DEF CommitDecision
<1>2. Ended(c)
  BY ReturnEnds DEF CommitDecision
<1>3. pc'[c] \notin PageSteps /\ pc[c] \notin PageSteps /\ UNCHANGED stamp
  BY <1>1, <1>2 DEF Ended, PageSteps
<1>4. Writing' = Writing
  BY <1>2, <1>3 DEF Writing, Ended, PageSteps
<1>5. \A u : Past(u) => Past(u)'
  BY <1>3, <1>4 DEF Past
<1>6. Growth
  BY <1>1, <1>5 DEF Growth
<1>7. RowsKept'
  BY <1>1, <1>5 DEF IInv, RowsKept, RowKept
<1>8. Books'
  BY BooksKept
<1>9. ASSUME NEW d \in Clients \ {c}
      PROVE  Undisturbed(d) /\ NewRows(d)'
  <2>1. NewRows(d) /\ Apart(d, c) /\ work'[d] = work[d]
    BY <1>2 DEF IInv, ClientsKept, Client, Ended
  <2>2. NewRows(d)'
    BY <1>1, <2>1 DEF NewRows, Apart
  <2>3. \A l \in links' \ links : canonLock[l.t] = c
    <3>1. canonLock[req[c].t] = c
      BY <1>1, DecisionIs DEF Reviewing, Settling
    <3>2. \A l \in links' \ links : l.t = req[c].t
      BY DecisionAdds
    <3> QED
      BY <3>1, <3>2
  <2> QED
    BY <1>1, <1>2, <1>3, <2>2, <2>3 DEF Undisturbed, Ended
<1> QED
  BY <1>2, <1>6, <1>7, <1>8, <1>9, CommitKeeps

-----------------------------------------------------------------------------
(* The row of a page *)

LEMMA PageIs ==
  ASSUME NEW S, NEW q \in Seq(S), q # <<>>
  PROVE  Head(q) \in S /\ Tail(q) \in Seq(S) /\ (Len(q) # 1 => Tail(q) # <<>>)
<1>1. Len(q) \in Nat /\ Len(q) # 0
  OBVIOUS
<1>2. Head(q) \in S
  BY <1>1
<1>3. Tail(q) \in Seq(S) /\ Len(Tail(q)) = Len(q) - 1
  BY <1>1
<1> QED
  BY <1>1, <1>2, <1>3

LEMMA UpsertKeeps ==
  ASSUME IInv, NEW c \in Clients, Upsert(c)
  PROVE  IInv'
<1> DEFINE r == req[c]
           o == Head(r.page)
           row == [status |-> o.status, amount |-> o.amount, seen |-> r.seen,
                   updated |-> stamp]
           newer == Newer(o.t, r.seen)
           wrote == IF newer THEN With(work[c].wrote, o.t, row) ELSE work[c].wrote
           next == IF Len(r.page) = 1 THEN "page" ELSE "upsert"
<1>1. /\ pc[c] = "upsert" /\ obsLock[o.t] = Nobody
      /\ obsLock' = [obsLock EXCEPT ![o.t] = c]
      /\ work' = IF newer THEN [work EXCEPT ![c].wrote = With(work[c].wrote, o.t, row)]
                 ELSE work
      /\ req' = [req EXCEPT ![c].page = Tail(r.page)]
      /\ pc' = [pc EXCEPT ![c] = next]
      /\ UNCHANGED <<obs, canon, sources, links, movements, audit, canonLock, answer, stamp>>
  BY DEF Upsert, tables
<1>2. /\ DOMAIN r = {"op", "page", "seen"} /\ r.page \in Seq(Items) \ {<<>>}
      /\ r.seen \in Nat
      /\ \A t \in DOMAIN work[c].wrote :
           /\ t \in Transactions /\ obsLock[t] = c
           /\ work[c].wrote[t].updated = stamp
           /\ work[c].wrote[t].seen \in Nat /\ obs[t].seen < work[c].wrote[t].seen
      /\ work[c].links = {} /\ work[c].movements = {}
  BY <1>1 DEF IInv, ClientsKept, Client, Stage, PageStage, PageSteps, LedgerStage
<1>3. o \in Items /\ o.t \in Transactions
  <2>1. o \in Items
    BY <1>2, PageIs
  <2> QED
    BY <2>1 DEF Items
<1>4. DOMAIN work[c] = Fields /\ DOMAIN work = Clients /\ DOMAIN req = Clients
      /\ DOMAIN pc = Clients /\ DOMAIN obsLock = Transactions
  BY DEF IInv, Shape
<1>5. /\ work'[c].wrote = wrote /\ work'[c].links = {} /\ work'[c].movements = {}
      /\ DOMAIN work'[c] = Fields /\ DOMAIN work' = Clients
      /\ \A d \in Clients \ {c} : work'[d] = work[d]
  <2>1. CASE newer
    BY <1>1, <1>2, <1>4, <2>1 DEF Fields
  <2>2. CASE ~newer
    BY <1>1, <1>2, <1>4, <2>2
  <2> QED
    BY <2>1, <2>2
<1>6. /\ req'[c].page = Tail(r.page) /\ req'[c].seen = r.seen
      /\ DOMAIN req'[c] = {"op", "page", "seen"} /\ DOMAIN req' = Clients
      /\ \A d \in Clients \ {c} : req'[d] = req[d]
  BY <1>1, <1>2, <1>4
<1>7. pc'[c] = next /\ DOMAIN pc' = Clients /\ \A d \in Clients \ {c} : pc'[d] = pc[d]
  BY <1>1, <1>4
<1>8. /\ obsLock'[o.t] = c /\ DOMAIN obsLock' = Transactions
      /\ \A t \in Transactions : obsLock[t] # Nobody => obsLock'[t] = obsLock[t]
  BY <1>1, <1>3, <1>4
<1>9. Shape'
  BY <1>1, <1>5, <1>6, <1>7, <1>8 DEF IInv, Shape
<1>10. Local(c)
  BY <1>1, <1>5, <1>6, <1>7, <1>8, <1>9, ClientsAssumption DEF Local, tables, PageSteps
<1>11. \A t \in DOMAIN wrote :
         /\ t \in Transactions /\ obsLock'[t] = c
         /\ wrote[t].updated = stamp
         /\ wrote[t].seen \in Nat /\ obs[t].seen < wrote[t].seen
  <2>1. SUFFICES ASSUME NEW t \in DOMAIN wrote
        PROVE  /\ t \in Transactions /\ obsLock'[t] = c
               /\ wrote[t].updated = stamp
               /\ wrote[t].seen \in Nat /\ obs[t].seen < wrote[t].seen
    OBVIOUS
  <2>2. CASE newer /\ t = o.t
    <3>1. wrote[t] = row
      BY <2>2 DEF With
    <3>2. row.updated = stamp /\ row.seen = r.seen
      OBVIOUS
    <3>3. obs[t].seen < r.seen
      BY <2>2 DEF Newer
    <3> QED
      BY <1>2, <1>3, <1>8, <2>2, <3>1, <3>2, <3>3
  <2>3. CASE ~(newer /\ t = o.t)
    <3>1. t \in DOMAIN work[c].wrote /\ wrote[t] = work[c].wrote[t]
      BY <2>1, <2>3 DEF With
    <3>2. obsLock[t] # Nobody
      BY <1>2, <3>1, ClientsAssumption
    <3> QED
      BY <1>2, <1>8, <3>1, <3>2
  <2> QED
    BY <2>2, <2>3
<1> HIDE DEF wrote
<1>12. PICK p : p = next
  OBVIOUS
<1>13. p \in PageSteps
  BY <1>12 DEF PageSteps
<1>14. p = "upsert" => Tail(r.page) \in Seq(Items) \ {<<>>}
  BY <1>2, <1>12, PageIs
<1>15. PageStage(c, p)'
  BY <1>1, <1>2, <1>5, <1>6, <1>11, <1>14 DEF PageStage
<1>16. Stage(c, p)'
  BY <1>5, <1>13, <1>15 DEF Stage, BatchStage, DecisionStage, LedgerStage, PageSteps,
       BatchSteps, RowSteps, Reviewing, Settling
<1>17. Stage(c, pc[c])'
  BY <1>7, <1>12, <1>16
<1>18. NewRows(c)' /\ \A d \in Clients \ {c} : Apart(c, d)' /\ Apart(d, c)'
  BY <1>1, <1>2, <1>5, RowsKeptApart
<1>19. answer'[c] # "incompatible"
  BY <1>1 DEF IInv, BatchesNeverConflict
<1> QED
  BY <1>10, <1>17, <1>18, <1>19, LocalStep

-----------------------------------------------------------------------------
(* The invariant *)

LEMMA InitHolds ==
  ASSUME Init
  PROVE  IInv
<1>1. Shape
  BY DEF Init, Shape, Fields, NoWork
<1>2. \A c \in Clients : pc[c] = "idle" /\ work[c] = NoWork
  BY DEF Init
<1>3. Writing = {} /\ OneWriter
  BY <1>2 DEF Writing, OneWriter, PageSteps
<1>4. RowsKept
  <2>1. SUFFICES ASSUME NEW t \in Transactions PROVE RowKept(t)
    BY DEF RowsKept
  <2>2. canon[t] = [status |-> obs[t].status, seen |-> obs[t].seen]
        /\ sources[t] = obs[t].updated /\ stamp = 1 /\ obs \in Starts
    BY DEF Init
  <2>3. CASE obs[t] = NoObs
    <3>1. obs[t].seen = 0 /\ obs[t].updated = 0 /\ obs[t].status = "none"
      BY <2>3 DEF NoObs
    <3> QED
      BY <1>3, <2>2, <3>1 DEF RowKept, Past
  <2>4. CASE obs[t] # NoObs
    <3>1. obs[t].updated = 1 /\ obs[t].seen \in Nat \ {0}
      BY <2>2, <2>4, StartsAssumption
    <3>2. canon[t] # NoCanon
      BY <2>2, <3>1 DEF NoCanon
    <3> QED
      BY <1>3, <2>2, <3>1, <3>2 DEF RowKept, Past
  <2> QED
    BY <2>3, <2>4
<1>5. ClientsKept
  <2>1. ASSUME NEW c \in Clients
        PROVE  Client(c)
    <3>1. Stage(c, "idle")
      BY <1>2 DEF Stage, PageStage, BatchStage, DecisionStage, LedgerStage, PageSteps,
           BatchSteps, RowSteps, Reviewing, Settling, NoWork
    <3>2. NewRows(c)
      BY <1>2, FS_EmptySet DEF NewRows, NoWork
    <3> QED
      BY <1>2, <3>1, <3>2 DEF Client
  <2>2. ASSUME NEW c \in Clients, NEW d \in Clients
        PROVE  Apart(c, d)
    BY <1>2 DEF Apart, NoWork
  <2> QED
    BY <2>1, <2>2 DEF ClientsKept
<1>6. Books
  BY DecisionsAssumption DEF Init, Books, Imported, ImportLinks
<1>7. BatchesNeverConflict
  BY DEF Init, BatchesNeverConflict
<1> QED
  BY <1>1, <1>3, <1>4, <1>5, <1>6, <1>7 DEF IInv

LEMMA StutterKeeps ==
  ASSUME IInv, UNCHANGED vars
  PROVE  IInv'
<1>1. /\ UNCHANGED <<obs, canon, sources, links, movements, audit, obsLock, canonLock>>
      /\ UNCHANGED <<pc, req, work, answer, stamp>>
  BY DEF vars, tables, locks
<1>2. Shape' /\ OneWriter' /\ BatchesNeverConflict'
  BY <1>1 DEF IInv, Shape, OneWriter, BatchesNeverConflict
<1>3. RowsKept'
  BY <1>1 DEF IInv, RowsKept, RowKept, Past, Writing
<1>4. Books'
  BY <1>1 DEF IInv, Books, Imported, ImportLinks
<1>5. ClientsKept'
  <2>1. \A c, d \in Clients : Apart(c, d) => Apart(c, d)'
    BY <1>1 DEF Apart
  <2>2. ASSUME NEW c \in Clients
        PROVE  Client(c)'
    <3>1. Undisturbed(c) /\ Growth
      BY <1>1 DEF Undisturbed, Growth, Past, Writing
    <3>2. Stage(c, pc[c])'
      BY <3>1, StageKept
    <3>3. NewRows(c)'
      BY <1>1 DEF IInv, ClientsKept, Client, NewRows
    <3> QED
      BY <3>2, <3>3 DEF Client
  <2> QED
    BY <2>1, <2>2 DEF IInv, ClientsKept
<1> QED
  BY <1>2, <1>3, <1>4, <1>5 DEF IInv

LEMMA NextKeeps ==
  ASSUME IInv, [Next]_vars
  PROVE  IInv'
<1>1. ASSUME NEW c \in Clients, Ask(c)
      PROVE  IInv'
  BY <1>1, AskSyncKeeps, AskBatchKeeps, AskDecisionKeeps DEF Ask
<1>2. ASSUME NEW c \in Clients, Statement(c)
      PROVE  IInv'
  <2>1. CASE Upsert(c) \/ CommitPage(c)
    BY <2>1, UpsertKeeps, CommitPageKeeps
  <2>2. CASE Select(c) \/ LockRow(c) \/ Source(c) \/ Target(c) \/ CommitBatch(c)
    BY <2>2, SelectKeeps, LockRowKeeps, SourceKeeps, TargetKeeps, CommitBatchKeeps
  <2>3. CASE Lookup(c) \/ LockCanon(c) \/ LockObservation(c) \/ Check(c)
    BY <2>3, LookupKeeps, LockCanonKeeps, LockObservationKeeps, CheckKeeps
  <2>4. CASE Movement(c) \/ Link(c) \/ CommitDecision(c)
    BY <2>4, MovementKeeps, LinkKeeps, CommitDecisionKeeps
  <2> QED
    BY <1>2, <2>1, <2>2, <2>3, <2>4 DEF Statement
<1>3. ASSUME NEW c \in Clients, Abort(c) \/ Cut(c)
      PROVE  IInv'
  BY <1>3, RefuseKeeps DEF Abort, Cut
<1>4. CASE UNCHANGED vars
  BY <1>4, StutterKeeps
<1> QED
  BY <1>1, <1>2, <1>3, <1>4 DEF Next, Done

\* The inductive invariant holds in every reachable state of the calls, pages,
\* batches and decisions that banking_reconciliation_store.py and
\* banking_ledger_review_store.py interleave.
THEOREM Invariance == Spec => []IInv
<1>1. Init => IInv
  BY InitHolds
<1>2. IInv /\ [Next]_vars => IInv'
  BY NextKeeps
<1> QED
  BY <1>1, <1>2, PTL DEF Spec

\* No page leaves a row that a batch must refuse, whatever the clock of the
\* application reads: reconcile_transaction_observations never fails.
THEOREM BatchesNeverConflictHolds == Spec => []BatchesNeverConflict
<1>1. IInv => BatchesNeverConflict
  BY DEF IInv
<1> QED
  BY <1>1, Invariance, PTL

\* A row that no batch will pick up again is reconciled to what the bank said
\* last, also when its page committed next to the batch.
THEOREM NothingIsMissedHolds == Spec => []NothingIsMissed
<1>1. IInv => NothingIsMissed
  BY DEF IInv, RowsKept, RowKept, NothingIsMissed, Dirty
<1> QED
  BY <1>1, Invariance, PTL

\* BankingLedgerReviewStore.decide decides a transaction once, and an import and
\* its movement come together.
THEOREM ImportsAreWholeHolds == Spec => []ImportsAreWhole
<1>1. ASSUME IInv
      PROVE  ImportsAreWhole
  <2>1. \A k, l \in links : k.t = l.t \/ k.key = l.key => k = l
    BY <1>1 DEF IInv, Books
  <2>2. \A k, l \in ImportLinks : k.movement = l.movement => k = l
    <3>1. SUFFICES ASSUME NEW k \in ImportLinks, NEW l \in ImportLinks,
                          k.movement = l.movement
                   PROVE  k = l
      OBVIOUS
    <3>2. PICK m \in Imported : m.id = k.movement /\ m.key = k.key
      BY <1>1 DEF IInv, Books
    <3>3. PICK n \in Imported : n.id = l.movement /\ n.key = l.key
      BY <1>1 DEF IInv, Books
    <3>4. m = n
      BY <1>1, <3>1, <3>2, <3>3 DEF IInv, Books
    <3> QED
      BY <2>1, <3>2, <3>3, <3>4 DEF ImportLinks
  <2>3. \A l \in ImportLinks :
          \E m \in movements \ FirstMovements : m.id = l.movement /\ m.amount = l.saw.amount
    BY <1>1 DEF IInv, Books, Imported
  <2>4. \A m \in movements \ FirstMovements : \E l \in ImportLinks : l.movement = m.id
    BY <1>1 DEF IInv, Books, Imported
  <2>5. audit = {m.id : m \in movements}
    BY <1>1 DEF IInv, Books
  <2> QED
    BY <2>1, <2>2, <2>3, <2>4, <2>5 DEF ImportsAreWhole
<1> QED
  BY <1>1, Invariance, PTL

-----------------------------------------------------------------------------
(* What a step may never do *)

\* The commits of decisions are the only steps that store a link.
LEMMA LinksStay ==
  ASSUME [Next]_vars, \A c \in Clients : ~CommitDecision(c)
  PROVE  links' = links
<1>1. ASSUME NEW c \in Clients, Ask(c)
      PROVE  links' = links
  BY <1>1 DEF Ask, AskSync, AskBatch, AskDecision, Begin, tables
<1>2. ASSUME NEW c \in Clients, Statement(c)
      PROVE  links' = links
  <2>1. CASE Upsert(c) \/ CommitPage(c)
    BY <2>1 DEF Upsert, CommitPage, tables
  <2>2. CASE Select(c) \/ LockRow(c) \/ Source(c) \/ Target(c) \/ CommitBatch(c)
    BY <2>2 DEF Select, LockRow, Source, Target, CommitBatch, Goto, Read, Refuse, tables
  <2>3. CASE Lookup(c) \/ LockCanon(c) \/ LockObservation(c)
    BY <2>3 DEF Lookup, LockCanon, LockObservation, Goto, Read, Refuse, tables
  <2>4. CASE Check(c)
    BY <2>4 DEF Check, Goto, Read, Refuse, tables
  <2>5. CASE Movement(c) \/ Link(c)
    BY <2>5 DEF Movement, Link, Goto, Read, Refuse, tables
  <2> QED
    BY <1>2, <2>1, <2>2, <2>3, <2>4, <2>5 DEF Statement
<1>3. ASSUME NEW c \in Clients, Abort(c) \/ Cut(c)
      PROVE  links' = links
  BY <1>3 DEF Abort, Cut, Refuse, tables
<1>4. CASE UNCHANGED vars
  BY <1>4 DEF vars, tables
<1> QED
  BY <1>1, <1>2, <1>3, <1>4 DEF Next, Done

\* _require_source_snapshot and the confirmed status hold when the decision
\* commits, not only when they were checked.
THEOREM DecisionsAreCurrentHolds == Spec => DecisionsAreCurrent
<1> DEFINE Current ==
      \A l \in links' \ links :
        /\ l.saw = Candidate(l.t)
        /\ l.decision # "IGNORE" =>
             obs[l.t].status = "CONFIRMED" /\ canon[l.t].status = "CONFIRMED"
<1>1. ASSUME IInv, [Next]_vars
      PROVE  Current
  <2>1. CASE \A c \in Clients : ~CommitDecision(c)
    BY <1>1, <2>1, LinksStay
  <2>2. ASSUME NEW c \in Clients, CommitDecision(c)
        PROVE  Current
    BY <1>1, <2>2, DecisionAdds
  <2> QED
    BY <2>1, <2>2
<1>2. IInv /\ [Next]_vars => [Current]_vars
  BY <1>1
<1> QED
  BY Invariance, <1>2, PTL DEF Spec, DecisionsAreCurrent

\* What a call that ends says about its decision.
Tells(c) ==
  /\ answer'[c] = "decided" => \E l \in links' : l.key = req[c].key /\ l.digest = DigestOf(req[c])
  /\ answer'[c] \in Refusals =>
       ~\E l \in links' : l.key = req[c].key /\ l.digest = DigestOf(req[c])

LEMMA RefuseIs ==
  ASSUME IInv, NEW c \in Clients, NEW kind, Refuse(c, kind)
  PROVE  answer'[c] = kind /\ links' = links
BY DEF IInv, Shape, Refuse, Return, tables

\* An answer that speaks of no decision.
LEMMA SilentTells ==
  ASSUME NEW c \in Clients, answer'[c] \notin Refusals \cup {"decided"}
  PROVE  Tells(c)
BY DEF Tells

\* The answer to a key that is used.
LEMMA ReplayTells ==
  ASSUME IInv, NEW c \in Clients, LinksWithKey(req[c].key) # {}, Refuse(c, Replayed(req[c]))
  PROVE  Tells(c)
<1>1. answer'[c] = Replayed(req[c]) /\ links' = links
  BY RefuseIs
<1> QED
  BY <1>1 DEF Replayed, LinksWithKey, Tells, Refusals

\* A refusal of a decision whose key, or whose transaction, has no link.
LEMMA RefusalTells ==
  ASSUME IInv, NEW c \in Clients, NEW kind, kind # "decided", Refuse(c, kind),
         LinksWithKey(req[c].key) = {} \/ LinksOf(req[c].t) = {}
  PROVE  Tells(c)
<1>1. answer'[c] = kind /\ links' = links
  BY RefuseIs
<1>2. ASSUME NEW l \in links, l.key = req[c].key, l.digest = DigestOf(req[c])
      PROVE  FALSE
  <2>1. l.digest.t = l.t
    BY DEF IInv, Books
  <2>2. l.t = req[c].t
    BY <1>2, <2>1 DEF DigestOf
  <2> QED
    BY <1>2, <2>2 DEF LinksWithKey, LinksOf
<1> QED
  BY <1>1, <1>2 DEF Tells

LEMMA DecisionTells ==
  ASSUME IInv, NEW c \in Clients, pc'[c] = "idle",
         Lookup(c) \/ LockCanon(c) \/ LockObservation(c) \/ Check(c) \/ Movement(c)
           \/ Link(c) \/ CommitDecision(c)
  PROVE  Tells(c)
<1>1. ASSUME NEW p, Goto(c, p), p # "idle"
      PROVE  FALSE
  BY <1>1 DEF Goto, IInv, Shape
<1>2. CASE Lookup(c)
  <2>1. LinksWithKey(req[c].key) # {}
    BY <1>1, <1>2 DEF Lookup, Read
  <2> QED
    BY <1>2, <2>1, ReplayTells DEF Lookup
<1>3. CASE LockCanon(c) \/ LockObservation(c)
  BY <1>1, <1>3 DEF LockCanon, LockObservation
<1>4. CASE Check(c)
  <2>1. CASE LinksWithKey(req[c].key) # {}
    BY <1>4, <2>1, ReplayTells DEF Check
  <2>2. CASE LinksWithKey(req[c].key) = {}
    <3>1. \E kind : kind # "decided" /\ Refuse(c, kind)
      BY <1>1, <1>4, <2>2 DEF Check, Read
    <3> QED
      BY <2>2, <3>1, RefusalTells
  <2> QED
    BY <2>1, <2>2
<1>5. CASE Movement(c) \/ Link(c)
  <2>1. LinksOf(req[c].t) = {}
    BY <1>5, DecisionIs DEF Movement, Link, Reviewing, Settling, Checked
  <2>2. Refuse(c, "conflict")
    BY <1>1, <1>5 DEF Movement, Link, Read
  <2> QED
    BY <2>1, <2>2, RefusalTells
<1>6. CASE CommitDecision(c)
  <2>1. \E l \in links' : l.key = req[c].key /\ l.digest = DigestOf(req[c])
    BY <1>6, DecisionAdds
  <2>2. answer'[c] \in {"decided", "lost"}
    BY <1>6 DEF CommitDecision, Return, IInv, Shape
  <2> QED
    BY <2>1, <2>2 DEF Tells, Refusals
<1> QED
  BY <1>2, <1>3, <1>4, <1>5, <1>6

LEMMA OtherTells ==
  ASSUME IInv, NEW c \in Clients, pc'[c] = "idle",
         Upsert(c) \/ CommitPage(c) \/ Select(c) \/ LockRow(c) \/ Source(c) \/ Target(c)
           \/ CommitBatch(c) \/ Abort(c) \/ Cut(c)
  PROVE  Tells(c)
<1>1. ASSUME NEW p, pc' = [pc EXCEPT ![c] = p], p # "idle"
      PROVE  FALSE
  BY <1>1 DEF IInv, Shape
<1>2. ASSUME NEW kind, Return(c, kind), kind \notin Refusals \cup {"decided"}
      PROVE  Tells(c)
  BY <1>2, SilentTells DEF Return, IInv, Shape
<1>3. CASE Upsert(c)
  BY <1>1, <1>3 DEF Upsert
<1>4. CASE CommitPage(c)
  BY <1>1, <1>2, <1>4 DEF CommitPage, Refusals
<1>5. CASE Select(c)
  BY <1>1, <1>2, <1>5 DEF Select, Goto, Refuse, Refusals
<1>6. CASE LockRow(c)
  BY <1>1, <1>6 DEF LockRow, Goto
<1>7. CASE Source(c)
  BY <1>1, <1>7, AfterRowIs DEF Source, Goto, Read
<1>8. CASE Target(c)
  BY <1>1, <1>2, <1>8, AfterRowIs DEF Target, Goto, Refuse, Refusals
<1>9. CASE CommitBatch(c)
  BY <1>2, <1>9 DEF CommitBatch, Refusals
<1>10. CASE Abort(c) \/ Cut(c)
  BY <1>2, <1>10 DEF Abort, Cut, Refuse, Refusals
<1> QED
  BY <1>3, <1>4, <1>5, <1>6, <1>7, <1>8, <1>9, <1>10

\* A step of one client leaves the call of another open.
LEMMA OthersGoOn ==
  ASSUME IInv, NEW c \in Clients, NEW d \in Clients \ {c},
         Ask(d) \/ Statement(d) \/ Abort(d) \/ Cut(d)
  PROVE  pc'[c] = pc[c]
<1>1. \E p : pc' = [pc EXCEPT ![d] = p]
  <2>1. CASE Ask(d)
    BY <2>1 DEF Ask, AskSync, AskBatch, AskDecision, Begin
  <2>2. CASE Upsert(d) \/ CommitPage(d)
    BY <2>2 DEF Upsert, CommitPage, Return
  <2>3. CASE Select(d) \/ LockRow(d) \/ Source(d) \/ Target(d) \/ CommitBatch(d)
    BY <2>3 DEF Select, LockRow, Source, Target, CommitBatch, Goto, Read, Refuse, Return
  <2>4. CASE Lookup(d) \/ LockCanon(d) \/ LockObservation(d)
    BY <2>4 DEF Lookup, LockCanon, LockObservation, Goto, Read, Refuse, Return
  <2>5. CASE Check(d)
    BY <2>5 DEF Check, Goto, Read, Refuse, Return
  <2>6. CASE Movement(d) \/ Link(d) \/ CommitDecision(d)
    BY <2>6 DEF Movement, Link, CommitDecision, Goto, Read, Refuse, Return
  <2>7. CASE Abort(d) \/ Cut(d)
    BY <2>7 DEF Abort, Cut, Refuse, Return
  <2> QED
    BY <2>1, <2>2, <2>3, <2>4, <2>5, <2>6, <2>7 DEF Statement
<1> QED
  BY <1>1 DEF IInv, Shape

\* A decision that is answered as stored is stored, and one that is refused is
\* not, also when it repeats one whose answer was lost.
THEOREM RetriesAreToldHolds == Spec => RetriesAreTold
<1> DEFINE Told ==
      \A c \in Clients :
        pc[c] # "idle" /\ pc'[c] = "idle" /\ req[c].op = "decide" =>
          LET stored == \E l \in links' : l.key = req[c].key /\ l.digest = DigestOf(req[c])
          IN (answer'[c] = "decided" => stored) /\ (answer'[c] \in Refusals => ~stored)
<1>1. ASSUME IInv, [Next]_vars
      PROVE  Told
  <2>1. SUFFICES ASSUME NEW c \in Clients, pc[c] # "idle", pc'[c] = "idle"
                 PROVE  Tells(c)
    BY DEF Tells
  <2>2. PICK d \in Clients : Ask(d) \/ Statement(d) \/ Abort(d) \/ Cut(d)
    BY <1>1, <2>1 DEF Next, Done, vars
  <2>3. d = c
    BY <1>1, <2>1, <2>2, OthersGoOn
  <2>4. ~Ask(c)
    BY <2>1 DEF Ask, AskSync, AskBatch, AskDecision, Begin
  <2> QED
    BY <1>1, <2>1, <2>2, <2>3, <2>4, DecisionTells, OtherTells DEF Statement
<1>2. IInv /\ [Next]_vars => [Told]_vars
  BY <1>1
<1> QED
  BY Invariance, <1>2, PTL DEF Spec, RetriesAreTold
=============================================================================
