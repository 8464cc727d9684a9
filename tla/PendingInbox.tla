---------------------------- MODULE PendingInbox ----------------------------
(***************************************************************************)
(* The inbox of movements that wait to be classified, read page by page    *)
(* while they are classified, rules come and go and movements are posted   *)
(* (financial_pending_movement_store.py, pending_movements.py and the      *)
(* services and routes above them).                                        *)
(*                                                                         *)
(* Nothing of the inbox is stored: a page is derived from the rows of      *)
(* Classification, and where to go on is a position in the order of the    *)
(* movements that the client keeps.  A request is several transactions:    *)
(* the rules and the categories are read once, then one batch of movements *)
(* after another.  Categories do not change.                               *)
(***************************************************************************)
EXTENDS Classification, FiniteSetsExt

CONSTANTS
  Rank,           \* the order effective_date DESC, id DESC: the newest is 1
  PostedLater,    \* movements that may be posted in the course of a behaviour
  Filters,        \* values of ruleStatus that requests ask for, AnyStatus for none
  PageLimit,      \* the limit of a request
  ScanBatchSize,  \* SCAN_BATCH_SIZE, the movements of a batch when there is a filter
  MaxScanBatches, \* MAX_SCAN_BATCHES, the batches of a request
  WalkCost        \* bound: the calls that the first page of a walk counts for

AnyStatus == "any"

ASSUME MovementsAssumption == IsFiniteSet(Movements)
\* An id is one movement's, so no two have the same place in the order.
ASSUME RankAssumption ==
  /\ Rank \in [Movements -> Nat \ {0}]
  /\ \A m, n \in Movements : Rank[m] = Rank[n] => m = n
ASSUME LimitsAssumption == {PageLimit, ScanBatchSize, MaxScanBatches} \subseteq Nat \ {0}
ASSUME WalkCostAssumption == WalkCost \in Nat \ {0}
ASSUME PostedLaterAssumption == PostedLater \subseteq Movements

VARIABLES
  posted,  \* the movements that are there
  walk,    \* each client's walk through the inbox: the filter, the position its
           \* cursor holds, what it was shown, and what it had to be shown
  page     \* each open request: the rules it read, the position it has come to,
           \* the batches it has read and the items it has collected

inbox == <<posted, walk, page>>
allVars == <<vars, inbox>>

Start == 0   \* the position before every movement
NoPage == [rules |-> {}, at |-> Start, batches |-> 0, items |-> {}]
NoWalk == [filter |-> AnyStatus, at |-> Start, shown |-> {}, steady |-> {}]

-----------------------------------------------------------------------------
(* The read model *)

\* The movements that wait when these are posted and those sets are stored.
Pending(there, stored) ==
  {m \in there \cap Eligible : \A s \in stored : s.movement # m}

\* list_rules, of which the active ones are evaluated.
ListedRules == Open(rules)

\* evaluate_pending_candidates
RuleStatus(m, active) ==
  LET winners == Winners(m, active)
  IN IF winners = {} THEN "NO_MATCH"
     ELSE IF Cardinality(winners) = 1 THEN "MATCHED" ELSE "AMBIGUOUS"

Fitting(S, filter, active) ==
  {m \in S : filter = AnyStatus \/ RuleStatus(m, active) = filter}

Rest(at) == {m \in Pending(posted, sets) : Rank[m] > at}

\* The n first movements of S.
FirstOf(S, n) == {m \in S : Cardinality({o \in S : Rank[o] < Rank[m]}) < n}

\* The position of the last movement of S.
LastOf(S) == Max({Rank[m] : m \in S})

-----------------------------------------------------------------------------
(* A request *)

BatchSize(filter) == IF filter = AnyStatus THEN PageLimit ELSE ScanBatchSize

\* A client asks for the first page, or goes on where its cursor points, maybe
\* with another filter.
AskPage(c) ==
  /\ pc[c] = "idle"
  /\ \E filter \in Filters :
     \E at \in {Start, walk[c].at} :
       /\ calls' = calls + IF at = Start THEN WalkCost ELSE 1
       /\ calls' <= MaxCalls
       /\ req' = [req EXCEPT ![c] = [op |-> "page", filter |-> filter, at |-> at, items |-> <<>>]]
       /\ walk' = [walk EXCEPT ![c] =
            IF at # Start THEN @
            ELSE [NoWalk EXCEPT !.filter = filter,
                    !.steady = Fitting(Pending(posted, sets), filter, Open(rules))]]
  /\ pc' = [pc EXCEPT ![c] = "rules"]
  /\ answer' = [answer EXCEPT ![c] = "none"]
  /\ UNCHANGED <<tables, work, locks, posted, page>>

\* The cursor carries a fingerprint of the filters.
CursorAccepted(c) == req[c].at = Start \/ req[c].filter = walk[c].filter

\* The request is refused for its cursor, or reads the rules.
ReadRules(c) ==
  /\ pc[c] = "rules"
  /\ UNCHANGED <<posted, walk>>
  /\ IF ~CursorAccepted(c)
     THEN Refuse(c, "invalid") /\ UNCHANGED page
     ELSE /\ page' = [page EXCEPT ![c] = [NoPage EXCEPT !.rules = ListedRules,
                                                       !.at = req[c].at]]
          /\ Read(c, "scan")

\* A page reaches the client, with a cursor when there is a position to go on
\* from; the walk of a client that has reached the end is over.
Deliver(c, items, at) ==
  /\ page' = [page EXCEPT ![c] = NoPage]
  /\ walk' = [walk EXCEPT ![c] =
       IF at = Start THEN NoWalk
       ELSE [walk[c] EXCEPT !.at = at, !.shown = @ \cup items]]
  /\ Refuse(c, IF at = Start THEN "last" ELSE "page")

\* Mutated: the cursor points behind the batch that was read.
ResumeAtBehindBatch(batch, items) == LastOf(batch)

\* The next request resumes behind the last item that was collected.
ResumeAt(batch, items) == LastOf(items)

Batch(c) == FirstOf(Rest(page[c].at), BatchSize(req[c].filter))

\* The items of the batch that fit, as many as there is room for.
Found(c) ==
  FirstOf(Fitting(Batch(c), req[c].filter, page[c].rules),
          PageLimit - Cardinality(page[c].items))

Items(c) == page[c].items \cup Found(c)

\* One batch: it fills the page, or it was the last, or it was the last of the
\* request's budget, or the scan goes on behind it.
Scan(c) ==
  /\ pc[c] = "scan"
  /\ UNCHANGED posted
  /\ IF Cardinality(Items(c)) = PageLimit
     THEN Deliver(c, Items(c), IF LastOf(Found(c)) < LastOf(Rest(page[c].at))
                               THEN ResumeAt(Batch(c), Found(c)) ELSE Start)
     ELSE IF Batch(c) = Rest(page[c].at) THEN Deliver(c, Items(c), Start)
     ELSE IF page[c].batches + 1 = MaxScanBatches
     THEN Deliver(c, Items(c), LastOf(Batch(c)))
     ELSE /\ page' = [page EXCEPT ![c].at = LastOf(Batch(c)), ![c].batches = @ + 1,
                                 ![c].items = Items(c)]
          /\ UNCHANGED <<vars, walk>>

\* The request is cut short; the client still has its cursor.
CutPage(c) ==
  /\ pc[c] \in {"rules", "scan"}
  /\ page' = [page EXCEPT ![c] = NoPage]
  /\ Refuse(c, "lost")
  /\ UNCHANGED <<posted, walk>>

-----------------------------------------------------------------------------
(* What changes meanwhile *)

\* What a walk has to show is what fits its filter all the while.
Watched ==
  [c \in Callers |->
     [walk[c] EXCEPT !.steady = Fitting(@ \cap Pending(posted', sets'),
                                        walk[c].filter, Open(rules'))]]

\* A step of Classification.
Classify ==
  /\ \/ \E c \in Callers :
          \/ Ask(c) \/ Statement(c)
          \/ req[c].op # "page" /\ Cut(c)
     \/ Done
  /\ UNCHANGED <<posted, page>>
  /\ walk' = Watched

\* A movement is posted, with whatever date.
Post(m) ==
  /\ m \notin posted
  /\ posted' = posted \cup {m}
  /\ UNCHANGED <<vars, page>>
  /\ walk' = Watched

-----------------------------------------------------------------------------
InboxInit ==
  /\ Init
  /\ posted = Movements \ PostedLater
  /\ walk = [c \in Callers |-> NoWalk]
  /\ page = [c \in Callers |-> NoPage]

InboxNext ==
  \/ Classify
  \/ \E c \in Callers : AskPage(c) \/ ReadRules(c) \/ Scan(c) \/ CutPage(c)
  \/ \E m \in PostedLater : Post(m)

InboxSpec == InboxInit /\ [][InboxNext]_allVars

-----------------------------------------------------------------------------
(* Properties *)

\* "A page never repeats or skips a Movement because of concurrent appends or
\* classifications" (list_pending_candidates): a walk that has
\* come to its end was shown everything that fitted its filter all the while,
\* and nothing twice, however short its pages were.
InboxMissesNothing ==
  [][\A c \in Callers :
       pc[c] = "scan" /\ answer'[c] \in {"page", "last"} =>
         /\ Items(c) \cap walk[c].shown = {}
         /\ answer'[c] = "last" => walk[c].steady \subseteq walk[c].shown \cup Items(c)]_allVars
=============================================================================
