---------------------------- MODULE FinancialApi ----------------------------
(***************************************************************************)
(* The HTTP API over the ledger (routes/finance.py, financial_core.py):    *)
(* what a payload becomes before a store is called, the status its client  *)
(* is given, and the reads.  A read is a chain of store calls, each one a  *)
(* transaction of its own: the balance and the statement of an account are *)
(* derived from three of them (financial_balance_query.py).                *)
(*                                                                         *)
(* The authenticated operator and its residence are given; payloads of the *)
(* wrong shape and ids that are no uuid4 are left out, as is the rendering *)
(* of rows.                                                                *)
(***************************************************************************)
EXTENDS Ledger

Sums == INSTANCE FiniteSetsExt

CONSTANTS
  Payloads,  \* the bodies of POST requests, before their target is chosen
  Queries    \* GET requests, before their target is chosen

ASSUME PayloadsAssumption ==
  \A p \in Payloads : IsRequest(p, Ops \cup {"income", "expense"})

VARIABLE shown  \* the rows that the read of each caller has collected

apiVars == <<vars, shown>>

-----------------------------------------------------------------------------
(* Payloads *)

\* A payload that makes a draft: magnitudes are positive, a transfer has two
\* accounts; an opening balance may be zero or less.
WellFormed(p) ==
  /\ p.op \in {"income", "expense", "transfer"} => p.amount > 0
  /\ p.op = "transfer" => p.from # p.to

\* An income and an expense are movements of opposite signs.
Draft(p) ==
  CASE p.op = "income" -> [p EXCEPT !.op = "create"]
    [] p.op = "expense" -> [p EXCEPT !.op = "create", !.amount = -p.amount]
    [] OTHER -> p

Post(c) ==
  \E p \in Payloads :
    /\ WellFormed(p)
    /\ \E t \in Targets(p.op) :
         LET r == [Draft(p) EXCEPT !.target = t]
         IN Names(r) /\ Begin(c, r)
    /\ shown' = [shown EXCEPT ![c] = <<>>]

\* A payload that makes no draft is refused before any store is called.
PostMalformed(c) ==
  /\ pc[c] = "idle" /\ calls < MaxCalls
  /\ \E p \in Payloads :
       /\ ~WellFormed(p)
       /\ req' = [req EXCEPT ![c] = p]
  /\ answer' = [answer EXCEPT ![c] = "invalid"]
  /\ calls' = calls + 1
  /\ shown' = [shown EXCEPT ![c] = <<>>]
  /\ UNCHANGED <<tables, pc, work, lock>>

-----------------------------------------------------------------------------
(* Reads *)

ReadOps == {"accounts", "opening", "movements", "movement", "transfers", "statement"}

ASSUME QueriesAssumption == \A q \in Queries : IsRequest(q, ReadOps)

\* Mutated: a statement reads the movements before the opening balance.
SectionsMovementsFirst(op) ==
  CASE op = "accounts"  -> <<"accounts">>
    [] op = "opening"   -> <<"account", "openings">>
    [] op = "movements" -> <<"account", "movements">>
    [] op = "movement"  -> <<"movement">>
    [] op = "transfers" -> <<"transfers">>
    [] op = "statement" -> <<"account", "movements", "openings">>

\* The store calls that a read makes, in their order.  get_balance and
\* get_statement make the same ones.
Sections(op) ==
  CASE op = "accounts"  -> <<"accounts">>
    [] op = "opening"   -> <<"account", "openings">>
    [] op = "movements" -> <<"account", "movements">>
    [] op = "movement"  -> <<"movement">>
    [] op = "transfers" -> <<"transfers">>
    [] op = "statement" -> <<"account", "openings", "movements">>

\* The committed rows of account a that each store call reads.
AccountRow(a) == accounts \cap {a}
OpeningRow(a) == {o \in openings : o.account = a}
AccountMovements(a) == {m \in movements : m.account = a}
MovementRow(id) == {m \in movements : m.id = id}

\* A transfer is listed when both of its legs are there to be joined.
AccountTransfers(a) ==
  {t \in transfers :
     /\ {t.legs[1], t.legs[2]} \subseteq Ids(movements)
     /\ \E m \in movements : m.account = a /\ m.id \in {t.legs[1], t.legs[2]}}

SectionRows(c, section) ==
  CASE section = "accounts"  -> accounts
    [] section = "account"   -> AccountRow(req[c].from)
    [] section = "openings"  -> OpeningRow(req[c].from)
    [] section = "movements" -> AccountMovements(req[c].from)
    [] section = "movement"  -> MovementRow(req[c].target)
    [] section = "transfers" -> AccountTransfers(req[c].from)

\* One account or movement that is not there ends the read.
Missing(section, rows) == section \in {"account", "movement"} /\ rows = {}

Get(c) ==
  /\ pc[c] = "idle" /\ calls < MaxCalls
  /\ \E q \in Queries :
       \E t \in IF q.op = "movement" THEN Targets("reverse") ELSE {None} :
         req' = [req EXCEPT ![c] = [q EXCEPT !.target = t]]
  /\ pc' = [pc EXCEPT ![c] = "read"]
  /\ answer' = [answer EXCEPT ![c] = "none"]
  /\ calls' = calls + 1
  /\ shown' = [shown EXCEPT ![c] = <<>>]
  /\ UNCHANGED <<tables, work, lock>>

\* The next store call of a read.
Read(c) ==
  LET section == Sections(req[c].op)[Len(shown[c]) + 1]
      rows == SectionRows(c, section)
      last == Len(shown[c]) + 1 = Len(Sections(req[c].op))
  IN /\ pc[c] = "read"
     /\ IF Missing(section, rows)
        THEN Refuse(c, "not_found") /\ UNCHANGED shown
        ELSE /\ shown' = [shown EXCEPT ![c] = Append(shown[c], rows)]
             /\ IF last
                THEN Refuse(c, "ok")
                ELSE Goto(c, "read") /\ UNCHANGED <<work, lock>>

Amounts(rows) == Sums!MapThenSumSet(LAMBDA row : row.amount, rows)

\* The balance after the last entry of a statement.
Closing(opening, entries) == Amounts(opening) + Amounts(entries)

-----------------------------------------------------------------------------
(* Statuses *)

\* The HTTP status of an answer.  Every error that is not named is a 503, the
\* loss of the database connection among them.
Status(op, kind) ==
  CASE kind = "ok" -> IF op \in ReadOps THEN 200 ELSE 201
    [] kind \in {"conflict", "already", "exists"} -> 409
    [] kind = "not_found" -> 404
    [] kind \in {"before_opening", "invalid"} -> 422
    [] kind \in {"error", "lost"} -> 503

ApiInit == Init /\ shown = [c \in Callers |-> <<>>]

ApiNext ==
  \/ \E c \in Callers :
       \/ Post(c) \/ PostMalformed(c) \/ Get(c) \/ Read(c)
       \/ (Statement(c) \/ Cut(c)) /\ UNCHANGED shown
  \/ Done /\ UNCHANGED shown

ApiSpec == ApiInit /\ [][ApiNext]_apiVars
-----------------------------------------------------------------------------
(* Properties *)

\* What answers the operation of c: its row under its key, the opening balance
\* or the account it asked for.
IsStored(c) ==
  LET r == req[c]
  IN CASE r.op = "account" -> r.from \in accounts
       [] r.op = "open" ->
            [account |-> r.from, amount |-> r.amount, date |-> r.date] \in openings
       [] OTHER -> \E row \in RowsWithKey(c) : row.digest = Digest(r)

\* Something in the ledger for ever bars the operation of c: its key names
\* another request, its target was reversed, its account has an opening balance.
IsBarred(c) ==
  LET r == req[c]
  IN \/ r.op # "open" /\ \E row \in RowsWithKey(c) : row.digest # Digest(r)
     \/ r.op = "reverse" /\ Reversals(movements, r.target) # {} /\ ~IsStored(c)
     \/ r.op = "untransfer" /\ Reversals(transfers, r.target) # {}
     \/ r.op = "open" /\ \E o \in openings : o.account = r.from

AnswerIsTrue(c) ==
  LET r == req[c]
      status == Status(r.op, answer[c])
  IN /\ status = 201 => IsStored(c)
     /\ status = 409 => IsBarred(c)
     /\ status = 404 /\ r.op = "reverse" => ~HasStandard(movements, r.target)
     /\ status = 404 /\ r.op = "untransfer" => ~HasStandard(transfers, r.target)
     /\ status = 422 /\ r.op \in Ops /\ WellFormed(r) => \E o \in openings : o.date > r.date

\* What the status tells the client of a POST is what the ledger holds: a 201
\* that the effect of exactly this request is stored, a 409 that something
\* bars it for ever, a 404 that what it reverses cannot be, a 422 that an
\* opening balance comes after it.
AnswersAreTrue ==
  \A c \in Callers : answer[c] # "none" /\ req[c].op \notin ReadOps => AnswerIsTrue(c)

Told(c) == pc[c] = "read" /\ pc'[c] = "idle" /\ answer'[c] = "ok"

\* What the store call of a section gave to a read of a statement.
Part(rows, section) ==
  rows[CHOOSE i \in DOMAIN rows : Sections("statement")[i] = section]

\* FINANCIAL_BALANCE_STATEMENT: a balance is the opening balance plus every
\* movement.  A client is told the balance the account has when its read ends,
\* but for an opening balance stored while the read was under way, and it is
\* shown no reversal without what it reverses and no entry that is not in the
\* ledger: the movements must be read last.
StatementsAreTrue ==
  [][\A c \in Callers : Told(c) /\ req[c].op = "statement" =>
       LET a == req[c].from
           opening == Part(shown'[c], "openings")
           entries == Part(shown'[c], "movements")
           unseen == {o \in openings : o.account = a} \ opening
       IN /\ Closing(opening, entries) + Amounts(unseen)
               = Amounts({row \in openings \cup movements : row.account = a})
          /\ entries \subseteq movements
          /\ \A m \in entries : m.reverses # None => m.reverses \in Ids(entries)
    ]_apiVars
=============================================================================
