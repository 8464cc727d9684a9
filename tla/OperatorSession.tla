-------------------------- MODULE OperatorSession ---------------------------
(***************************************************************************)
(* The installation's operator: the commands that create it and its        *)
(* primary residence (operator_cli.py, identity_store.py), the login with  *)
(* its count of failures and its temporary lock, and the bearer sessions   *)
(* that authorize every protected route (operator_auth.py, api/auth.py).   *)
(*                                                                         *)
(* A call reads the clock of the API when it begins (a logout again before *)
(* it revokes) and runs one or two transactions, a corrected residence     *)
(* three; each is one step, and what it read may be old when the next one  *)
(* runs.  The answer of a transaction may be lost, with its effect or      *)
(* without.                                                                *)
(***************************************************************************)
EXTENDS Naturals, Sequences, FiniteSets

CONSTANTS
  Callers,        \* threads of the API and processes of the command line
  LockThreshold,  \* failures that lock the operator, LOCK_THRESHOLD
  LockDuration,   \* how long, LOCK_DURATION
  SessionTtl,     \* the life of a session, SESSION_TTL
  MaxClock,       \* bound: the last date
  MaxCalls        \* bound: calls made

ASSUME TimesAssumption ==
  /\ LockThreshold \in Nat \ {0} /\ LockDuration \in Nat \ {0}
  /\ SessionTtl \in Nat \ {0} /\ MaxClock \in Nat /\ MaxCalls \in Nat

VARIABLES
  operator,   \* the row of identity.operators
  residence,  \* the operator's active primary residence, or None
  sessions,   \* identity.sessions
  clock,      \* what the API's clock shows
  pc,         \* the transaction each caller runs next
  req,        \* its call
  now,        \* the clock when the call began
  material,   \* the operator's row as the login read it
  answer,     \* what its last call returned
  told,       \* the residence that answer names
  calls,      \* calls made so far
  failed,     \* history: when the logins began that failed since the last
              \* session, in the order they were recorded
  over        \* history: the tokens that were over when the call began

tables == <<operator, residence, sessions>>
vars == <<tables, clock, pc, req, now, material, answer, told, calls, failed, over>>

None == 0   \* no operator, no residence, no lock, not revoked

NoOperator == [id |-> None, failed_attempts |-> 0, locked_until |-> None]
NewOperator == [NoOperator EXCEPT !.id = 1]

Call(op, right, token) == [op |-> op, right |-> right, token |-> token]
NoCall == Call("none", FALSE, None)

Tokens == { s.token : s \in sessions }

\* A date that has not come yet at the time t.
Ahead(date, t) == date > t

-----------------------------------------------------------------------------
(* Calls *)

\* A new database, or one whose operator is older than migration 0005 and has no
\* residence.
Init ==
  /\ operator \in {NoOperator, NewOperator}
  /\ residence = None
  /\ sessions = {}
  /\ clock = 0
  /\ pc = [c \in Callers |-> "idle"]
  /\ req = [c \in Callers |-> NoCall]
  /\ now = [c \in Callers |-> 0]
  /\ material = [c \in Callers |-> NoOperator]
  /\ answer = [c \in Callers |-> "none"]
  /\ told = [c \in Callers |-> None]
  /\ calls = 0
  /\ failed = <<>>
  /\ over = [c \in Callers |-> {}]

\* The commands start with their own transaction (operator_cli.py), a login
\* reads its operator, and the other routes resolve the session they are given.
First ==
  [op \in {"bootstrap", "ensure", "login", "request", "logout"} |->
     CASE op \in {"request", "logout"} -> "resolve"
       [] op = "login" -> "material"
       [] OTHER -> op]

\* A token that no session has stands for one that was never issued.
Ask(c) ==
  /\ pc[c] = "idle" /\ calls < MaxCalls
  /\ \E op \in DOMAIN First, right \in BOOLEAN, token \in Tokens \cup {None} :
       /\ op # "login" => ~right
       /\ op \notin {"request", "logout"} => token = None
       /\ req' = [req EXCEPT ![c] = Call(op, right, token)]
       /\ pc' = [pc EXCEPT ![c] = First[op]]
  /\ now' = [now EXCEPT ![c] = clock]
  /\ over' = [over EXCEPT ![c] =
       { s.token : s \in { s \in sessions : s.revoked_at # None \/ ~Ahead(s.expires_at, clock) } }]
  /\ answer' = [answer EXCEPT ![c] = "none"]
  /\ told' = [told EXCEPT ![c] = None]
  /\ calls' = calls + 1
  /\ UNCHANGED <<tables, clock, material, failed>>

Return(c, kind, home) ==
  /\ pc' = [pc EXCEPT ![c] = "idle"]
  /\ req' = [req EXCEPT ![c] = NoCall]
  /\ material' = [material EXCEPT ![c] = NoOperator]
  /\ answer' = [answer EXCEPT ![c] = kind]
  /\ told' = [told EXCEPT ![c] = home]
  /\ now' = [now EXCEPT ![c] = 0]
  /\ over' = [over EXCEPT ![c] = {}]
  /\ UNCHANGED <<clock, calls>>

Goto(c, label) ==
  /\ pc' = [pc EXCEPT ![c] = label]
  /\ UNCHANGED <<clock, req, now, answer, told, calls, over>>

\* The next transaction has a date of its own.
Again(c, label) ==
  /\ pc' = [pc EXCEPT ![c] = label]
  /\ now' = [now EXCEPT ![c] = clock]
  /\ UNCHANGED <<clock, req, answer, told, calls, over>>

-----------------------------------------------------------------------------
(* The command line *)

\* The singleton row of identity.installation is inserted first: of two
\* bootstraps the second waits for it and is refused.
BootstrapRows ==
  /\ operator' = NewOperator
  /\ residence' = calls
  /\ UNCHANGED <<sessions, failed>>

Bootstrap(c) ==
  /\ pc[c] = "bootstrap"
  /\ IF operator.id # None
     THEN Return(c, "conflict", None) /\ UNCHANGED <<tables, failed>>
     ELSE BootstrapRows /\ Return(c, "ok", residence')

\* ensure_primary_residence reads the operator and its residence.
Ensure(c) ==
  /\ pc[c] = "ensure"
  /\ UNCHANGED <<tables, failed>>
  /\ IF operator.id = None THEN Return(c, "conflict", None)
     ELSE IF residence # None THEN Return(c, "ok", residence)
     ELSE Goto(c, "insert") /\ UNCHANGED material

\* Mutated: a second primary membership of an operator is accepted.
PrimaryTakenNever == FALSE

\* uq_household_memberships_primary_operator: one active primary membership.
PrimaryTaken == residence # None

ResidenceRows ==
  /\ residence' = calls
  /\ UNCHANGED <<operator, sessions, failed>>

\* The insert of an operator that got its residence meanwhile is refused, and
\* the winner's residence is read in a new transaction.
Insert(c) ==
  /\ pc[c] = "insert"
  /\ IF PrimaryTaken
     THEN Goto(c, "reread") /\ UNCHANGED <<tables, material, failed>>
     ELSE ResidenceRows /\ Return(c, "ok", residence')

Reread(c) ==
  /\ pc[c] = "reread"
  /\ Return(c, IF residence # None THEN "ok" ELSE "conflict", residence)
  /\ UNCHANGED <<tables, failed>>

-----------------------------------------------------------------------------
(* The login *)

IsLocked(row, t) == Ahead(row.locked_until, t)

\* A locked operator is refused without counting, whatever the password.
Refused(c) == operator.id = None \/ IsLocked(operator, now[c])

\* The password is verified against the row that was read.
Material(c) ==
  /\ pc[c] = "material"
  /\ UNCHANGED <<tables, failed>>
  /\ IF Refused(c)
     THEN Return(c, "unauthorized", None)
     ELSE /\ material' = [material EXCEPT ![c] = operator]
          /\ Goto(c, IF req[c].right THEN "create" ELSE "fail")

\* Mutated: the failure is counted on the row that the login read.
CountedOnMaterial(c) ==
  LET n == material[c].failed_attempts + 1 IN
  [operator EXCEPT !.failed_attempts = n,
     !.locked_until = IF n >= LockThreshold THEN now[c] + LockDuration ELSE @]

\* One UPDATE counts the failure and, from the threshold on, sets the lock from
\* the clock of this login.
Counted(c) ==
  LET n == operator.failed_attempts + 1 IN
  [operator EXCEPT !.failed_attempts = n,
     !.locked_until = IF n >= LockThreshold THEN now[c] + LockDuration ELSE @]

FailRows(c) ==
  /\ operator' = Counted(c)
  /\ failed' = Append(failed, now[c])
  /\ UNCHANGED <<residence, sessions>>

Fail(c) ==
  /\ pc[c] = "fail"
  /\ FailRows(c)
  /\ Return(c, "unauthorized", None)

\* The session of a login; the failures and the lock are cleared, also those
\* that were recorded since the login read its material.
SessionRows(c) ==
  /\ operator' = [operator EXCEPT !.failed_attempts = 0, !.locked_until = None]
  /\ sessions' = sessions \cup
       {[token |-> Cardinality(sessions) + 1, expires_at |-> now[c] + SessionTtl,
         revoked_at |-> None]}
  /\ failed' = <<>>
  /\ UNCHANGED residence

Create(c) ==
  /\ pc[c] = "create"
  /\ SessionRows(c)
  /\ Return(c, "ok", residence)

-----------------------------------------------------------------------------
(* Protected routes *)

\* Mutated: resolve_session compares the token and the expiration only.
ResolvedUnlessExpired(token, t) ==
  { s \in sessions : s.token = token /\ Ahead(s.expires_at, t) }

\* The session a token stands for at the time t, if it is neither revoked nor
\* expired.
Resolved(token, t) ==
  { s \in sessions : s.token = token /\ s.revoked_at = None /\ Ahead(s.expires_at, t) }

\* require_operator_session, then for a financial or banking route the primary
\* residence; the handler runs after this transaction has ended.
Resolve(c) ==
  /\ pc[c] = "resolve"
  /\ UNCHANGED <<tables, failed>>
  /\ IF Resolved(req[c].token, now[c]) = {} THEN Return(c, "unauthorized", None)
     ELSE IF req[c].op = "logout" THEN Again(c, "revoke") /\ UNCHANGED material
     ELSE IF residence = None THEN Return(c, "conflict", None)
     ELSE Return(c, "ok", residence)

\* A session that is already revoked keeps its date and is no error.  The date
\* 0 is written as the first one, so that None stays free.
RevokedRows(c) ==
  /\ sessions' = { IF s.token = req[c].token /\ s.revoked_at = None
                     THEN [s EXCEPT !.revoked_at = now[c] + 1] ELSE s : s \in sessions }
  /\ UNCHANGED <<operator, residence, failed>>

Revoke(c) ==
  /\ pc[c] = "revoke"
  /\ RevokedRows(c)
  /\ Return(c, "ok", None)

-----------------------------------------------------------------------------
(* Failures and time *)

\* The database breaks off: the caller is told "unavailable" whether or not the
\* transaction committed.
Unavailable(c) ==
  /\ pc[c] # "idle"
  /\ Return(c, "unavailable", None)
  /\ \/ UNCHANGED <<tables, failed>>
     \/ pc[c] = "bootstrap" /\ operator.id = None /\ BootstrapRows
     \/ pc[c] = "insert" /\ ~PrimaryTaken /\ ResidenceRows
     \/ pc[c] = "fail" /\ FailRows(c)
     \/ pc[c] = "create" /\ SessionRows(c)
     \/ pc[c] = "revoke" /\ RevokedRows(c)

Tick ==
  /\ clock < MaxClock
  /\ clock' = clock + 1
  /\ UNCHANGED <<tables, pc, req, now, material, answer, told, calls, failed, over>>

\* The bounds are reached.
Done ==
  /\ calls = MaxCalls /\ \A c \in Callers : pc[c] = "idle"
  /\ UNCHANGED vars

Step(c) ==
  \/ Ask(c) \/ Bootstrap(c) \/ Ensure(c) \/ Insert(c) \/ Reread(c)
  \/ Material(c) \/ Fail(c) \/ Create(c) \/ Resolve(c) \/ Revoke(c) \/ Unavailable(c)

Next == (\E c \in Callers : Step(c)) \/ Tick \/ Done

Spec == Init /\ [][Next]_vars

-----------------------------------------------------------------------------
(* Properties *)

\* However many bootstraps and corrections of the residence race, and whichever
\* of them lost their answer, everyone who is answered is told the one
\* residence that is stored (OPERATOR_AUTHENTICATION.md).
EveryoneSharesTheResidence ==
  \A c \in Callers : told[c] # None => told[c] = residence

\* No failure that was recorded since the last session is lost to a login that
\* ran at the same time: the lock is there from the threshold on, and never
\* before.  It ends one duration after the beginning of the login whose failure
\* was recorded last.  That is less than the fifteen minutes after the latest
\* failure of OPERATOR_AUTHENTICATION.md:64: a slow login that began before the
\* others moves the lock back (identity_store.py:226).
LockFollowsFailures ==
  /\ operator.failed_attempts = Len(failed)
  /\ operator.locked_until = IF Len(failed) >= LockThreshold
                               THEN failed[Len(failed)] + LockDuration ELSE None

\* A session that was revoked or had expired when a call began authorizes it no
\* more, whether the logout that ended it was answered or not.
EndedSessionsStayOut ==
  [][\A c \in Callers :
       pc[c] = "resolve" /\ (pc'[c] = "revoke" \/ answer'[c] \in {"ok", "conflict"})
         => req[c].token \notin over[c]]_vars
=============================================================================
