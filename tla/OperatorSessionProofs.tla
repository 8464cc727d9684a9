----------------------- MODULE OperatorSessionProofs ------------------------
(***************************************************************************)
(* The safety properties of OperatorSession, for any number of callers,    *)
(* calls and dates.  Three things make them inductive: only an installed   *)
(* operator has a residence, a failure or a call past its first            *)
(* transaction (Installed); the answer of a call is given when it ends     *)
(* (Open); and a token names one session for ever (Numbered), so that one  *)
(* that was over when a call began is over when the call looks (Over).     *)
(***************************************************************************)
EXTENDS OperatorSession, FiniteSetTheorems, FunctionTheorems, TLAPS

Labels == {"idle", "bootstrap", "ensure", "insert", "reread", "material", "fail",
           "create", "resolve", "revoke"}

Session == [token : Nat, expires_at : Nat, revoked_at : Nat]

Types ==
  /\ operator \in [id : Nat, failed_attempts : Nat, locked_until : Nat]
  /\ residence \in Nat /\ clock \in Nat /\ calls \in Nat
  /\ sessions \subseteq Session
  /\ pc \in [Callers -> Labels]
  /\ now \in [Callers -> Nat]
  /\ told \in [Callers -> Nat]
  /\ DOMAIN req = Callers /\ DOMAIN material = Callers
  /\ DOMAIN answer = Callers /\ DOMAIN over = Callers
  /\ failed \in Seq(Nat)

Installed ==
  operator.id = None =>
    /\ residence = None
    /\ failed = <<>>
    /\ \A c \in Callers : pc[c] \notin {"insert", "fail", "create"}

Open == \A c \in Callers : pc[c] # "idle" => answer[c] = "none"

Numbered ==
  /\ IsFiniteSet(sessions)
  /\ \A s \in sessions : s.token \in 1..Cardinality(sessions)
  /\ \A s, t \in sessions : s.token = t.token => s = t

\* A token that was over when the call began is not resolved by it.
Over ==
  \A c \in Callers : pc[c] = "resolve" =>
    /\ over[c] \subseteq Tokens
    /\ \A s \in sessions : s.token \in over[c] =>
         s.revoked_at # None \/ ~Ahead(s.expires_at, now[c])

IInv ==
  /\ Types
  /\ Installed
  /\ Open
  /\ Numbered
  /\ Over
  /\ EveryoneSharesTheResidence
  /\ LockFollowsFailures

-----------------------------------------------------------------------------
(* A call moves *)

LEMMA Returned ==
  ASSUME Types, NEW c \in Callers, NEW kind, NEW home \in Nat, Return(c, kind, home)
  PROVE  /\ pc'[c] = "idle" /\ told'[c] = home
         /\ \A d \in Callers \ {c} :
              /\ pc'[d] = pc[d] /\ answer'[d] = answer[d] /\ told'[d] = told[d]
              /\ now'[d] = now[d] /\ over'[d] = over[d]
         /\ pc' \in [Callers -> Labels]
         /\ now' \in [Callers -> Nat] /\ told' \in [Callers -> Nat]
         /\ DOMAIN req' = Callers /\ DOMAIN material' = Callers
         /\ DOMAIN answer' = Callers /\ DOMAIN over' = Callers
         /\ UNCHANGED <<clock, calls>>
  BY DEF Types, Return, Labels, None

LEMMA WentOn ==
  ASSUME Types, NEW c \in Callers, NEW label \in Labels, Goto(c, label) \/ Again(c, label)
  PROVE  /\ pc'[c] = label
         /\ \A d \in Callers \ {c} : pc'[d] = pc[d] /\ now'[d] = now[d]
         /\ pc' \in [Callers -> Labels] /\ now' \in [Callers -> Nat]
         /\ UNCHANGED <<clock, calls, req, answer, told, over>>
  BY DEF Types, Goto, Again

-----------------------------------------------------------------------------
(* The rows *)

\* The token of a new session is that of none before it.
LEMMA SessionIsNew ==
  ASSUME IInv, NEW c \in Callers, SessionRows(c)
  PROVE  /\ Numbered'
         /\ sessions' \subseteq Session
         /\ Tokens \subseteq Tokens'
         /\ \A s \in sessions' \ sessions : s.token \notin Tokens
<1> DEFINE n == Cardinality(sessions) + 1
           new == [token |-> n, expires_at |-> now[c] + SessionTtl, revoked_at |-> None]
<1>1. /\ sessions' = sessions \cup {new} /\ new.token = n
      /\ Cardinality(sessions) \in Nat
      /\ IsFiniteSet(sessions)
      /\ \A s \in sessions : s.token \in 1..Cardinality(sessions)
      /\ \A s, t \in sessions : s.token = t.token => s = t
  BY FS_CardinalityType DEF SessionRows, IInv, Numbered
<1>2. new \in Session
  BY <1>1, TimesAssumption DEF IInv, Types, Session, None
<1> HIDE DEF n, new
<1>3. n = Cardinality(sessions) + 1 /\ \A s \in sessions : s.token # n
  BY <1>1 DEF n
<1>4. IsFiniteSet(sessions') /\ Cardinality(sessions') = Cardinality(sessions) + 1
  BY <1>1, <1>3, FS_AddElement
<1>5. Numbered'
  BY <1>1, <1>3, <1>4 DEF Numbered
<1>6. sessions' \subseteq Session
  BY <1>1, <1>2 DEF IInv, Types
<1>7. Tokens \subseteq Tokens' /\ \A s \in sessions' \ sessions : s.token \notin Tokens
  BY <1>1, <1>3 DEF Tokens
<1> QED
  BY <1>5, <1>6, <1>7

\* A logout replaces a session by itself with a date.
LEMMA RevocationKeepsNumbers ==
  ASSUME IInv, NEW c \in Callers, RevokedRows(c)
  PROVE  /\ Numbered'
         /\ sessions' \subseteq Session
         /\ Tokens' = Tokens
         /\ \A s \in sessions' : \E t \in sessions :
              /\ s.token = t.token /\ s.expires_at = t.expires_at
              /\ t.revoked_at # None => s.revoked_at # None
<1> DEFINE Ended(s) == IF s.token = req[c].token /\ s.revoked_at = None
                         THEN [s EXCEPT !.revoked_at = now[c] + 1] ELSE s
           f == [s \in sessions |-> Ended(s)]
<1>1. /\ sessions \subseteq Session /\ now[c] \in Nat
      /\ IsFiniteSet(sessions)
      /\ \A s \in sessions : s.token \in 1..Cardinality(sessions)
      /\ \A s, t \in sessions : s.token = t.token => s = t
      /\ sessions' = {Ended(s) : s \in sessions}
  BY DEF IInv, Types, Numbered, RevokedRows
<1>2. ASSUME NEW s \in sessions
      PROVE  /\ Ended(s) \in Session
             /\ Ended(s).token = s.token /\ Ended(s).expires_at = s.expires_at
             /\ s.revoked_at # None => Ended(s).revoked_at # None
  BY <1>1 DEF Session, None
<1> HIDE DEF Ended
<1>3. f \in Bijection(sessions, sessions')
  <2>1. f \in [sessions -> sessions']
    BY <1>1
  <2>2. \A s, t \in sessions : f[s] = f[t] => s = t
    BY <1>1, <1>2
  <2>3. \A u \in sessions' : \E s \in sessions : f[s] = u
    BY <1>1
  <2> QED
    BY <2>1, <2>2, <2>3, Fun_IsBij
<1>4. IsFiniteSet(sessions') /\ Cardinality(sessions') = Cardinality(sessions)
  BY <1>1, <1>3, FS_Bijection DEF ExistsBijection
<1>5. \A s, t \in sessions' : s.token = t.token => s = t
  BY <1>1, <1>2
<1>6. Numbered'
  BY <1>1, <1>2, <1>4, <1>5 DEF Numbered
<1>7. sessions' \subseteq Session
  BY <1>1, <1>2
<1>8. Tokens' = Tokens
  BY <1>1, <1>2 DEF Tokens
<1>9. \A s \in sessions' : \E t \in sessions :
        /\ s.token = t.token /\ s.expires_at = t.expires_at
        /\ t.revoked_at # None => s.revoked_at # None
  BY <1>1, <1>2
<1> QED
  BY <1>6, <1>7, <1>8, <1>9

-----------------------------------------------------------------------------
(* The steps *)

\* A call that ends, with the rows that its transaction may have written.
EndRows(c) ==
  \/ UNCHANGED <<tables, failed>>
  \/ operator.id = None /\ BootstrapRows
  \/ pc[c] = "insert" /\ ~PrimaryTaken /\ ResidenceRows
  \/ pc[c] = "fail" /\ FailRows(c)
  \/ pc[c] = "create" /\ SessionRows(c)
  \/ pc[c] = "revoke" /\ RevokedRows(c)

\* The rows keep their types, and what is counted is what failed.
LEMMA EndRowsKeep ==
  ASSUME IInv, NEW c \in Callers, EndRows(c)
  PROVE  /\ operator' \in [id : Nat, failed_attempts : Nat, locked_until : Nat]
         /\ residence' \in Nat
         /\ failed' \in Seq(Nat)
         /\ sessions' \subseteq Session
         /\ operator'.id = None => operator.id = None /\ residence' = None /\ failed' = <<>>
         /\ residence # None => residence' = residence
         /\ LockFollowsFailures'
         /\ Numbered'
         /\ Tokens \subseteq Tokens'
         /\ \A s \in sessions' : s.token \in Tokens => \E t \in sessions :
              /\ s.token = t.token /\ s.expires_at = t.expires_at
              /\ t.revoked_at # None => s.revoked_at # None
<1>0. /\ Types /\ Installed /\ Numbered /\ LockFollowsFailures
      /\ now[c] \in Nat
  BY DEF IInv, Types
<1>1. CASE UNCHANGED <<tables, failed>>
  BY <1>0, <1>1 DEF tables, Types, Installed, LockFollowsFailures, Numbered, Tokens
<1>2. CASE operator.id = None /\ BootstrapRows
  BY <1>0, <1>2, TimesAssumption
  DEF BootstrapRows, NewOperator, NoOperator, None, Types, Installed,
      LockFollowsFailures, Numbered, Tokens
<1>3. CASE pc[c] = "insert" /\ ~PrimaryTaken /\ ResidenceRows
  BY <1>0, <1>3
  DEF ResidenceRows, PrimaryTaken, Types, Installed, LockFollowsFailures, Numbered, Tokens
<1>4. CASE pc[c] = "fail" /\ FailRows(c)
  <2>1. /\ operator'.id = operator.id
        /\ operator'.failed_attempts = operator.failed_attempts + 1
        /\ operator'.locked_until = IF operator.failed_attempts + 1 >= LockThreshold
                                      THEN now[c] + LockDuration ELSE operator.locked_until
        /\ operator' \in [id : Nat, failed_attempts : Nat, locked_until : Nat]
    <3>1. /\ operator \in [id : Nat, failed_attempts : Nat, locked_until : Nat]
          /\ operator' = Counted(c)
      BY <1>0, <1>4 DEF FailRows, Types
    <3>2. /\ operator.failed_attempts + 1 \in Nat /\ now[c] + LockDuration \in Nat
          /\ operator.locked_until \in Nat
      BY <1>0, <3>1, TimesAssumption
    <3> DEFINE n == operator.failed_attempts + 1
               until == IF n >= LockThreshold THEN now[c] + LockDuration
                                              ELSE operator.locked_until
    <3>3. operator' = [operator EXCEPT !.failed_attempts = n, !.locked_until = until]
      BY <3>1 DEF Counted
    <3>4. n \in Nat /\ until \in Nat
      BY <3>2
    <3>5. /\ operator'.id = operator.id
          /\ operator'.failed_attempts = n
          /\ operator'.locked_until = until
          /\ operator' \in [id : Nat, failed_attempts : Nat, locked_until : Nat]
      <4> HIDE DEF n, until
      <4> QED
        BY <3>1, <3>3, <3>4
    <3> QED
      BY <3>5
  <2>2. /\ failed' \in Seq(Nat) /\ Len(failed') = Len(failed) + 1
        /\ failed'[Len(failed')] = now[c]
    BY <1>0, <1>4 DEF FailRows, Types
  <2>3. operator.id # None
    BY <1>0, <1>4 DEF Installed
  <2>4. LockFollowsFailures'
    <3> DEFINE m == Len(failed')
               latest == failed'[m]
    <3>1. /\ operator.failed_attempts = Len(failed) /\ Len(failed) \in Nat
          /\ ~(Len(failed) >= LockThreshold) => operator.locked_until = None
      BY <1>0 DEF LockFollowsFailures, Types
    <3>2. operator'.failed_attempts = m
      BY <2>1, <2>2, <3>1
    <3>3. operator'.locked_until = IF m >= LockThreshold THEN latest + LockDuration ELSE None
      <4>1. m = Len(failed) + 1 /\ latest = now[c]
        BY <2>2
      <4> HIDE DEF m, latest
      <4> QED
        BY <2>1, <3>1, <4>1, TimesAssumption
    <3> QED
      BY <3>2, <3>3 DEF LockFollowsFailures
  <2> QED
    BY <1>0, <1>4, <2>1, <2>2, <2>3, <2>4 DEF FailRows, Types, Numbered, Tokens
<1>5. CASE pc[c] = "create" /\ SessionRows(c)
  <2>1. /\ operator'.id = operator.id
        /\ operator'.failed_attempts = 0 /\ operator'.locked_until = None
        /\ operator' \in [id : Nat, failed_attempts : Nat, locked_until : Nat]
        /\ failed' = <<>> /\ residence' = residence
    BY <1>0, <1>5 DEF SessionRows, Types, None
  <2>2. operator.id # None
    BY <1>0, <1>5 DEF Installed
  <2>3. LockFollowsFailures'
    BY <2>1, TimesAssumption DEF LockFollowsFailures
  <2> QED
    BY <1>0, <1>5, <2>1, <2>2, <2>3, SessionIsNew DEF Types
<1>6. CASE pc[c] = "revoke" /\ RevokedRows(c)
  <2>1. UNCHANGED <<operator, residence, failed>>
    BY <1>6 DEF RevokedRows
  <2> QED
    BY <1>0, <1>6, <2>1, RevocationKeepsNumbers DEF Types, Installed, LockFollowsFailures
<1> QED
  BY <1>1, <1>2, <1>3, <1>4, <1>5, <1>6 DEF EndRows

\* A call that ends is told nothing, or the residence that is stored then.
LEMMA EndKeeps ==
  ASSUME IInv, NEW c \in Callers, NEW kind, NEW home \in {None, residence'},
         Return(c, kind, home), EndRows(c)
  PROVE  IInv'
<1>0. Types /\ home \in Nat
  BY EndRowsKeep DEF IInv, None
<1>1. /\ pc'[c] = "idle" /\ told'[c] = home
      /\ \A d \in Callers \ {c} :
           /\ pc'[d] = pc[d] /\ answer'[d] = answer[d] /\ told'[d] = told[d]
           /\ now'[d] = now[d] /\ over'[d] = over[d]
  BY <1>0, Returned
<1>2. Types'
  BY <1>0, Returned, EndRowsKeep DEF Types
<1>3. Installed'
  BY <1>1, EndRowsKeep DEF IInv, Installed
<1>4. Open'
  BY <1>1 DEF IInv, Open
<1>5. Over'
  <2> SUFFICES ASSUME NEW d \in Callers, pc'[d] = "resolve"
               PROVE  /\ over'[d] \subseteq Tokens'
                      /\ \A s \in sessions' : s.token \in over'[d] =>
                           s.revoked_at # None \/ ~Ahead(s.expires_at, now'[d])
    BY DEF Over, Ahead
  <2>1. /\ d # c /\ over'[d] = over[d] /\ now'[d] = now[d]
        /\ over[d] \subseteq Tokens
        /\ \A t \in sessions : t.token \in over[d] =>
             t.revoked_at # None \/ ~Ahead(t.expires_at, now[d])
    BY <1>1 DEF IInv, Over
  <2> QED
    BY <2>1, EndRowsKeep
<1>6. EveryoneSharesTheResidence'
  BY <1>1, EndRowsKeep DEF IInv, EveryoneSharesTheResidence
<1> QED
  BY <1>2, <1>3, <1>4, <1>5, <1>6, EndRowsKeep DEF IInv

\* A call that goes on to a later transaction; one that may write needs an operator.
LEMMA GoesOnKeeps ==
  ASSUME IInv, NEW c \in Callers, NEW label \in Labels \ {"idle", "resolve"},
         pc[c] # "idle",
         Goto(c, label) \/ Again(c, label), UNCHANGED <<tables, failed>>,
         DOMAIN material' = DOMAIN material,
         label \in {"insert", "fail", "create"} => operator.id # None
  PROVE  IInv'
<1>0. Types
  BY DEF IInv
<1>1. /\ pc'[c] = label
      /\ \A d \in Callers \ {c} : pc'[d] = pc[d] /\ now'[d] = now[d]
      /\ pc' \in [Callers -> Labels] /\ now' \in [Callers -> Nat]
      /\ UNCHANGED <<clock, calls, req, answer, told, over>>
  BY <1>0, WentOn
<1>2. Types'
  BY <1>0, <1>1 DEF Types, tables
<1>3. Installed' /\ Open' /\ EveryoneSharesTheResidence'
  BY <1>1 DEF IInv, Installed, Open, EveryoneSharesTheResidence, tables
<1>4. Over'
  BY <1>1 DEF IInv, Over, tables, Tokens
<1>5. Numbered' /\ LockFollowsFailures'
  BY DEF IInv, Numbered, LockFollowsFailures, tables
<1> QED
  BY <1>2, <1>3, <1>4, <1>5 DEF IInv

LEMMA AskKeeps ==
  ASSUME IInv, NEW c \in Callers, Ask(c)
  PROVE  IInv'
<1>0. Types /\ UNCHANGED <<tables, clock, material, failed>>
  BY DEF IInv, Ask
<1>1. PICK label \in {"bootstrap", "ensure", "material", "resolve"} : pc'[c] = label
  BY <1>0 DEF Ask, Types, First
<1>2. /\ answer'[c] = "none" /\ told'[c] = None /\ now'[c] = clock
      /\ over'[c] = { s.token : s \in { s \in sessions :
                        s.revoked_at # None \/ ~Ahead(s.expires_at, clock) } }
      /\ \A d \in Callers \ {c} :
           /\ pc'[d] = pc[d] /\ answer'[d] = answer[d] /\ told'[d] = told[d]
           /\ now'[d] = now[d] /\ over'[d] = over[d]
  BY <1>0 DEF Ask, Types
<1>3. Types'
  BY <1>0, <1>1 DEF Ask, Types, tables, Labels, None
<1>4. Installed' /\ Open' /\ EveryoneSharesTheResidence'
  BY <1>0, <1>1, <1>2 DEF IInv, Installed, Open, EveryoneSharesTheResidence, tables
<1>5. Numbered' /\ LockFollowsFailures'
  BY <1>0 DEF IInv, Numbered, LockFollowsFailures, tables
<1>6. Over'
  <2> SUFFICES ASSUME NEW d \in Callers, pc'[d] = "resolve"
               PROVE  /\ over'[d] \subseteq Tokens
                      /\ \A s \in sessions : s.token \in over'[d] =>
                           s.revoked_at # None \/ ~Ahead(s.expires_at, now'[d])
    BY <1>0 DEF Over, Ahead, tables, Tokens
  <2>1. CASE d = c
    BY <1>2, <2>1 DEF IInv, Numbered, Tokens
  <2>2. CASE d # c
    BY <1>2, <2>2 DEF IInv, Over
  <2> QED
    BY <2>1, <2>2
<1> QED
  BY <1>3, <1>4, <1>5, <1>6 DEF IInv

LEMMA CommandsKeep ==
  ASSUME IInv, NEW c \in Callers, Bootstrap(c) \/ Ensure(c) \/ Insert(c) \/ Reread(c)
  PROVE  IInv'
<1>1. CASE Bootstrap(c)
  <2>1. EndRows(c)
    BY <1>1 DEF Bootstrap, EndRows
  <2> QED
    BY <1>1, <2>1, EndKeeps DEF Bootstrap
<1>2. CASE Ensure(c)
  <2>1. /\ EndRows(c) /\ residence' = residence
        /\ pc[c] = "ensure" /\ "insert" \in Labels
    BY <1>2 DEF Ensure, EndRows, tables, Labels
  <2>2. CASE Return(c, "conflict", None) \/ Return(c, "ok", residence)
    BY <2>1, <2>2, EndKeeps
  <2>3. CASE operator.id # None /\ Goto(c, "insert") /\ UNCHANGED material
    BY <1>2, <2>1, <2>3, GoesOnKeeps DEF Ensure
  <2> QED
    BY <1>2, <2>2, <2>3 DEF Ensure
<1>3. CASE Insert(c)
  <2>1. CASE PrimaryTaken
    BY <1>3, <2>1, GoesOnKeeps DEF Insert, Labels
  <2>2. CASE ~PrimaryTaken
    <3>1. EndRows(c)
      BY <1>3, <2>2 DEF Insert, EndRows
    <3> QED
      BY <1>3, <2>2, <3>1, EndKeeps DEF Insert
  <2> QED
    BY <2>1, <2>2
<1>4. CASE Reread(c)
  <2>1. EndRows(c) /\ residence' = residence
    BY <1>4 DEF Reread, EndRows, tables
  <2> QED
    BY <1>4, <2>1, EndKeeps DEF Reread
<1> QED
  BY <1>1, <1>2, <1>3, <1>4

LEMMA LoginKeeps ==
  ASSUME IInv, NEW c \in Callers, Material(c) \/ Fail(c) \/ Create(c)
  PROVE  IInv'
<1>1. CASE Material(c)
  <2>1. EndRows(c) /\ pc[c] = "material" /\ UNCHANGED <<tables, failed>>
    BY <1>1 DEF Material, EndRows
  <2>2. CASE Refused(c)
    BY <1>1, <2>1, <2>2, EndKeeps DEF Material
  <2>3. CASE ~Refused(c)
    <3>1. PICK label \in {"create", "fail"} : Goto(c, label)
      BY <1>1, <2>3 DEF Material
    <3>2. operator.id # None /\ DOMAIN material' = DOMAIN material
      BY <1>1, <2>3 DEF Material, Refused
    <3> QED
      BY <2>1, <3>1, <3>2, GoesOnKeeps DEF Labels
  <2> QED
    BY <2>2, <2>3
<1>2. CASE Fail(c)
  <2>1. EndRows(c)
    BY <1>2 DEF Fail, EndRows
  <2> QED
    BY <1>2, <2>1, EndKeeps DEF Fail
<1>3. CASE Create(c)
  <2>1. EndRows(c) /\ residence' = residence
    BY <1>3 DEF Create, EndRows, SessionRows
  <2> QED
    BY <1>3, <2>1, EndKeeps DEF Create
<1> QED
  BY <1>1, <1>2, <1>3

LEMMA RoutesKeep ==
  ASSUME IInv, NEW c \in Callers, Resolve(c) \/ Revoke(c) \/ Unavailable(c)
  PROVE  IInv'
<1>1. CASE Resolve(c)
  <2>1. /\ EndRows(c) /\ residence' = residence
        /\ UNCHANGED <<tables, failed>> /\ pc[c] = "resolve"
    BY <1>1 DEF Resolve, EndRows, tables
  <2>2. CASE Again(c, "revoke") /\ UNCHANGED material
    BY <2>1, <2>2, GoesOnKeeps DEF Labels
  <2>3. CASE \/ Return(c, "unauthorized", None) \/ Return(c, "conflict", None)
             \/ Return(c, "ok", residence)
    BY <2>1, <2>3, EndKeeps
  <2> QED
    BY <1>1, <2>2, <2>3 DEF Resolve
<1>2. CASE Revoke(c)
  <2>1. EndRows(c)
    BY <1>2 DEF Revoke, EndRows
  <2> QED
    BY <1>2, <2>1, EndKeeps DEF Revoke
<1>3. CASE Unavailable(c)
  <2>1. EndRows(c)
    BY <1>3 DEF Unavailable, EndRows
  <2> QED
    BY <1>3, <2>1, EndKeeps DEF Unavailable
<1> QED
  BY <1>1, <1>2, <1>3

LEMMA TickKeeps == IInv /\ Tick => IInv'
  BY DEF IInv, Tick, Types, tables, Installed, Open, Numbered, Over, Tokens, Ahead,
         EveryoneSharesTheResidence, LockFollowsFailures

LEMMA InitInv == Init => IInv
<1> SUFFICES ASSUME Init PROVE IInv
  OBVIOUS
<1>1. Types
  BY DEF Init, Types, NewOperator, NoOperator, None, Labels
<1>2. Numbered
  BY FS_EmptySet DEF Init, Numbered
<1>3. LockFollowsFailures
  BY TimesAssumption DEF Init, LockFollowsFailures, NewOperator, NoOperator, None
<1>4. Installed /\ Open /\ Over /\ EveryoneSharesTheResidence
  BY DEF Init, Installed, Open, Over, EveryoneSharesTheResidence, None
<1> QED
  BY <1>1, <1>2, <1>3, <1>4 DEF IInv

\* IInv is inductive.
LEMMA NextKeeps == IInv /\ [Next]_vars => IInv'
<1> SUFFICES ASSUME IInv, [Next]_vars PROVE IInv'
  OBVIOUS
<1>1. CASE UNCHANGED vars
  BY <1>1 DEF vars, tables, IInv, Types, Installed, Open, Numbered, Over, Tokens, Ahead,
     EveryoneSharesTheResidence, LockFollowsFailures
<1>2. ASSUME NEW c \in Callers, Step(c)
      PROVE  IInv'
  BY <1>2, AskKeeps, CommandsKeep, LoginKeeps, RoutesKeep DEF Step
<1> QED
  BY <1>1, <1>2, TickKeeps DEF Next, Done

LEMMA Invariance == Spec => []IInv
  BY InitInv, NextKeeps, PTL DEF Spec

-----------------------------------------------------------------------------
(* Theorems *)

\* Bootstraps and corrections of the residence race, and every answer names the
\* one residence that is stored.
THEOREM EveryoneSharesTheResidenceHolds == Spec => []EveryoneSharesTheResidence
<1>1. IInv => EveryoneSharesTheResidence
  BY DEF IInv
<1> QED
  BY Invariance, <1>1, PTL

\* No failure since the last session is lost, whatever logins ran at the same
\* time: the operator is locked exactly from the threshold on, until one duration
\* after the beginning of the login whose failure was recorded last.
THEOREM LockFollowsFailuresHolds == Spec => []LockFollowsFailures
<1>1. IInv => LockFollowsFailures
  BY DEF IInv
<1> QED
  BY Invariance, <1>1, PTL

\* A token that was over when a call began does not authorize it.
StaysOut ==
  \A c \in Callers :
    pc[c] = "resolve" /\ (pc'[c] = "revoke" \/ answer'[c] \in {"ok", "conflict"})
      => req[c].token \notin over[c]

LEMMA StaysOutStep == IInv /\ [Next]_vars => StaysOut
<1> SUFFICES ASSUME IInv, [Next]_vars, NEW c \in Callers, pc[c] = "resolve",
                    pc'[c] = "revoke" \/ answer'[c] \in {"ok", "conflict"}
             PROVE  req[c].token \notin over[c]
  BY DEF StaysOut
<1>0. Types /\ answer[c] = "none"
  BY DEF IInv, Open
<1>1. CASE UNCHANGED vars
  BY <1>0, <1>1 DEF vars
<1>2. CASE Tick
  BY <1>0, <1>2 DEF Tick
<1>3. ASSUME NEW d \in Callers, d # c, Step(d)
      PROVE  pc'[c] = pc[c] /\ answer'[c] = answer[c]
  BY <1>0, <1>3
  DEF Step, Ask, Bootstrap, Ensure, Insert, Reread, Material, Fail, Create, Resolve,
      Revoke, Unavailable, Return, Goto, Again, Types
<1>4. CASE Step(c)
  <2>1. Resolve(c) \/ Unavailable(c)
    BY <1>4 DEF Step, Ask, Bootstrap, Ensure, Insert, Reread, Material, Fail, Create, Revoke
  <2>2. CASE Unavailable(c)
    BY <1>0, <2>2 DEF Unavailable, Return, Types
  <2>3. CASE Resolve(c)
    <3>1. Resolved(req[c].token, now[c]) # {}
      BY <1>0, <2>3 DEF Resolve, Return, Types
    <3> QED
      BY <3>1 DEF Resolved, IInv, Over
  <2> QED
    BY <2>1, <2>2, <2>3
<1> QED
  BY <1>0, <1>1, <1>2, <1>3, <1>4 DEF Next, Done

\* A session that a logout revoked, or that expired, before a call began does not
\* authorize the call.
THEOREM EndedSessionsStayOutHolds == Spec => EndedSessionsStayOut
<1>1. IInv /\ [Next]_vars =>
        [\A c \in Callers :
           pc[c] = "resolve" /\ (pc'[c] = "revoke" \/ answer'[c] \in {"ok", "conflict"})
             => req[c].token \notin over[c]]_vars
  BY StaysOutStep DEF StaysOut
<1> QED
  BY Invariance, <1>1, PTL DEF Spec, EndedSessionsStayOut
=============================================================================
