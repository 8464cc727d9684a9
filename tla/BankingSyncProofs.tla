------------------------- MODULE BankingSyncProofs --------------------------
(***************************************************************************)
(* The safety properties of BankingSync, for any number of callers, keys,  *)
(* accounts and pages.  None of them is inductive by itself: what a run    *)
(* reports follows from what its executor has counted and the row has      *)
(* stored at every place of the execution (Sound), that a key has one      *)
(* executor follows from the row of an execution never being requested     *)
(* again, and that a disconnection is clean from the provider having let   *)
(* the item go before the finalization (LetGo).                            *)
(***************************************************************************)
EXTENDS BankingSync, FiniteSetTheorems, TLAPS

Places == {"idle"} \cup Registering \cup Syncing \cup Disconnecting

\* Where a disconnection that passed its readiness check talks to the provider.
Talking == {"ask", "revoke", "finalize"}

\* The conjuncts of TypeOK that are not about callers.
StoreTypes ==
  /\ connection \in {"none", "open", "finalized", "observed"}
  /\ item \in {"linked", "gone"}
  /\ run \in [Keys -> Run]
  /\ stored \in [Keys -> 0..PageLimit]
  /\ accounts \in [Accounts -> {"absent", "active", "disconnected"}]
  /\ capabilities \in {"none", "known"}
  /\ session \in Callers \cup {Nobody}
  /\ orphaned \subseteq Keys

\* A caller may be at place with the locals cl.
Fits(place, cl) ==
  /\ place \in Places
  /\ cl \in Call \cup Observation \cup {NoCall}
  /\ place \in Syncing => cl \in Call
  /\ place \in Registering => cl \in Observation

\* What the rows are when a caller is at place with the locals cl.
Sound(place, cl) ==
  /\ place = "mark" => cl.pages = 0
  /\ place = "apply" => cl.pages < PageLimit
  /\ place = "finish" /\ cl.plan = "failed" => cl.pages = 0
  /\ place \in Executing \ {"close"} =>
       run[cl.key].status = "running" /\ stored[cl.key] = cl.pages
  /\ place = "close" =>
       /\ run[cl.key].status \in {"running"} \cup Terminal
       /\ run[cl.key].status = "running" =>
            cl.pages <= stored[cl.key] /\ stored[cl.key] <= cl.pages + 1

CallersSound == \A c \in Callers : Sound(pc[c], call[c])

\* A run that was not marked has stored nothing, and is marked once.
RowsSound ==
  \A k \in Keys :
    /\ run[k].status \in {"absent", "requested"} => stored[k] = 0
    /\ run[k].attempts = IF run[k].status \in {"absent", "requested"} THEN 0 ELSE 1

OneRun == \A k, l \in ActiveRuns : k = l

OneExecutor ==
  \A c, d \in Callers :
    pc[c] \in Executing /\ pc[d] \in Executing /\ call[c].key = call[d].key => c = d

RunInv ==
  /\ CallersSound
  /\ RowsSound
  /\ OneRun
  /\ OneExecutor
  /\ ReportsWhatItStored
  /\ EveryPathCloses

\* A disconnection is finalized when the provider has let the item go.
LetGo == \A c \in Callers : pc[c] = "finalize" => item = "gone"

IInv == TypeOK /\ RunInv /\ DisconnectionIsClean /\ LetGo

-----------------------------------------------------------------------------
(* Steps of a caller *)

\* The caller goes to place with the locals cl.
MovesTo(c, place, cl) ==
  /\ pc' = [pc EXCEPT ![c] = place]
  /\ call' = [call EXCEPT ![c] = cl]

\* Who goes on to execute did so before, with the same key, and an execution is
\* left when its run is settled or noted as orphaned.
Follows(c, place, cl) ==
  /\ place \in Executing => pc[c] \in Executing /\ cl.key = call[c].key
  /\ pc[c] \in Executing /\ place \notin Executing =>
       run[call[c].key].status # "running" \/ call[c].key \in orphaned'

LEMMA SetsOfPlaces ==
  /\ Executing \subseteq Syncing /\ Syncing \subseteq Places
  /\ Registering \subseteq Places /\ Disconnecting \subseteq Places
  /\ Executing \cap (Registering \cup Disconnecting \cup {"idle", "mark"}) = {}
  BY DEF Executing, Syncing, Places, Registering, Disconnecting

\* Where a caller is and what it carries, and who else stays as it was.
LEMMA Moved ==
  ASSUME TypeOK, NEW c \in Callers, NEW place, NEW cl, MovesTo(c, place, cl)
  PROVE  /\ pc'[c] = place /\ call'[c] = cl
         /\ \A d \in Callers \ {c} : pc'[d] = pc[d] /\ call'[d] = call[d]
  BY DEF TypeOK, MovesTo

\* A step that changes no run and no page, and moves one caller.
LEMMA MoveKeepsRuns ==
  ASSUME TypeOK, RunInv, NEW c \in Callers, NEW place, NEW cl,
         MovesTo(c, place, cl), Fits(place, cl), Sound(place, cl),
         Follows(c, place, cl),
         UNCHANGED <<run, stored>>, orphaned \subseteq orphaned'
  PROVE  RunInv'
<1>1. /\ pc'[c] = place /\ call'[c] = cl
      /\ \A d \in Callers \ {c} : pc'[d] = pc[d] /\ call'[d] = call[d]
  BY Moved
<1>2. CallersSound'
  BY <1>1 DEF RunInv, CallersSound, Sound
<1>3. RowsSound' /\ OneRun' /\ ReportsWhatItStored'
  BY DEF RunInv, RowsSound, OneRun, ActiveRuns, ReportsWhatItStored
<1>4. OneExecutor'
  BY <1>1 DEF RunInv, OneExecutor, Follows
<1>5. EveryPathCloses'
  BY <1>1 DEF RunInv, EveryPathCloses, Follows
<1> QED
  BY <1>2, <1>3, <1>4, <1>5 DEF RunInv

LEMMA MoveKeepsTypes ==
  ASSUME TypeOK, NEW c \in Callers, NEW place, NEW cl,
         MovesTo(c, place, cl), Fits(place, cl), StoreTypes'
  PROVE  TypeOK'
<1>1. /\ pc'[c] = place /\ call'[c] = cl
      /\ \A d \in Callers \ {c} : pc'[d] = pc[d] /\ call'[d] = call[d]
  BY Moved
<1>2. /\ pc' \in [Callers -> Places]
      /\ call' \in [Callers -> Call \cup Observation \cup {NoCall}]
  BY DEF TypeOK, MovesTo, Fits, Places
<1>3. \A d \in Callers :
        /\ pc'[d] \in Syncing => call'[d] \in Call
        /\ pc'[d] \in Registering => call'[d] \in Observation
  BY <1>1 DEF TypeOK, Fits
<1> QED
  BY <1>2, <1>3 DEF TypeOK, StoreTypes, Places

\* The disconnection's clauses: no run becomes active, and nobody but c takes
\* the lock or closes the connection.
LEMMA MoveKeepsDisconnection ==
  ASSUME TypeOK, DisconnectionIsClean, LetGo, NEW c \in Callers, NEW place, NEW cl,
         MovesTo(c, place, cl),
         ActiveRuns' \subseteq ActiveRuns,
         session' \in {session, Nobody, c},
         session' = c /\ place \in Talking => ActiveRuns = {},
         item' \in {item, "gone"},
         place = "finalize" => item' = "gone",
         connection' = "finalized" => connection = "finalized" /\ accounts' = accounts
  PROVE  DisconnectionIsClean' /\ LetGo'
<1>1. /\ pc'[c] = place
      /\ \A d \in Callers \ {c} : pc'[d] = pc[d]
  BY Moved
<1>2. ASSUME NEW d \in Callers, session' = d, pc'[d] \in Talking
      PROVE  ActiveRuns' = {}
  <2>1. CASE d = c
    BY <1>1, <1>2, <2>1
  <2>2. CASE d # c
    BY <1>1, <1>2, <2>2, CallersAssumption DEF DisconnectionIsClean, Talking
  <2> QED
    BY <2>1, <2>2
<1>3. connection' = "finalized" =>
        /\ item' = "gone"
        /\ ActiveRuns' = {}
        /\ \A a \in Accounts : accounts'[a] # "active"
  BY DEF DisconnectionIsClean
<1>4. LetGo'
  BY <1>1 DEF LetGo
<1> QED
  BY <1>2, <1>3, <1>4 DEF DisconnectionIsClean, Talking

\* A step of a caller that changes no run, no page and no connection that was
\* disconnected.
LEMMA QuietKeeps ==
  ASSUME IInv, NEW c \in Callers, NEW place, NEW cl,
         MovesTo(c, place, cl), Fits(place, cl), Sound(place, cl), Follows(c, place, cl),
         UNCHANGED <<run, stored>>, item' \in {item, "gone"},
         orphaned \subseteq orphaned', orphaned' \subseteq Keys,
         connection' \in {"none", "open", "finalized", "observed"},
         accounts' \in [Accounts -> {"absent", "active", "disconnected"}],
         capabilities' \in {"none", "known"},
         session' \in {session, Nobody, c},
         session' = c /\ place \in Talking => ActiveRuns = {},
         place = "finalize" => item' = "gone",
         connection' = "finalized" => connection = "finalized" /\ accounts' = accounts
  PROVE  IInv'
<1>1. TypeOK /\ RunInv /\ DisconnectionIsClean /\ LetGo
  BY DEF IInv
<1>2. StoreTypes'
  BY <1>1 DEF TypeOK, StoreTypes
<1>3. ActiveRuns' \subseteq ActiveRuns
  BY DEF ActiveRuns
<1> QED
  BY <1>1, <1>2, <1>3, MoveKeepsTypes, MoveKeepsRuns, MoveKeepsDisconnection DEF IInv

\* A caller whose request ends in a step that changes no run and no page.
LEMMA ReturnKeeps ==
  ASSUME IInv, NEW c \in Callers, Return(c), Follows(c, "idle", NoCall),
         UNCHANGED <<run, stored>>, item' \in {item, "gone"},
         orphaned \subseteq orphaned', orphaned' \subseteq Keys,
         connection' \in {"none", "open", "finalized", "observed"},
         accounts' \in [Accounts -> {"absent", "active", "disconnected"}],
         capabilities' \in {"none", "known"},
         connection' = "finalized" => connection = "finalized" /\ accounts' = accounts
  PROVE  IInv'
<1>1. MovesTo(c, "idle", NoCall)
  BY DEF Return, MovesTo
<1>2. Fits("idle", NoCall) /\ Sound("idle", NoCall)
  BY DEF Fits, Sound, Places, Syncing, Executing, Registering
<1>3. session' \in {session, Nobody, c}
  BY DEF Return
<1> QED
  BY <1>1, <1>2, <1>3, QuietKeeps DEF Talking

-----------------------------------------------------------------------------
(* The steps of a manual run *)

\* What the invariant says of one caller.
LEMMA Caller ==
  ASSUME IInv, NEW c \in Callers
  PROVE  /\ pc[c] \in Syncing =>
              /\ call[c] \in Call
              /\ call[c].key \in Keys /\ call[c].pages \in 0..PageLimit
         /\ Sound(pc[c], call[c])
         /\ call[c] \in Call \cup Observation \cup {NoCall}
         /\ pc[c] \in Places
         /\ \A place : Goto(c, place) /\ UNCHANGED call => MovesTo(c, place, call[c])
<1>1. TypeOK /\ CallersSound
  BY DEF IInv, RunInv
<1>2. pc[c] \in Syncing =>
        /\ call[c] \in Call
        /\ call[c].key \in Keys /\ call[c].pages \in 0..PageLimit
  BY <1>1 DEF TypeOK, Call
<1>3. \A place : Goto(c, place) /\ UNCHANGED call => MovesTo(c, place, call[c])
  BY <1>1 DEF TypeOK, Goto, MovesTo
<1> QED
  BY <1>1, <1>2, <1>3 DEF TypeOK, CallersSound, Places

\* The types of the rows, for steps that change some of them.
LEMMA Rows ==
  ASSUME IInv
  PROVE  StoreTypes
  BY DEF IInv, TypeOK, StoreTypes

\* A caller that goes on inside run keeps its key, its pages and its run.
LEMMA ExecutingGoesOn ==
  ASSUME IInv, NEW c \in Callers, NEW place, NEW cl,
         pc[c] \in Executing \ {"close"}, place \in Executing,
         MovesTo(c, place, cl), cl \in Call,
         cl.key = call[c].key, cl.pages = call[c].pages,
         place = "apply" => cl.pages < PageLimit,
         place = "finish" /\ cl.plan = "failed" => cl.pages = 0,
         UNCHANGED <<connection, item, run, stored, capabilities, session, orphaned>>,
         accounts' \in [Accounts -> {"absent", "active", "disconnected"}],
         connection = "finalized" => accounts' = accounts
  PROVE  IInv'
<1>1. StoreTypes
  BY Rows
<1>2. Sound(pc[c], call[c]) /\ call[c].pages \in 0..PageLimit
  BY Caller, SetsOfPlaces
<1>3. Fits(place, cl)
  BY SetsOfPlaces DEF Fits
<1>4. Sound(place, cl)
  BY <1>2 DEF Sound, Executing
<1>5. Follows(c, place, cl)
  BY DEF Follows
<1>6. place \notin Talking /\ place # "finalize"
  BY DEF Talking, Executing
<1> QED
  BY <1>1, <1>3, <1>4, <1>5, <1>6, QuietKeeps DEF StoreTypes

LEMMA ExecutingStepsKeep ==
  ASSUME IInv, NEW c \in Callers,
         ProviderAnswers(c) \/ ProviderFails(c) \/ LimitReached(c)
           \/ ReplaceAccounts(c) \/ PrepareCycle(c) \/ WriterRefused(c)
  PROVE  IInv'
<1>0. /\ pc[c] \in Syncing =>
           call[c] \in Call /\ call[c].pages \in 0..PageLimit /\ call[c].key \in Keys
      /\ \A place : Goto(c, place) /\ UNCHANGED call => MovesTo(c, place, call[c])
      /\ StoreTypes
  BY Caller, Rows
<1>1. CASE ProviderAnswers(c)
  <2>1. PICK place \in {"replace", "apply"} :
          Goto(c, place) /\ (place = "apply" => call[c].pages < PageLimit)
    BY <1>1 DEF ProviderAnswers
  <2> QED
    BY <1>0, <1>1, <2>1, ExecutingGoesOn, SetsOfPlaces
    DEF ProviderAnswers, Executing, StoreTypes
<1>2. CASE ProviderFails(c) \/ LimitReached(c)
  <2>1. PICK plan \in {"partial", "failed"} :
          /\ MovesTo(c, "finish", [key |-> call[c].key, pages |-> call[c].pages, plan |-> plan])
          /\ plan = "failed" => call[c].pages = 0
    BY <1>0, <1>2, SetsOfPlaces
    DEF ProviderFails, LimitReached, Goto, MovesTo, ErrorStatus, Executing
  <2>2. [key |-> call[c].key, pages |-> call[c].pages, plan |-> plan] \in Call
    BY <1>0, <1>2, SetsOfPlaces DEF ProviderFails, LimitReached, Executing, Call, Terminal
  <2> QED
    BY <1>0, <1>2, <2>1, <2>2, ExecutingGoesOn
    DEF ProviderFails, LimitReached, Executing, StoreTypes
<1>3. CASE ReplaceAccounts(c)
  <2>1. accounts' \in [Accounts -> {"absent", "active", "disconnected"}]
    BY <1>0, <1>3 DEF ReplaceAccounts, StoreTypes
  <2> QED
    BY <1>0, <1>3, <2>1, ExecutingGoesOn, SetsOfPlaces DEF ReplaceAccounts, Executing
<1>4. CASE PrepareCycle(c)
  <2>1. CASE Goto(c, "read") /\ UNCHANGED call
    BY <1>0, <1>4, <2>1, ExecutingGoesOn, SetsOfPlaces DEF PrepareCycle, Executing, StoreTypes
  <2>2. CASE MovesTo(c, "finish", [key |-> call[c].key, pages |-> call[c].pages,
                                   plan |-> "succeeded"])
    <3>1. [key |-> call[c].key, pages |-> call[c].pages, plan |-> "succeeded"] \in Call
      BY <1>0, <1>4, SetsOfPlaces DEF PrepareCycle, Executing, Call, Terminal
    <3> QED
      BY <1>0, <1>4, <2>2, <3>1, ExecutingGoesOn DEF PrepareCycle, Executing, StoreTypes
  <2> QED
    BY <1>4, <2>1, <2>2 DEF PrepareCycle, Goto, MovesTo
<1>5. CASE WriterRefused(c)
  <2>1. Fits("close", call[c]) /\ Sound("close", call[c]) /\ Follows(c, "close", call[c])
    BY <1>0, <1>5, Caller, SetsOfPlaces DEF WriterRefused, Fits, Sound, Follows, Executing
  <2> QED
    BY <1>0, <1>5, <2>1, QuietKeeps DEF WriterRefused, StoreTypes, Talking
<1> QED
  BY <1>1, <1>2, <1>3, <1>4, <1>5

\* A run is begun only if no other is active, and nobody executes it yet.
LEMMA BeginKeeps ==
  ASSUME IInv, NEW c \in Callers, NEW k \in Keys, Begin(c, k) \/ BeginUnanswered(c, k)
  PROVE  IInv'
<1> DEFINE first == [key |-> k, pages |-> 0, plan |-> "failed"]
<1>0. /\ TypeOK /\ RunInv /\ DisconnectionIsClean /\ LetGo /\ StoreTypes
      /\ first \in Call
  BY Rows, PageLimitAssumption DEF IInv, Call, Terminal
<1>1. PICK place \in {"mark", "idle"}, cl \in {first, call[c]} :
        /\ MovesTo(c, place, cl) /\ Fits(place, cl)
        /\ place = "mark" => cl = first
  <2>1. CASE Begin(c, k)
    <3>1. MovesTo(c, "mark", first) /\ Fits("mark", first)
      BY <1>0, <2>1, SetsOfPlaces DEF Begin, Goto, MovesTo, Fits, Syncing, Registering
    <3> QED
      BY <3>1
  <2>2. CASE BeginUnanswered(c, k)
    <3>1. MovesTo(c, "idle", call[c]) /\ Fits("idle", call[c])
      BY <1>0, <2>2, SetsOfPlaces
      DEF BeginUnanswered, MovesTo, TypeOK, Fits, Places, Syncing, Executing, Registering
    <3> QED
      BY <3>1
  <2> QED
    BY <2>1, <2>2
<1>2. CASE Begin(c, k) /\ run[k].status = "requested" /\ run' = run
  <2>1. MovesTo(c, "mark", first) /\ Fits("mark", first)
    BY <1>0, <1>2, SetsOfPlaces DEF Begin, Goto, MovesTo, Fits, Syncing, Registering
  <2>2. Sound("mark", first) /\ Follows(c, "mark", first)
    BY <1>2, SetsOfPlaces DEF Begin, Sound, Follows, Executing
  <2> QED
    BY <1>0, <1>2, <2>1, <2>2, QuietKeeps DEF Begin, StoreTypes, Talking
<1>3. CASE /\ run[k].status = "absent" /\ connection = "open" /\ ActiveRuns = {}
           /\ run' = [run EXCEPT ![k] = Requested]
  <2>1. /\ run'[k] = Requested
        /\ \A l \in Keys \ {k} : run'[l] = run[l]
        /\ stored[k] = 0
    BY <1>0, <1>3 DEF StoreTypes, RunInv, RowsSound
  <2>2. /\ pc'[c] = place /\ call'[c] = cl
        /\ \A d \in Callers \ {c} : pc'[d] = pc[d] /\ call'[d] = call[d]
    BY <1>0, <1>1, Moved
  <2>3. pc[c] = "idle" /\ UNCHANGED <<connection, item, stored, accounts, session, orphaned, capabilities>>
    BY DEF Begin, BeginUnanswered
  <2>4. \A d \in Callers : pc[d] \in Executing => call[d].key \in Keys \ {k}
    BY <1>0, <1>3, Caller, SetsOfPlaces DEF Sound, Executing, Terminal
  <2>5. Requested \in Run
    BY <1>0, PageLimitAssumption DEF Requested, Run, Active
  <2>6. TypeOK'
    BY <1>0, <1>1, <1>3, <2>3, <2>5, MoveKeepsTypes DEF StoreTypes
  <2>7. CallersSound'
    BY <1>0, <1>1, <2>1, <2>2, <2>3, <2>4 DEF RunInv, CallersSound, Sound, Executing
  <2>8. RowsSound'
    BY <1>0, <2>1, <2>3 DEF RunInv, RowsSound, Requested
  <2>9. OneRun'
    BY <1>3, <2>1 DEF OneRun, ActiveRuns
  <2>10. OneExecutor'
    BY <1>0, <1>1, <2>2, <2>3, SetsOfPlaces DEF RunInv, OneExecutor
  <2>11. ReportsWhatItStored'
    BY <1>0, <2>1, <2>3 DEF RunInv, ReportsWhatItStored, Requested, Terminal
  <2>12. EveryPathCloses'
    BY <1>0, <2>1, <2>2, <2>3, SetsOfPlaces DEF RunInv, EveryPathCloses, Requested
  <2>13. DisconnectionIsClean' /\ LetGo'
    BY <1>0, <1>1, <1>3, <2>2, <2>3, CallersAssumption
    DEF DisconnectionIsClean, LetGo, Begin, BeginUnanswered, GateFree
  <2> QED
    BY <2>6, <2>7, <2>8, <2>9, <2>10, <2>11, <2>12, <2>13 DEF IInv, RunInv
<1> QED
  BY <1>2, <1>3 DEF Begin, BeginUnanswered

\* The row that is marked was requested, so nobody executes its key.
LEMMA MarkKeeps ==
  ASSUME IInv, NEW c \in Callers, MarkRunning(c) \/ MarkUnanswered(c)
  PROVE  IInv'
<1> DEFINE k == call[c].key
<1>0. /\ TypeOK /\ RunInv /\ DisconnectionIsClean /\ LetGo /\ StoreTypes
      /\ pc[c] = "mark" /\ call[c] \in Call /\ k \in Keys /\ call[c].pages = 0
      /\ UNCHANGED <<connection, item, stored, accounts, capabilities>>
  BY Rows, Caller, SetsOfPlaces DEF IInv, MarkRunning, MarkUnanswered, Syncing, Sound
<1>1. /\ run[k].status = "requested"
      /\ run' = [run EXCEPT ![k] = Running(k)]
  BY DEF MarkRunning, MarkUnanswered
<1> HIDE DEF k
<1>2. /\ run'[k] = Running(k)
      /\ \A l \in Keys \ {k} : run'[l] = run[l]
      /\ stored[k] = 0 /\ run[k].attempts = 0
  BY <1>0, <1>1 DEF StoreTypes, RunInv, RowsSound
<1>3. Running(k) \in Run /\ Running(k).status = "running" /\ Running(k).attempts = 1
  BY <1>0, <1>2 DEF Running, Run, StoreTypes, Active
<1>4. \A d \in Callers : pc[d] \in Executing => call[d].key \in Keys \ {k}
  BY <1>0, <1>1, Caller, SetsOfPlaces DEF Sound, Executing, Terminal
<1>5. ActiveRuns' = ActiveRuns /\ k \in ActiveRuns
  BY <1>0, <1>1, <1>2, <1>3 DEF ActiveRuns, Active
<1>6. RowsSound' /\ OneRun' /\ ReportsWhatItStored'
  <2>1. RowsSound'
    BY <1>0, <1>2, <1>3 DEF RunInv, RowsSound
  <2>2. OneRun'
    BY <1>0, <1>5 DEF RunInv, OneRun
  <2>3. ReportsWhatItStored'
    BY <1>0, <1>2, <1>3 DEF RunInv, ReportsWhatItStored, Terminal
  <2> QED
    BY <2>1, <2>2, <2>3
<1>7. PICK place \in {"list", "idle"}, cl \in {call[c], NoCall} :
        /\ MovesTo(c, place, cl) /\ Fits(place, cl)
        /\ place = "list" => cl = call[c] /\ UNCHANGED <<session, orphaned>>
        /\ place = "idle" => cl = NoCall /\ orphaned' = orphaned \cup {k}
        /\ session' \in {session, Nobody, c} /\ orphaned' \in SUBSET Keys
        /\ orphaned \subseteq orphaned'
  <2>1. CASE MarkRunning(c)
    BY <1>0, <2>1, Caller, SetsOfPlaces
    DEF MarkRunning, Fits, StoreTypes, Executing
  <2>2. CASE MarkUnanswered(c)
    <3>1. MovesTo(c, "idle", NoCall) /\ Fits("idle", NoCall)
      BY <2>2, SetsOfPlaces DEF MarkUnanswered, Return, MovesTo, Fits, Places, Syncing, Executing, Registering
    <3> QED
      BY <1>0, <2>2, <3>1 DEF MarkUnanswered, Return, StoreTypes, k
  <2> QED
    BY <2>1, <2>2
<1>8. /\ pc'[c] = place /\ call'[c] = cl
      /\ \A d \in Callers \ {c} : pc'[d] = pc[d] /\ call'[d] = call[d]
  BY <1>0, <1>7, Moved
<1>9. TypeOK'
  <2>1. StoreTypes'
    BY <1>0, <1>1, <1>3, <1>7 DEF StoreTypes
  <2> QED
    BY <1>0, <1>7, <2>1, MoveKeepsTypes
<1>10. CallersSound'
  <2>1. Sound(place, cl)'
    BY <1>0, <1>2, <1>3, <1>7 DEF Sound, Executing, k
  <2>2. ASSUME NEW d \in Callers \ {c} PROVE Sound(pc[d], call[d])'
    BY <1>0, <1>2, <1>4, <1>8 DEF RunInv, CallersSound, Sound, Executing
  <2> QED
    BY <1>8, <2>1, <2>2 DEF CallersSound, Sound
<1>11. OneExecutor'
  BY <1>0, <1>4, <1>7, <1>8, SetsOfPlaces DEF RunInv, OneExecutor, k
<1>12. EveryPathCloses'
  <2>1. ASSUME NEW l \in Keys, run'[l].status = "running", l \notin orphaned'
        PROVE  \E d \in Callers : pc'[d] \in Executing /\ call'[d].key = l
    <3>1. CASE l = k
      BY <1>7, <1>8, <2>1, <3>1 DEF Executing, k
    <3>2. CASE l # k
      BY <1>0, <1>2, <1>7, <1>8, <2>1, <3>2, SetsOfPlaces DEF RunInv, EveryPathCloses
    <3> QED
      BY <3>1, <3>2
  <2> QED
    BY <2>1 DEF EveryPathCloses
<1>13. DisconnectionIsClean' /\ LetGo'
  BY <1>0, <1>5, <1>7, MoveKeepsDisconnection, CallersAssumption DEF DisconnectionIsClean, Talking
<1> QED
  BY <1>6, <1>9, <1>10, <1>11, <1>12, <1>13 DEF IInv, RunInv

\* A page that commits is counted by its caller, or leaves it to close.
LEMMA ApplyKeeps ==
  ASSUME IInv, NEW c \in Callers, ApplyPage(c) \/ ApplyUnanswered(c)
  PROVE  IInv'
<1> DEFINE k == call[c].key
           counted(plan) == [key |-> k, pages |-> call[c].pages + 1, plan |-> plan]
<1>0. /\ TypeOK /\ RunInv /\ DisconnectionIsClean /\ LetGo /\ StoreTypes
      /\ pc[c] = "apply" /\ call[c] \in Call /\ k \in Keys
      /\ call[c].pages \in 0..PageLimit /\ call[c].pages < PageLimit
      /\ run[k].status = "running" /\ stored[k] = call[c].pages
      /\ stored' = [stored EXCEPT ![k] = stored[k] + 1]
      /\ UNCHANGED <<connection, item, run, accounts, capabilities, session, orphaned>>
  BY Rows, Caller, SetsOfPlaces DEF IInv, ApplyPage, ApplyUnanswered, Syncing, Sound, Executing
<1>1. PICK place \in {"finish", "read", "close"}, cl \in Call :
        /\ MovesTo(c, place, cl) /\ cl.key = k
        /\ place = "close" => cl.pages = call[c].pages
        /\ place # "close" => cl.pages = call[c].pages + 1
        /\ place = "finish" => cl.plan = "succeeded"
  <2>1. CASE ApplyPage(c)
    <3>1. PICK last \in BOOLEAN :
            MovesTo(c, IF last THEN "finish" ELSE "read",
                    counted(IF last THEN "succeeded" ELSE call[c].plan))
      BY <2>1 DEF ApplyPage, MovesTo, Goto
    <3>2. counted("succeeded") \in Call /\ counted(call[c].plan) \in Call
      BY <1>0, PageLimitAssumption DEF Call, Terminal
    <3> QED
      BY <3>1, <3>2
  <2>2. CASE ApplyUnanswered(c)
    <3>1. MovesTo(c, "close", call[c])
      BY <1>0, <2>2, Caller DEF ApplyUnanswered
    <3> QED
      BY <1>0, <3>1
  <2> QED
    BY <2>1, <2>2
<1> HIDE DEF k, counted
<1>2. /\ pc'[c] = place /\ call'[c] = cl
      /\ \A d \in Callers \ {c} : pc'[d] = pc[d] /\ call'[d] = call[d]
  BY <1>0, <1>1, Moved
<1>3. /\ stored'[k] = call[c].pages + 1
      /\ \A l \in Keys \ {k} : stored'[l] = stored[l]
  BY <1>0 DEF StoreTypes
<1>4. \A d \in Callers \ {c} : pc[d] \in Executing => call[d].key \in Keys \ {k}
  BY <1>0, Caller, SetsOfPlaces DEF RunInv, OneExecutor, Executing, k
<1>5. TypeOK'
  <2>1. Fits(place, cl)
    BY <1>1, SetsOfPlaces DEF Fits, Executing
  <2>2. stored' \in [Keys -> 0..PageLimit]
    BY <1>0, PageLimitAssumption DEF StoreTypes
  <2> QED
    BY <1>0, <1>1, <2>1, <2>2, MoveKeepsTypes DEF StoreTypes
<1>6. CallersSound'
  <2>1. Sound(place, cl)'
    BY <1>0, <1>1, <1>3 DEF Sound, Executing, Call
  <2>2. ASSUME NEW d \in Callers \ {c} PROVE Sound(pc[d], call[d])'
    BY <1>0, <1>2, <1>3, <1>4 DEF RunInv, CallersSound, Sound, Executing
  <2> QED
    BY <1>2, <2>1, <2>2 DEF CallersSound, Sound
<1>7. RowsSound' /\ ReportsWhatItStored' /\ OneRun'
  BY <1>0, <1>3 DEF RunInv, RowsSound, ReportsWhatItStored, Terminal, OneRun, ActiveRuns
<1>8. OneExecutor' /\ EveryPathCloses'
  <2>1. place \in Executing /\ pc[c] \in Executing /\ cl.key = call[c].key
    BY <1>0, <1>1 DEF Executing, k
  <2> QED
    BY <1>0, <1>2, <2>1 DEF RunInv, OneExecutor, EveryPathCloses
<1>9. DisconnectionIsClean' /\ LetGo'
  <2>1. ActiveRuns' \subseteq ActiveRuns /\ place \notin Talking
    BY <1>0 DEF ActiveRuns, Talking
  <2> QED
    BY <1>0, <1>1, <2>1, MoveKeepsDisconnection
<1> QED
  BY <1>5, <1>6, <1>7, <1>8, <1>9 DEF IInv, RunInv

\* A run is settled by its executor, with what it counted.
LEMMA SettleKeeps ==
  ASSUME IInv, NEW c \in Callers, Finish(c) \/ FinishUnanswered(c) \/ Close(c)
  PROVE  IInv'
<1> DEFINE k == call[c].key
           settled(status) == [status |-> status, attempts |-> run[k].attempts,
                               seen |-> call[c].pages]
<1>0. /\ TypeOK /\ RunInv /\ DisconnectionIsClean /\ LetGo /\ StoreTypes
      /\ pc[c] \in {"finish", "close"} /\ pc[c] \in Executing
      /\ call[c] \in Call /\ k \in Keys
      /\ call[c].pages \in 0..PageLimit
      /\ run[k].status = "running"
      /\ UNCHANGED <<connection, item, stored, accounts, capabilities, orphaned>>
  BY Rows, Caller, SetsOfPlaces
  DEF IInv, Finish, FinishUnanswered, Close, Settles, Syncing, Executing
<1>1. PICK status \in Terminal :
        /\ run' = [run EXCEPT ![k] = settled(status)]
        /\ call[c].pages <= stored[k] /\ stored[k] <= call[c].pages + 1
        /\ status = "succeeded" => stored[k] = call[c].pages
        /\ status = "failed" => call[c].pages = 0
  <2>1. CASE pc[c] = "finish"
    <3>1. call[c].plan \in Terminal /\ run' = [run EXCEPT ![k] = settled(call[c].plan)]
      BY <1>0, <2>1 DEF Call, Finish, FinishUnanswered, Close, Settles
    <3>2. stored[k] = call[c].pages /\ (call[c].plan = "failed" => call[c].pages = 0)
      BY <1>0, <2>1 DEF RunInv, CallersSound, Sound, Executing
    <3>3. call[c].pages <= stored[k] /\ stored[k] <= call[c].pages + 1
      BY <1>0, <3>2, PageLimitAssumption
    <3> QED
      BY <3>1, <3>2, <3>3, Zenon
  <2>2. CASE pc[c] = "close"
    <3>1. run' = [run EXCEPT ![k] = settled(ErrorStatus(call[c].pages))]
      BY <2>2 DEF Finish, FinishUnanswered, Close, Settles
    <3>2. call[c].pages <= stored[k] /\ stored[k] <= call[c].pages + 1
      BY <1>0, <2>2 DEF RunInv, CallersSound, Sound
    <3>3. /\ ErrorStatus(call[c].pages) \in Terminal
          /\ ErrorStatus(call[c].pages) # "succeeded"
          /\ ErrorStatus(call[c].pages) = "failed" => call[c].pages = 0
      BY <1>0, PageLimitAssumption DEF ErrorStatus, Terminal
    <3> QED
      BY <3>1, <3>2, <3>3, Zenon
  <2> QED
    BY <1>0, <2>1, <2>2
<1>2. PICK place \in {"idle", "close"}, cl \in {call[c], NoCall} :
        /\ MovesTo(c, place, cl) /\ Fits(place, cl)
        /\ place = "close" => cl = call[c]
        /\ session' \in {session, Nobody}
  <2>1. CASE FinishUnanswered(c)
    <3>1. MovesTo(c, "close", call[c]) /\ Fits("close", call[c]) /\ session' = session
      BY <1>0, <2>1, Caller, SetsOfPlaces DEF FinishUnanswered, Fits, Executing
    <3> QED
      BY <3>1
  <2>2. CASE Return(c)
    <3>1. MovesTo(c, "idle", NoCall) /\ Fits("idle", NoCall) /\ session' \in {session, Nobody}
      BY <2>2, SetsOfPlaces DEF Return, MovesTo, Fits, Places, Syncing, Executing, Registering
    <3> QED
      BY <3>1
  <2> QED
    BY <2>1, <2>2 DEF Finish, Close
<1>3. /\ pc'[c] = place /\ call'[c] = cl
      /\ \A d \in Callers \ {c} : pc'[d] = pc[d] /\ call'[d] = call[d]
  BY <1>0, <1>2, Moved
<1>4. /\ run'[k].status = status /\ run'[k].attempts = run[k].attempts
      /\ run'[k].seen = call[c].pages
      /\ \A l \in Keys \ {k} : run'[l] = run[l]
      /\ run' \in [Keys -> Run]
  BY <1>0, <1>1 DEF StoreTypes, Run, Terminal
<1>5. \A d \in Callers \ {c} : pc[d] \in Executing => call[d].key \in Keys \ {k}
  BY <1>0, Caller, SetsOfPlaces DEF RunInv, OneExecutor
<1>6. place = "close" => cl.key = k
  BY <1>2
<1> HIDE DEF k, settled
<1>7. TypeOK'
  BY <1>0, <1>2, <1>4, MoveKeepsTypes DEF StoreTypes
<1>8. CallersSound'
  <2>1. Sound(place, cl)'
    BY <1>0, <1>2, <1>4, <1>6 DEF Sound, Executing, Terminal
  <2>2. ASSUME NEW d \in Callers \ {c} PROVE Sound(pc[d], call[d])'
    BY <1>0, <1>3, <1>4, <1>5 DEF RunInv, CallersSound, Sound, Executing
  <2> QED
    BY <1>3, <2>1, <2>2 DEF CallersSound, Sound
<1>9. RowsSound'
  BY <1>0, <1>4 DEF RunInv, RowsSound, Terminal
<1>10. ActiveRuns' \subseteq ActiveRuns
  BY <1>0, <1>4 DEF ActiveRuns, Active, Terminal
<1>11. OneRun'
  BY <1>0, <1>10 DEF RunInv, OneRun
<1>12. OneExecutor'
  BY <1>0, <1>3, <1>5, <1>6, SetsOfPlaces DEF RunInv, OneExecutor
<1>13. ReportsWhatItStored'
  BY <1>0, <1>1, <1>4 DEF RunInv, ReportsWhatItStored
<1>14. EveryPathCloses'
  <2>1. k \in Keys /\ \A l \in Keys : run'[l].status = "running" => l # k
    BY <1>0, <1>4 DEF Terminal
  <2>2. call[c].key = k
    BY DEF k
  <2> QED
    BY <1>0, <1>3, <1>4, <2>1, <2>2 DEF RunInv, EveryPathCloses
<1>15. DisconnectionIsClean' /\ LetGo'
  BY <1>0, <1>2, <1>10, MoveKeepsDisconnection DEF Talking
<1> QED
  BY <1>7, <1>8, <1>9, <1>11, <1>12, <1>13, <1>14, <1>15 DEF IInv, RunInv

\* Two ways for a run to end without finish_sync: another caller marked it, or
\* it was settled by the call whose answer was lost.
LEMMA RefusedRunsKeep ==
  ASSUME IInv, NEW c \in Callers, MarkRefused(c) \/ CloseRefused(c)
  PROVE  IInv'
<1>1. Follows(c, "idle", NoCall)
  BY SetsOfPlaces DEF MarkRefused, CloseRefused, Follows
<1> QED
  BY <1>1, Rows, ReturnKeeps DEF MarkRefused, CloseRefused, StoreTypes

-----------------------------------------------------------------------------
(* The steps of a disconnection *)

\* A step to a place outside run that leaves the rows as they are.
LEMMA OutsideGoesOn ==
  ASSUME IInv, NEW c \in Callers, NEW place \in Disconnecting,
         pc[c] \notin Executing, Goto(c, place), UNCHANGED call,
         place = "finalize" => item' = "gone", item' \in {item, "gone"},
         UNCHANGED <<connection, run, stored, accounts, capabilities, orphaned>>,
         session' \in {session, c},
         session' = c /\ place \in Talking => ActiveRuns = {}
  PROVE  IInv'
<1>1. StoreTypes
  BY Rows
<1>2. MovesTo(c, place, call[c]) /\ Fits(place, call[c])
  BY Caller, SetsOfPlaces DEF Fits, Syncing, Executing, Registering, Disconnecting
<1>3. Sound(place, call[c]) /\ Follows(c, place, call[c])
  BY SetsOfPlaces DEF Sound, Follows, Executing, Disconnecting
<1> QED
  BY <1>1, <1>2, <1>3, QuietKeeps DEF StoreTypes

\* A disconnection that has its session is at the head of a quiet connection.
LEMMA DisconnectionStepsKeep ==
  ASSUME IInv, NEW c \in Callers,
         AskDisconnect(c) \/ Lock(c) \/ Ready(c) \/ AskProvider(c) \/ Revoke(c)
           \/ ProviderRefuses(c) \/ DisconnectRefused(c)
  PROVE  IInv'
<1>0. StoreTypes /\ DisconnectionIsClean
  BY Rows DEF IInv
<1>1. pc[c] \notin Executing /\ Follows(c, "idle", NoCall)
  BY DEF AskDisconnect, Lock, Ready, AskProvider, Revoke, ProviderRefuses,
         DisconnectRefused, Executing, Follows
<1>2. CASE AskDisconnect(c) \/ Lock(c) \/ Ready(c)
  BY <1>0, <1>1, <1>2, OutsideGoesOn DEF AskDisconnect, Lock, Ready, Disconnecting, Talking
<1>3. CASE AskProvider(c)
  <2>1. session = c => ActiveRuns = {}
    BY <1>0, <1>3 DEF AskProvider, DisconnectionIsClean
  <2> QED
    BY <1>1, <1>3, <2>1, OutsideGoesOn DEF AskProvider, Disconnecting
<1>4. CASE Revoke(c)
  <2>1. session = c => ActiveRuns = {}
    BY <1>0, <1>4 DEF Revoke, DisconnectionIsClean
  <2>2. CASE Return(c)
    BY <1>0, <1>1, <1>4, <2>2, ReturnKeeps DEF Revoke, StoreTypes
  <2>3. CASE Goto(c, "finalize") /\ UNCHANGED <<session, call>>
    BY <1>0, <1>1, <1>4, <2>1, <2>3, OutsideGoesOn DEF Revoke, Disconnecting
  <2> QED
    BY <1>4, <2>2, <2>3 DEF Revoke
<1>5. CASE ProviderRefuses(c) \/ DisconnectRefused(c)
  BY <1>0, <1>1, <1>5, ReturnKeeps DEF ProviderRefuses, DisconnectRefused, StoreTypes
<1> QED
  BY <1>2, <1>3, <1>4, <1>5

\* The provider let the item go, no run is active, and the accounts are closed
\* with the connection.
LEMMA FinalizeKeeps ==
  ASSUME IInv, NEW c \in Callers, Finalize(c)
  PROVE  IInv'
<1>0. TypeOK /\ RunInv /\ StoreTypes /\ LetGo /\ item = "gone"
  BY Rows DEF IInv, Finalize, LetGo
<1>1. MovesTo(c, "idle", NoCall) /\ session' = Nobody /\ session' \in {session, Nobody, c}
  BY DEF Finalize, Return, MovesTo
<1>2. Fits("idle", NoCall) /\ Sound("idle", NoCall) /\ Follows(c, "idle", NoCall)
  BY SetsOfPlaces DEF Fits, Sound, Follows, Places, Syncing, Executing, Registering, Finalize
<1>3. StoreTypes'
  BY <1>0, <1>1 DEF Finalize, StoreTypes
<1>4. TypeOK' /\ RunInv'
  BY <1>0, <1>1, <1>2, <1>3, MoveKeepsTypes, MoveKeepsRuns DEF Finalize
<1>5. ActiveRuns' = {}
  BY DEF Finalize, ActiveRuns
<1>6. DisconnectionIsClean' /\ LetGo'
  BY <1>0, <1>1, <1>5, CallersAssumption DEF Finalize, DisconnectionIsClean, StoreTypes, LetGo
<1> QED
  BY <1>4, <1>6 DEF IInv

-----------------------------------------------------------------------------
(* Registrations and faults *)

\* A registration changes the status or the capabilities, never to finalized.
LEMMA RegistrationKeeps ==
  ASSUME IInv, NEW c \in Callers,
         Inspect(c) \/ Register(c) \/ RegisterUnanswered(c) \/ ReplaceCapabilities(c)
  PROVE  IInv'
<1>0. StoreTypes
  BY Rows
<1>1. pc[c] \notin Executing /\ Follows(c, "idle", NoCall)
  BY DEF Inspect, Register, RegisterUnanswered, RegisterRow, ReplaceCapabilities,
         Executing, Follows
<1>2. CASE Inspect(c)
  <2>1. MovesTo(c, "register", [saw |-> item]) /\ Fits("register", [saw |-> item])
    BY <1>0, <1>2, SetsOfPlaces
    DEF Inspect, Goto, MovesTo, Fits, Observation, StoreTypes, Registering, Syncing, Executing
  <2>2. Sound("register", [saw |-> item]) /\ Follows(c, "register", [saw |-> item])
    BY <1>1 DEF Sound, Follows, Executing
  <2> QED
    BY <1>0, <1>2, <2>1, <2>2, QuietKeeps DEF Inspect, StoreTypes, Talking
<1>3. CASE Register(c) \/ RegisterUnanswered(c)
  <2>1. /\ connection' \in {"none", "open", "finalized", "observed"}
        /\ connection' = "finalized" => connection = "finalized"
        /\ UNCHANGED <<item, run, stored, accounts, capabilities, orphaned>>
    BY <1>0, <1>3 DEF Register, RegisterUnanswered, RegisterRow, Observed, Disconnected, StoreTypes
  <2>2. CASE Return(c)
    BY <1>0, <1>1, <2>1, <2>2, ReturnKeeps DEF StoreTypes
  <2>3. CASE Goto(c, "capabilities") /\ UNCHANGED <<call, session>>
    <3>1. pc[c] = "register"
      BY <1>3 DEF Register, RegisterUnanswered, RegisterRow
    <3>2. MovesTo(c, "capabilities", call[c]) /\ Fits("capabilities", call[c])
      BY <2>3, <3>1, Caller, SetsOfPlaces
      DEF IInv, TypeOK, Fits, Registering, Syncing, Executing
    <3>3. Sound("capabilities", call[c]) /\ Follows(c, "capabilities", call[c])
      BY <1>1 DEF Sound, Follows, Executing
    <3> QED
      BY <1>0, <2>1, <2>3, <3>2, <3>3, QuietKeeps DEF StoreTypes, Talking
  <2> QED
    BY <1>3, <2>2, <2>3 DEF Register, RegisterUnanswered
<1>4. CASE ReplaceCapabilities(c)
  BY <1>0, <1>1, <1>4, ReturnKeeps DEF ReplaceCapabilities, StoreTypes
<1> QED
  BY <1>2, <1>3, <1>4

\* A caller that is cut off leaves its run orphaned if it was executing one.
LEMMA FaultsKeep ==
  ASSUME IInv, NEW c \in Callers, SessionCut(c) \/ Undone(c) \/ Crash(c)
  PROVE  IInv'
<1>0. StoreTypes /\ TypeOK /\ LetGo
  BY Rows DEF IInv
<1>1. CASE SessionCut(c)
  <2>1. MovesTo(c, pc[c], call[c])
    BY <1>0, <1>1 DEF SessionCut, MovesTo, TypeOK
  <2>2. Fits(pc[c], call[c]) /\ Sound(pc[c], call[c])
    BY <1>0, Caller DEF Fits, TypeOK
  <2>3. Follows(c, pc[c], call[c])
    BY DEF Follows
  <2>4. session' = Nobody /\ session' # c
    BY <1>1, CallersAssumption DEF SessionCut
  <2> QED
    BY <1>0, <1>1, <2>1, <2>2, <2>3, <2>4, QuietKeeps DEF SessionCut, StoreTypes, LetGo
<1>2. CASE Undone(c)
  <2>1. CASE pc[c] \in {"mark", "lock", "ready", "finalize"} \cup Registering
    <3>1. Return(c) /\ UNCHANGED orphaned /\ Follows(c, "idle", NoCall)
      BY <1>2, <2>1 DEF Undone, Registering, Executing, Follows
    <3> QED
      BY <1>0, <1>2, <3>1, ReturnKeeps DEF Undone, StoreTypes
  <2>2. CASE pc[c] \in Executing \ {"close"}
    <3>1. Goto(c, "close") /\ UNCHANGED <<session, call, orphaned>>
      BY <1>2, <2>2 DEF Undone, Registering, Executing
    <3>2. MovesTo(c, "close", call[c]) /\ Fits("close", call[c])
      BY <2>2, <3>1, Caller, SetsOfPlaces DEF Fits, Executing
    <3>3. Sound("close", call[c]) /\ Follows(c, "close", call[c])
      BY <2>2, Caller, SetsOfPlaces, PageLimitAssumption DEF Sound, Follows, Executing
    <3> QED
      BY <1>0, <1>2, <3>1, <3>2, <3>3, QuietKeeps DEF Undone, StoreTypes, Talking
  <2>3. CASE pc[c] = "close"
    <3>1. Return(c) /\ orphaned' = orphaned \cup ({call[c].key} \cap ActiveRuns)
      BY <1>2, <2>3 DEF Undone, Registering
    <3>2. call[c].key \in Keys
      BY <2>3, Caller, SetsOfPlaces DEF Executing
    <3>3. Follows(c, "idle", NoCall)
      BY <3>1, <3>2 DEF Follows, ActiveRuns, Active, Executing
    <3> QED
      BY <1>0, <1>2, <3>1, <3>2, <3>3, ReturnKeeps DEF Undone, StoreTypes
  <2> QED
    BY <1>2, <2>1, <2>2, <2>3 DEF Undone
<1>3. CASE Crash(c)
  <2>1. Follows(c, "idle", NoCall) /\ orphaned' \subseteq Keys
    BY <1>0, <1>3, Caller, SetsOfPlaces
    DEF Crash, Follows, ActiveRuns, Active, Executing, StoreTypes
  <2> QED
    BY <1>0, <1>3, <2>1, ReturnKeeps DEF Crash, StoreTypes
<1> QED
  BY <1>1, <1>2, <1>3

LEMMA ProviderDropsKeeps == IInv /\ ProviderDrops => IInv'
  BY DEF IInv, ProviderDrops, TypeOK, RunInv, CallersSound, Sound, RowsSound, OneRun,
         ActiveRuns, OneExecutor, ReportsWhatItStored, EveryPathCloses,
         DisconnectionIsClean, LetGo

-----------------------------------------------------------------------------
(* Theorems *)

LEMMA InitInv == Init => IInv
<1> SUFFICES ASSUME Init PROVE IInv
  OBVIOUS
<1>1. TypeOK
  BY PageLimitAssumption DEF Init, TypeOK, NoRun, Run, Active, Terminal, Registering,
     Syncing, Executing
<1>2. ActiveRuns = {}
  BY DEF Init, ActiveRuns, NoRun, Active
<1>3. RunInv
  BY <1>2 DEF Init, RunInv, CallersSound, Sound, Executing, RowsSound, OneRun, NoRun,
     OneExecutor, ReportsWhatItStored, Terminal, EveryPathCloses
<1>4. DisconnectionIsClean /\ LetGo
  BY DEF Init, DisconnectionIsClean, LetGo
<1> QED
  BY <1>1, <1>3, <1>4 DEF IInv

\* IInv is inductive.
LEMMA NextKeeps == IInv /\ [Next]_vars => IInv'
<1> SUFFICES ASSUME IInv, [Next]_vars PROVE IInv'
  OBVIOUS
<1>1. CASE UNCHANGED vars
  BY <1>1 DEF vars, IInv, TypeOK, RunInv, CallersSound, Sound, RowsSound, OneRun,
     ActiveRuns, OneExecutor, ReportsWhatItStored, EveryPathCloses,
     DisconnectionIsClean, LetGo
<1>2. CASE ProviderDrops
  BY <1>2, ProviderDropsKeeps
<1>3. ASSUME NEW c \in Callers, Arrive(c)
      PROVE  IInv'
  BY <1>3, BeginKeeps, DisconnectionStepsKeep, RegistrationKeeps DEF Arrive
<1>4. ASSUME NEW c \in Callers, Progress(c)
      PROVE  IInv'
  BY <1>4, MarkKeeps, RefusedRunsKeep, ExecutingStepsKeep, ApplyKeeps, SettleKeeps,
     DisconnectionStepsKeep, FinalizeKeeps, RegistrationKeeps DEF Progress
<1>5. ASSUME NEW c \in Callers, Fault(c)
      PROVE  IInv'
  BY <1>5, MarkKeeps, ApplyKeeps, SettleKeeps, RegistrationKeeps, FaultsKeep DEF Fault
<1> QED
  BY <1>1, <1>2, <1>3, <1>4, <1>5 DEF Next

LEMMA Invariance == Spec => []IInv
  BY InitInv, NextKeeps, PTL DEF Spec

\* The rows and the locals of every call keep their types; no execution counts
\* more pages than max_pages_per_run.
THEOREM TypeCorrect == Spec => []TypeOK
<1>1. IInv => TypeOK
  BY DEF IInv
<1> QED
  BY Invariance, <1>1, PTL

\* However many callers replay however many keys, one run of the connection is
\* active at a time, it is marked once, and one caller executes it.
THEOREM SingleFlightHolds == Spec => []SingleFlight
<1>1. ASSUME IInv PROVE SingleFlight
  <2>1. Cardinality(ActiveRuns) <= 1
    <3>1. CASE ActiveRuns = {}
      BY <3>1, FS_EmptySet
    <3>2. CASE ActiveRuns # {}
      <4>1. PICK k \in ActiveRuns : ActiveRuns = {k}
        BY <1>1, <3>2 DEF IInv, RunInv, OneRun
      <4> QED
        BY <4>1, FS_Singleton
    <3> QED
      BY <3>1, <3>2
  <2> QED
    BY <1>1, <2>1 DEF IInv, RunInv, CallersSound, Sound, RowsSound, OneExecutor, SingleFlight
<1> QED
  BY Invariance, <1>1, PTL

\* A disconnection that owns the lock meets no active run between its readiness
\* check and its finalization, and what it finalized is closed everywhere.
THEOREM DisconnectionIsCleanHolds == Spec => []DisconnectionIsClean
<1>1. IInv => DisconnectionIsClean
  BY DEF IInv
<1> QED
  BY Invariance, <1>1, PTL

\* What finish_sync reports is what apply_transaction_page committed, but for
\* one page whose answer was lost.
THEOREM ReportsWhatItStoredHolds == Spec => []ReportsWhatItStored
<1>1. IInv => ReportsWhatItStored
  BY DEF IInv, RunInv
<1> QED
  BY Invariance, <1>1, PTL

\* A running row without an executor is one whose executor was cut off.
THEOREM EveryPathClosesHolds == Spec => []EveryPathCloses
<1>1. IInv => EveryPathCloses
  BY DEF IInv, RunInv
<1> QED
  BY Invariance, <1>1, PTL

\* What ClosedTakesNoWrite asks of a step.
NoWrite ==
  /\ connection' = connection
  /\ stored' = stored
  /\ accounts' = accounts
  /\ capabilities' = capabilities
  /\ \A k \in Keys : run[k].status = "absent" => run'[k].status = "absent"

LEMMA ClosedStep == TypeOK /\ [Next]_vars => (Disconnected => NoWrite)
<1> SUFFICES ASSUME TypeOK, [Next]_vars, Disconnected PROVE NoWrite
  OBVIOUS
<1>0. connection # "open" /\ connection # "none"
  BY DEF Disconnected
<1>1. CASE UNCHANGED vars
  BY <1>1 DEF vars, NoWrite
<1>2. CASE ProviderDrops
  BY <1>2 DEF ProviderDrops, NoWrite
<1>3. ASSUME NEW c \in Callers, Arrive(c)
      PROVE  NoWrite
  BY <1>0, <1>3 DEF Arrive, Begin, BeginUnanswered, AskDisconnect, Inspect, NoWrite
<1>4. ASSUME NEW c \in Callers, MarkRunning(c) \/ MarkUnanswered(c)
      PROVE  NoWrite
  BY <1>4 DEF MarkRunning, MarkUnanswered, NoWrite, TypeOK
<1>5. ASSUME NEW c \in Callers, Finish(c) \/ FinishUnanswered(c) \/ Close(c)
      PROVE  NoWrite
  BY <1>5 DEF Finish, FinishUnanswered, Close, Settles, NoWrite, TypeOK
<1>6. ASSUME NEW c \in Callers, Register(c) \/ RegisterUnanswered(c) \/ ReplaceCapabilities(c)
      PROVE  NoWrite
  BY <1>6 DEF Register, RegisterUnanswered, RegisterRow, Observed, Disconnected,
     ReplaceCapabilities, NoWrite
<1>7. ASSUME NEW c \in Callers, ReplaceAccounts(c) \/ ApplyPage(c) \/ ApplyUnanswered(c) \/ Finalize(c)
      PROVE  NoWrite
  BY <1>0, <1>7 DEF ReplaceAccounts, ApplyPage, ApplyUnanswered, Finalize
<1>8. ASSUME NEW c \in Callers, Progress(c)
      PROVE  NoWrite
  BY <1>4, <1>5, <1>6, <1>7, <1>8
  DEF Progress, MarkRefused, ProviderAnswers, ProviderFails, LimitReached, PrepareCycle,
      WriterRefused, CloseRefused, Lock, Ready, AskProvider, Revoke, ProviderRefuses,
      DisconnectRefused, NoWrite
<1>9. ASSUME NEW c \in Callers, Fault(c)
      PROVE  NoWrite
  BY <1>4, <1>5, <1>6, <1>7, <1>9 DEF Fault, Undone, SessionCut, Crash, NoWrite
<1> QED
  BY <1>1, <1>2, <1>3, <1>8, <1>9 DEF Next

\* A DISCONNECTED connection blocks what is new (BANKING_INTEGRATION_PERSISTENCE_
\* MODEL.md:143) and takes no write of what was under way when it was closed.
THEOREM ClosedTakesNoWriteHolds == Spec => ClosedTakesNoWrite
<1>1. IInv => TypeOK
  BY DEF IInv
<1>2. TypeOK /\ [Next]_vars =>
        [Disconnected =>
           /\ connection' = connection
           /\ stored' = stored
           /\ accounts' = accounts
           /\ capabilities' = capabilities
           /\ \A k \in Keys : run[k].status = "absent" => run'[k].status = "absent"]_vars
  BY ClosedStep DEF NoWrite
<1> QED
  BY Invariance, <1>1, <1>2, PTL DEF Spec, ClosedTakesNoWrite
=============================================================================
