------------------------ MODULE ProviderAccessProofs ------------------------
(***************************************************************************)
(* The requests of a call are bounded, its writes build on what was seen,  *)
(* a key that lapses once is replaced, and a collection that moved one way *)
(* is returned as it was held, for any callers, credentials, records and   *)
(* limits.                                                                 *)
(*                                                                         *)
(* A request costs two rounds, of a key and of an answer each: Meter says  *)
(* how much of them a call may have spent at the attempt it has come to.   *)
(* Heals ties the lapses that are counted to the key and to its refresh,   *)
(* and Seen the row that a caller was shown to the one that is stored.     *)
(*                                                                         *)
(* CollectInv is about collections: unless one moved both ways, the        *)
(* records fetched so far are the first pages of one set that was held     *)
(* during the call.  A page that fits them has its total, so it comes from *)
(* the same set: of two finite sets of one size neither lies in the other  *)
(* unless they are equal.  Lists in order, which Sorted chooses, are shown *)
(* to exist by taking the least finite set that has none.                  *)
(***************************************************************************)
EXTENDS ProviderAccess, FiniteSetTheorems, SequenceTheorems, WellFoundedInduction, TLAPS

TransportFields ==
  {"todo", "creds", "key", "refreshed", "attempt", "page", "total", "records"}
HistoryFields == {"refused", "lapses", "held", "moved", "issued", "sent"}

Shape ==
  /\ DOMAIN pc = Callers /\ DOMAIN req = Callers /\ DOMAIN known = Callers
  /\ DOMAIN http = Callers /\ DOMAIN answer = Callers /\ DOMAIN history = Callers
  /\ \A c \in Callers :
       DOMAIN http[c] = TransportFields /\ DOMAIN history[c] = HistoryFields

\* A row without a revision is none.
ConfigKept ==
  /\ DOMAIN config = {"state", "revision", "creds"}
  /\ config.revision \in Nat /\ (config.revision = 0 => config = NoConfig)

\* A call that talks to nobody has an unused transport.
Phase(c) ==
  /\ pc[c] = "create" => req[c].op = "create"
  /\ ~Requesting(c) => http[c] = Closed /\ history[c].sent = 0 /\ history[c].lapses = 0

\* What the request of c has cost.
Meter(c) ==
  LET spent == history[c].sent
      attempt == http[c].attempt
  IN /\ spent \in Nat /\ history[c].issued = 0
     /\ attempt \in Nat \ {0} /\ attempt <= MaxAttempts
     /\ http[c].refreshed \in BOOLEAN
     /\ pc[c] = "auth" =>
          spent < attempt + (IF http[c].refreshed THEN 2 * MaxAttempts ELSE 0)
     /\ pc[c] = "data" =>
          spent < attempt + (IF http[c].refreshed THEN 3 * MaxAttempts ELSE MaxAttempts)

\* Why a key was refused.
Heals(c) ==
  LET lapses == history[c].lapses
  IN /\ lapses \in Nat
     /\ http[c].key = "dead" => lapses >= 1
     /\ http[c].refreshed => lapses >= 1 \/ Aim(c) \in Barred
     /\ http[c].refreshed /\ http[c].key = "dead" => lapses >= 2 \/ Aim(c) \in Barred
     /\ Requesting(c) /\ http[c].creds \notin accepted => history[c].refused

\* A revision names one row.
Seen(c) ==
  /\ known[c].revision \in Nat /\ known[c].revision <= config.revision
  /\ known[c].revision = config.revision => known[c] = config

Caller(c) == Phase(c) /\ Meter(c) /\ Heals(c) /\ Seen(c)

IInv == Shape /\ ConfigKept /\ \A c \in Callers : Caller(c)

-----------------------------------------------------------------------------
(* Steps of one caller *)

Only(c) ==
  /\ UNCHANGED accepted /\ Shape'
  /\ \A d \in Callers \ {c} :
       /\ pc'[d] = pc[d] /\ req'[d] = req[d] /\ known'[d] = known[d]
       /\ http'[d] = http[d] /\ history'[d] = history[d]

\* The row stays, or its revision grows.
Grown == config' = config \/ config'.revision > config.revision

LEMMA OneCaller ==
  ASSUME IInv, NEW c \in Callers, Only(c), ConfigKept', Grown, Caller(c)'
  PROVE  IInv'
<1>1. ASSUME NEW d \in Callers \ {c}
      PROVE  Caller(d)'
  <2>1. Caller(d) /\ ConfigKept
    BY DEF IInv
  <2>2. Phase(d)'
    BY <2>1 DEF Caller, Phase, Only, Requesting
  <2>3. Meter(d)'
    BY <2>1 DEF Caller, Meter, Only
  <2>4. Heals(d)'
    BY <2>1 DEF Caller, Heals, Only, Requesting, Aim
  <2>5. Seen(d)'
    BY <2>1 DEF Caller, Seen, Only, Grown, ConfigKept
  <2> QED
    BY <2>2, <2>3, <2>4, <2>5 DEF Caller
<1> QED
  BY <1>1 DEF IInv, Only

LEMMA ClosedIs ==
  /\ DOMAIN Closed = TransportFields /\ Closed.key = "none" /\ Closed.refreshed = FALSE
  /\ Closed.attempt = 1
BY DEF Closed, TransportFields

LEMMA NothingIs ==
  /\ DOMAIN NothingHappened = HistoryFields /\ NothingHappened.sent = 0
  /\ NothingHappened.lapses = 0 /\ NothingHappened.issued = 0
BY DEF NothingHappened, HistoryFields

\* A call that is not talking to Pluggy keeps what is said of requests.
LEMMA QuietKeeps ==
  ASSUME NEW c \in Callers, pc'[c] \notin {"auth", "data"}, http'[c] = Closed,
         history'[c].sent = 0, history'[c].lapses = 0, history'[c].issued = 0,
         pc'[c] = "create" => req'[c].op = "create"
  PROVE  Phase(c)' /\ Meter(c)' /\ Heals(c)'
<1>1. 1 \in Nat \ {0} /\ 1 <= MaxAttempts
  BY BoundsAssumption
<1>2. http'[c].key = "none" /\ http'[c].refreshed = FALSE /\ http'[c].attempt = 1
  BY ClosedIs
<1>3. Phase(c)'
  BY DEF Phase, Requesting
<1>4. Meter(c)'
  <2>1. http'[c].refreshed \in BOOLEAN
    BY <1>2, Zenon
  <2>2. pc'[c] # "auth" /\ pc'[c] # "data"
    OBVIOUS
  <2>3. http'[c].attempt \in Nat \ {0} /\ http'[c].attempt <= MaxAttempts
    BY <1>1, <1>2
  <2> QED
    BY <2>1, <2>2, <2>3 DEF Meter
<1>5. Heals(c)'
  <2>1. ~http'[c].refreshed
    BY <1>2, Zenon
  <2> QED
    BY <1>2, <2>1 DEF Heals, Requesting
<1> QED
  BY <1>3, <1>4, <1>5

\* A call that ends, whether or not it wrote the row.
LEMMA ReturnKeeps ==
  ASSUME IInv, NEW c \in Callers, NEW kind, NEW records, ReturnWith(c, kind, records),
         ConfigKept', Grown, Seen(c)', DOMAIN known' = Callers,
         \A d \in Callers \ {c} : known'[d] = known[d]
  PROVE  IInv'
<1>1. /\ pc'[c] = "idle" /\ http'[c] = Closed /\ history'[c] = NothingHappened
      /\ UNCHANGED accepted
      /\ DOMAIN pc' = Callers /\ DOMAIN req' = Callers /\ DOMAIN http' = Callers
      /\ DOMAIN answer' = Callers /\ DOMAIN history' = Callers
      /\ \A d \in Callers \ {c} :
           /\ pc'[d] = pc[d] /\ req'[d] = req[d]
           /\ http'[d] = http[d] /\ history'[d] = history[d]
  BY DEF ReturnWith, IInv, Shape, pluggy
<1>2. Shape'
  BY <1>1, ClosedIs, NothingIs DEF IInv, Shape
<1>3. Only(c)
  BY <1>1, <1>2 DEF Only
<1>4. Phase(c)' /\ Meter(c)' /\ Heals(c)'
  BY <1>1, NothingIs, QuietKeeps
<1> QED
  BY <1>3, <1>4, OneCaller DEF Caller

LEMMA ReplyKeeps ==
  ASSUME IInv, NEW c \in Callers, NEW kind, Reply(c, kind)
  PROVE  IInv'
<1>1. ReturnWith(c, kind, {}) /\ UNCHANGED <<config, known>>
  BY DEF Reply, Return
<1>2. ConfigKept' /\ Grown /\ Seen(c)'
  BY <1>1 DEF IInv, ConfigKept, Grown, Caller, Seen
<1> QED
  BY <1>1, <1>2, ReturnKeeps DEF IInv, Shape

\* The answer of a write that takes effect, or of a read.
LEMMA ShowKeeps ==
  ASSUME IInv, NEW c \in Callers, Show(c, config'), ConfigKept', Grown
  PROVE  IInv'
<1>1. PICK kind : ReturnWith(c, kind, {})
  BY DEF Show, Return
<1>2. known' = [known EXCEPT ![c] = config'] \/ UNCHANGED known
  BY DEF Show
<1>3. DOMAIN known' = Callers /\ \A d \in Callers \ {c} : known'[d] = known[d]
  BY <1>2 DEF IInv, Shape
<1>4. Seen(c)'
  <2>1. CASE known' = [known EXCEPT ![c] = config']
    <3>1. known'[c] = config'
      BY <2>1 DEF IInv, Shape
    <3> QED
      BY <3>1 DEF Seen, ConfigKept
  <2>2. CASE UNCHANGED known
    BY <2>2 DEF Seen, IInv, Caller, Grown, ConfigKept
  <2> QED
    BY <1>2, <2>1, <2>2
<1> QED
  BY <1>1, <1>3, <1>4, ReturnKeeps

\* A step that neither ends the call nor writes the row.
LEMMA GoesOn ==
  ASSUME IInv, NEW c \in Callers, UNCHANGED <<config, known, accepted>>, Shape',
         \A d \in Callers \ {c} :
           /\ pc'[d] = pc[d] /\ req'[d] = req[d]
           /\ http'[d] = http[d] /\ history'[d] = history[d],
         Phase(c)', Meter(c)', Heals(c)'
  PROVE  IInv'
<1>1. ConfigKept' /\ Grown /\ Seen(c)'
  BY DEF IInv, ConfigKept, Grown, Caller, Seen
<1>2. Only(c)
  BY DEF Only
<1> QED
  BY <1>1, <1>2, OneCaller DEF Caller

-----------------------------------------------------------------------------
(* The steps *)

LEMMA AskKeeps ==
  ASSUME IInv, NEW c \in Callers, Ask(c)
  PROVE  IInv'
<1>1. PICK r \in Requests :
        req' = [req EXCEPT ![c] = r] /\ pc' = [pc EXCEPT ![c] = First(r.op)]
  BY DEF Ask
<1>2. pc[c] = "idle" /\ UNCHANGED <<config, known, accepted, http>>
  BY DEF Ask, pluggy
<1>3. PICK h : history' = [history EXCEPT ![c].held = h]
  BY DEF Ask
<1>4. DOMAIN answer' = Callers
  BY DEF Ask, IInv, Shape
<1>5. http[c] = Closed /\ history[c].sent = 0 /\ history[c].lapses = 0 /\ history[c].issued = 0
  BY <1>2 DEF IInv, Caller, Phase, Meter, Requesting
<1>6. /\ pc'[c] = First(r.op) /\ req'[c] = r /\ http'[c] = Closed
      /\ history'[c].sent = 0 /\ history'[c].lapses = 0 /\ history'[c].issued = 0
      /\ DOMAIN history'[c] = HistoryFields
      /\ DOMAIN pc' = Callers /\ DOMAIN req' = Callers /\ DOMAIN history' = Callers
      /\ \A d \in Callers \ {c} :
           pc'[d] = pc[d] /\ req'[d] = req[d] /\ http'[d] = http[d] /\ history'[d] = history[d]
  BY <1>1, <1>2, <1>3, <1>5 DEF IInv, Shape, HistoryFields
<1>7. First(r.op) \notin {"auth", "data"} /\ (First(r.op) = "create" => r.op = "create")
  <2>1. r.op \in {"create", "replace", "set_state", "get", "none"} \cup DOMAIN Plan
    BY DEF Requests, Call
  <2> QED
    BY <2>1 DEF First
<1>8. Shape'
  BY <1>2, <1>4, <1>6 DEF IInv, Shape
<1>9. Phase(c)' /\ Meter(c)' /\ Heals(c)'
  BY <1>6, <1>7, QuietKeeps
<1> QED
  BY <1>2, <1>6, <1>8, <1>9, GoesOn

LEMMA CreateKeeps ==
  ASSUME IInv, NEW c \in Callers, Create(c)
  PROVE  IInv'
<1>1. CASE Reply(c, "conflict")
  BY <1>1, ReplyKeeps
<1>2. CASE /\ config = NoConfig
           /\ config' = [state |-> "configured", revision |-> 1, creds |-> req[c].creds]
           /\ Show(c, config')
  <2>1. config.revision = 0 /\ config'.revision = 1
        /\ DOMAIN config' = {"state", "revision", "creds"}
    BY <1>2 DEF NoConfig
  <2>2. ConfigKept' /\ Grown
    BY <2>1 DEF ConfigKept, Grown
  <2> QED
    BY <1>2, <2>2, ShowKeeps
<1> QED
  BY <1>1, <1>2 DEF Create

LEMMA WrittenIs ==
  ASSUME IInv, NEW r, config' = Written(r)
  PROVE  ConfigKept' /\ config'.revision = config.revision + 1
<1>1. DOMAIN config = {"state", "revision", "creds"} /\ config.revision \in Nat
  BY DEF IInv, ConfigKept
<1>2. DOMAIN config' = {"state", "revision", "creds"} /\ config'.revision = config.revision + 1
  BY <1>1 DEF Written
<1> QED
  BY <1>1, <1>2 DEF ConfigKept

LEMMA WriteKeeps ==
  ASSUME IInv, NEW c \in Callers, Write(c)
  PROVE  IInv'
<1>1. CASE \E kind : Reply(c, kind)
  BY <1>1, ReplyKeeps
<1>2. CASE config' = Written(req[c]) /\ Show(c, config')
  <2>1. ConfigKept' /\ config'.revision = config.revision + 1
    BY <1>2, WrittenIs
  <2>2. Grown
    BY <2>1 DEF Grown, IInv, ConfigKept
  <2> QED
    BY <1>2, <2>1, <2>2, ShowKeeps
<1> QED
  BY <1>1, <1>2 DEF Write

LEMMA GetKeeps ==
  ASSUME IInv, NEW c \in Callers, GetConfiguration(c)
  PROVE  IInv'
<1>1. CASE Reply(c, "failed")
  BY <1>1, ReplyKeeps
<1>2. CASE Show(c, config) /\ UNCHANGED config
  <2>1. Show(c, config') /\ ConfigKept' /\ Grown
    BY <1>2 DEF IInv, ConfigKept, Grown
  <2> QED
    BY <2>1, ShowKeeps
<1> QED
  BY <1>1, <1>2 DEF GetConfiguration

\* A read that lets the call go on, in the database still.
LEMMA StepOn ==
  ASSUME IInv, NEW c \in Callers, NEW p, p \notin {"auth", "data", "create"}, ~Requesting(c),
         pc' = [pc EXCEPT ![c] = p],
         UNCHANGED <<calling, pluggy, req, http, answer, history>>
  PROVE  IInv'
<1>1. /\ UNCHANGED <<config, known, accepted, req, http, answer, history>>
      /\ pc'[c] = p /\ DOMAIN pc' = Callers
      /\ \A d \in Callers \ {c} : pc'[d] = pc[d]
  BY DEF IInv, Shape, calling, pluggy
<1>2. http[c] = Closed /\ history[c].sent = 0 /\ history[c].lapses = 0 /\ history[c].issued = 0
  BY DEF IInv, Caller, Phase, Meter
<1>3. Phase(c)' /\ Meter(c)' /\ Heals(c)'
  BY <1>1, <1>2, QuietKeeps
<1>4. Shape'
  BY <1>1 DEF IInv, Shape
<1> QED
  BY <1>1, <1>3, <1>4, GoesOn

LEMMA DatabaseKeeps ==
  ASSUME IInv, NEW c \in Callers, Replace(c) \/ Unavailable(c) \/ LoadConnection(c)
  PROVE  IInv'
<1>1. CASE \E kind : Reply(c, kind)
  BY <1>1, ReplyKeeps
<1>2. CASE /\ pc[c] \in {"replace", "connection"}
           /\ \E p \in {"write", "credentials"} : pc' = [pc EXCEPT ![c] = p]
           /\ UNCHANGED <<calling, pluggy, req, http, answer, history>>
  BY <1>2, StepOn DEF Requesting
<1> QED
  BY <1>1, <1>2 DEF Replace, Unavailable, LoadConnection

LEMMA UseCredentialsKeeps ==
  ASSUME IInv, NEW c \in Callers, UseEnabledCredentials(c)
  PROVE  IInv'
<1>1. CASE Reply(c, "failed")
  BY <1>1, ReplyKeeps
<1>2. CASE /\ http' = [http EXCEPT ![c] = [Closed EXCEPT !.todo = Plan[req[c].op],
                                                        !.creds = config.creds]]
           /\ pc' = [pc EXCEPT ![c] = "auth"]
           /\ history' = [history EXCEPT ![c].refused = config.creds \notin accepted]
           /\ UNCHANGED <<calling, pluggy, req, answer>>
  <2> DEFINE t == [Closed EXCEPT !.todo = Plan[req[c].op], !.creds = config.creds]
  <2>1. pc[c] = "credentials"
    BY DEF UseEnabledCredentials
  <2>2. /\ history[c].sent = 0 /\ history[c].lapses = 0 /\ history[c].issued = 0
    BY <2>1 DEF IInv, Caller, Phase, Meter, Requesting
  <2>3. /\ DOMAIN t = TransportFields /\ t.key = "none" /\ t.refreshed = FALSE /\ t.attempt = 1
        /\ t.creds = config.creds
    BY DEF Closed, TransportFields
  <2> HIDE DEF t
  <2>4. /\ http'[c] = t /\ pc'[c] = "auth" /\ UNCHANGED <<config, known, accepted, req, answer>>
        /\ DOMAIN http' = Callers /\ DOMAIN pc' = Callers /\ DOMAIN history' = Callers
        /\ \A d \in Callers \ {c} :
             pc'[d] = pc[d] /\ http'[d] = http[d] /\ history'[d] = history[d]
    BY <1>2 DEF IInv, Shape, calling, pluggy, t
  <2>5. /\ history'[c].sent = 0 /\ history'[c].lapses = 0 /\ history'[c].issued = 0
        /\ DOMAIN history'[c] = HistoryFields
        /\ history'[c].refused = (config.creds \notin accepted)
    BY <1>2, <2>2 DEF IInv, Shape, HistoryFields
  <2>6. Shape'
    BY <2>3, <2>4, <2>5 DEF IInv, Shape
  <2>7. ~http'[c].refreshed /\ http'[c].refreshed \in BOOLEAN
    BY <2>3, <2>4, Zenon
  <2>8. Phase(c)'
    BY <2>4 DEF Phase, Requesting
  <2>9. Meter(c)'
    <3>1. 1 \in Nat \ {0} /\ 1 <= MaxAttempts
      BY BoundsAssumption
    <3>2. pc'[c] # "data" /\ http'[c].attempt = 1
      BY <2>3, <2>4
    <3> QED
      BY <2>5, <2>7, <3>1, <3>2 DEF Meter
  <2>10. http'[c].creds \notin accepted' => history'[c].refused
    BY <2>3, <2>4, <2>5, Zenon
  <2>11. Heals(c)'
    BY <2>3, <2>4, <2>5, <2>7, <2>10 DEF Heals
  <2> QED
    BY <2>4, <2>6, <2>8, <2>9, <2>11, GoesOn
<1> QED
  BY <1>1, <1>2 DEF UseEnabledCredentials

-----------------------------------------------------------------------------
(* Requests to Pluggy *)

\* A step of c that leaves it talking to Pluggy.
LEMMA RequestKeeps ==
  ASSUME IInv, NEW c \in Callers, UNCHANGED <<config, known, accepted, req, answer>>,
         pc'[c] \in {"auth", "data"},
         DOMAIN pc' = Callers, DOMAIN http' = Callers, DOMAIN history' = Callers,
         DOMAIN http'[c] = TransportFields, DOMAIN history'[c] = HistoryFields,
         \A d \in Callers \ {c} :
           pc'[d] = pc[d] /\ http'[d] = http[d] /\ history'[d] = history[d],
         Meter(c)', Heals(c)'
  PROVE  IInv'
<1>1. Shape'
  BY DEF IInv, Shape
<1>2. Phase(c)'
  BY DEF Phase, Requesting
<1> QED
  BY <1>1, <1>2, GoesOn

LEMMA RetriedKeeps ==
  ASSUME IInv, NEW c \in Callers, NEW issued \in Nat, Requesting(c), Retried(c, issued),
         issued = 0 \/ (pc[c] = "data" /\ Aim(c) = "token")
  PROVE  IInv'
<1>1. CASE ~MayRetry(c)
  BY <1>1, ReplyKeeps DEF Retried
<1>2. CASE MayRetry(c)
  <2>1. /\ http' = [http EXCEPT ![c].attempt = @ + 1]
        /\ history' = [history EXCEPT ![c].issued = @ + issued, ![c].sent = @ + 1]
        /\ UNCHANGED <<config, known, accepted, pc, req, answer>>
    BY <1>2 DEF Retried, calling, pluggy
  <2>2. issued = 0 /\ http[c].attempt < MaxAttempts
    BY <1>2 DEF MayRetry
  <2>3. Meter(c) /\ Heals(c) /\ pc[c] \in {"auth", "data"}
    BY DEF IInv, Caller, Requesting
  <2>4. /\ DOMAIN http' = Callers /\ DOMAIN http'[c] = TransportFields
        /\ http'[c].attempt = http[c].attempt + 1
        /\ http'[c].key = http[c].key /\ http'[c].refreshed = http[c].refreshed
        /\ http'[c].creds = http[c].creds /\ http'[c].todo = http[c].todo
        /\ \A d \in Callers \ {c} : http'[d] = http[d]
    BY <2>1 DEF IInv, Shape, TransportFields
  <2>5. /\ DOMAIN history' = Callers /\ DOMAIN history'[c] = HistoryFields
        /\ history'[c].issued = history[c].issued + issued
        /\ history'[c].sent = history[c].sent + 1
        /\ history'[c].lapses = history[c].lapses
        /\ history'[c].refused = history[c].refused
        /\ \A d \in Callers \ {c} : history'[d] = history[d]
    BY <2>1 DEF IInv, Shape, HistoryFields
  <2>6. Meter(c)'
    <3>1. http'[c].refreshed \in BOOLEAN
      BY <2>3, <2>4 DEF Meter
    <3>2. MaxAttempts \in Nat
      BY BoundsAssumption
    <3>3. history'[c].sent \in Nat /\ history'[c].issued = 0
          /\ http'[c].attempt \in Nat \ {0} /\ http'[c].attempt <= MaxAttempts
      BY <2>2, <2>3, <2>4, <2>5, <3>2 DEF Meter
    <3>4. pc'[c] = "auth" => history'[c].sent < http'[c].attempt
                               + (IF http'[c].refreshed THEN 2 * MaxAttempts ELSE 0)
      BY <2>1, <2>3, <2>4, <2>5, <3>2 DEF Meter
    <3>5. pc'[c] = "data" => history'[c].sent < http'[c].attempt
                     + (IF http'[c].refreshed THEN 3 * MaxAttempts ELSE MaxAttempts)
      BY <2>1, <2>3, <2>4, <2>5, <3>2 DEF Meter
    <3> QED
      BY <3>1, <3>3, <3>4, <3>5 DEF Meter
  <2>7. Heals(c)'
    BY <2>1, <2>3, <2>4, <2>5 DEF Heals, Aim, Requesting
  <2>8. DOMAIN pc' = Callers /\ \A d \in Callers \ {c} : pc'[d] = pc[d]
    BY <2>1 DEF IInv, Shape
  <2> QED
    BY <2>1, <2>3, <2>4, <2>5, <2>6, <2>7, <2>8, RequestKeeps
<1> QED
  BY <1>1, <1>2

LEMMA AuthenticateKeeps ==
  ASSUME IInv, NEW c \in Callers, Authenticate(c)
  PROVE  IInv'
<1>1. CASE http[c].creds \notin accepted
  BY <1>1, ReplyKeeps DEF Authenticate
<1>2. CASE http[c].creds \in accepted
  <2>1. /\ http' = [http EXCEPT ![c].key = "live", ![c].attempt = 1]
        /\ pc' = [pc EXCEPT ![c] = "data"]
        /\ history' = [history EXCEPT ![c].sent = @ + 1]
        /\ UNCHANGED <<config, known, accepted, req, answer>>
    BY <1>2 DEF Authenticate, calling, pluggy
  <2>2. Meter(c) /\ Heals(c) /\ pc[c] = "auth"
    BY DEF IInv, Caller, Authenticate
  <2>3. /\ DOMAIN http' = Callers /\ DOMAIN http'[c] = TransportFields
        /\ http'[c].attempt = 1 /\ http'[c].key = "live"
        /\ http'[c].refreshed = http[c].refreshed
        /\ http'[c].creds = http[c].creds /\ http'[c].todo = http[c].todo
        /\ \A d \in Callers \ {c} : http'[d] = http[d]
    BY <2>1 DEF IInv, Shape, TransportFields
  <2>4. /\ DOMAIN history' = Callers /\ DOMAIN history'[c] = HistoryFields
        /\ history'[c].issued = history[c].issued
        /\ history'[c].sent = history[c].sent + 1
        /\ history'[c].lapses = history[c].lapses
        /\ \A d \in Callers \ {c} : history'[d] = history[d]
    BY <2>1 DEF IInv, Shape, HistoryFields
  <2>5. /\ pc'[c] = "data" /\ DOMAIN pc' = Callers
        /\ \A d \in Callers \ {c} : pc'[d] = pc[d]
    BY <2>1 DEF IInv, Shape
  <2>6. Meter(c)'
    <3>1. http'[c].refreshed \in BOOLEAN
      BY <2>2, <2>3 DEF Meter
    <3>2. MaxAttempts \in Nat /\ 1 <= MaxAttempts
      BY BoundsAssumption
    <3>3. history'[c].sent \in Nat /\ history'[c].issued = 0
      BY <2>2, <2>4 DEF Meter
    <3>4. history'[c].sent < http'[c].attempt
            + (IF http'[c].refreshed THEN 3 * MaxAttempts ELSE MaxAttempts)
      BY <2>2, <2>3, <2>4, <3>2 DEF Meter
    <3> QED
      BY <2>3, <2>5, <3>1, <3>2, <3>3, <3>4 DEF Meter
  <2>7. Heals(c)'
    BY <1>2, <2>1, <2>2, <2>3, <2>4 DEF Heals, Aim
  <2> QED
    BY <2>1, <2>3, <2>4, <2>5, <2>6, <2>7, RequestKeeps
<1> QED
  BY <1>1, <1>2

LEMMA RejectedKeeps ==
  ASSUME IInv, NEW c \in Callers, Rejected(c)
  PROVE  IInv'
<1>1. CASE ~MayRefresh(c)
  BY <1>1, ReplyKeeps DEF Rejected
<1>2. CASE MayRefresh(c)
  <2>1. /\ http' = [http EXCEPT ![c] = Refreshed(c)]
        /\ pc' = [pc EXCEPT ![c] = "auth"]
        /\ history' = [history EXCEPT ![c].sent = @ + 1]
        /\ UNCHANGED <<config, known, accepted, req, answer>>
    BY <1>2 DEF Rejected, calling, pluggy
  <2>2. Meter(c) /\ Heals(c) /\ pc[c] = "data" /\ (http[c].key = "dead" \/ Aim(c) \in Barred)
    BY DEF IInv, Caller, Rejected, KeyIsDead
  <2>3. ~http[c].refreshed
    BY <1>2 DEF MayRefresh
  <2>4. /\ DOMAIN http' = Callers /\ DOMAIN http'[c] = TransportFields
        /\ http'[c].attempt = 1 /\ http'[c].key = "none" /\ http'[c].refreshed = TRUE
        /\ http'[c].creds = http[c].creds /\ http'[c].todo = http[c].todo
        /\ \A d \in Callers \ {c} : http'[d] = http[d]
    BY <2>1 DEF IInv, Shape, TransportFields, Refreshed
  <2>5. /\ DOMAIN history' = Callers /\ DOMAIN history'[c] = HistoryFields
        /\ history'[c].issued = history[c].issued
        /\ history'[c].sent = history[c].sent + 1
        /\ history'[c].lapses = history[c].lapses
        /\ history'[c].refused = history[c].refused
        /\ \A d \in Callers \ {c} : history'[d] = history[d]
    BY <2>1 DEF IInv, Shape, HistoryFields
  <2>6. /\ pc'[c] = "auth" /\ DOMAIN pc' = Callers
        /\ \A d \in Callers \ {c} : pc'[d] = pc[d]
    BY <2>1 DEF IInv, Shape
  <2>7. Meter(c)'
    <3>1. http'[c].refreshed \in BOOLEAN /\ http'[c].refreshed
      BY <2>4, Zenon
    <3>2. MaxAttempts \in Nat /\ 1 <= MaxAttempts
      BY BoundsAssumption
    <3>3. history[c].sent < http[c].attempt + MaxAttempts
      BY <2>2, <2>3 DEF Meter
    <3>4. history'[c].sent \in Nat /\ history'[c].issued = 0
          /\ history'[c].sent < 1 + 2 * MaxAttempts
      BY <2>2, <2>5, <3>2, <3>3 DEF Meter
    <3> QED
      BY <2>4, <2>6, <3>1, <3>2, <3>4 DEF Meter
  <2>8. Heals(c)'
    BY <2>1, <2>2, <2>4, <2>5 DEF Heals, Aim, Requesting
  <2> QED
    BY <2>1, <2>4, <2>5, <2>6, <2>7, <2>8, RequestKeeps
<1> QED
  BY <1>1, <1>2 DEF Rejected

\* The next request starts with a key that is not known to be dead.
LEMMA ContinueKeeps ==
  ASSUME IInv, NEW c \in Callers, NEW t, pc[c] = "data", ~KeyIsDead(c),
         DOMAIN t = TransportFields, t.key = http[c].key, t.creds = http[c].creds,
         Continue(c, t)
  PROVE  IInv'
<1>1. /\ http' = [http EXCEPT ![c] = Advanced(t)]
      /\ history' = [history EXCEPT ![c].lapses = 0, ![c].sent = 0]
      /\ UNCHANGED <<config, known, accepted, pc, req, answer>>
  BY DEF Continue, calling, pluggy
<1>2. Meter(c) /\ Heals(c) /\ http[c].key # "dead"
  BY DEF IInv, Caller, KeyIsDead
<1>3. /\ DOMAIN http' = Callers /\ DOMAIN http'[c] = TransportFields
      /\ http'[c].attempt = 1 /\ http'[c].key # "dead" /\ http'[c].refreshed = FALSE
      /\ http'[c].creds = http[c].creds
      /\ \A d \in Callers \ {c} : http'[d] = http[d]
  BY <1>1, <1>2 DEF IInv, Shape, TransportFields, Advanced
<1>4. /\ DOMAIN history' = Callers /\ DOMAIN history'[c] = HistoryFields
      /\ history'[c].issued = history[c].issued
      /\ history'[c].sent = 0 /\ history'[c].lapses = 0
      /\ history'[c].refused = history[c].refused
      /\ \A d \in Callers \ {c} : history'[d] = history[d]
  BY <1>1 DEF IInv, Shape, HistoryFields
<1>5. /\ pc'[c] = "data" /\ DOMAIN pc' = Callers
      /\ \A d \in Callers \ {c} : pc'[d] = pc[d]
  BY <1>1 DEF IInv, Shape
<1>6. http'[c].refreshed \in BOOLEAN /\ ~http'[c].refreshed
  BY <1>3, Zenon
<1>7. Meter(c)'
  <2>1. MaxAttempts \in Nat /\ 1 <= MaxAttempts
    BY BoundsAssumption
  <2>2. history'[c].issued = 0
    BY <1>2, <1>4 DEF Meter
  <2> QED
    BY <1>3, <1>4, <1>5, <1>6, <2>1, <2>2 DEF Meter
<1>8. Heals(c)'
  BY <1>1, <1>2, <1>3, <1>4, <1>6 DEF Heals, Requesting
<1> QED
  BY <1>1, <1>3, <1>4, <1>5, <1>7, <1>8, RequestKeeps

LEMMA ProceedKeeps ==
  ASSUME IInv, NEW c \in Callers, pc[c] = "data", ~KeyIsDead(c), Proceed(c)
  PROVE  IInv'
<1>1. CASE Reply(c, "ok")
  BY <1>1, ReplyKeeps
<1>2. CASE Continue(c, [http[c] EXCEPT !.todo = Tail(@)])
  <2> DEFINE t == [http[c] EXCEPT !.todo = Tail(http[c].todo)]
  <2>1. DOMAIN t = TransportFields /\ t.key = http[c].key /\ t.creds = http[c].creds
    BY DEF IInv, Shape, TransportFields
  <2>2. Continue(c, t)
    BY <1>2
  <2> HIDE DEF t
  <2> QED
    BY <2>1, <2>2, ContinueKeeps
<1> QED
  BY <1>1, <1>2 DEF Proceed

LEMMA PageKeeps ==
  ASSUME IInv, NEW c \in Callers, Page(c)
  PROVE  IInv'
<1>1. pc[c] = "data" /\ ~KeyIsDead(c)
  BY DEF Page, Answered
<1>2. CASE \E kind : Reply(c, kind)
  BY <1>2, ReplyKeeps
<1>3. CASE \E total, records :
             Continue(c, [http[c] EXCEPT !.page = @ + 1, !.total = total, !.records = records])
  <2>1. PICK total, records :
          Continue(c, [http[c] EXCEPT !.page = @ + 1, !.total = total, !.records = records])
    BY <1>3
  <2> DEFINE t == [http[c] EXCEPT !.page = @ + 1, !.total = total, !.records = records]
  <2>2. DOMAIN t = TransportFields /\ t.key = http[c].key /\ t.creds = http[c].creds
    BY DEF IInv, Shape, TransportFields
  <2>3. Continue(c, t)
    BY <2>1
  <2> HIDE DEF t
  <2> QED
    BY <1>1, <2>2, <2>3, ContinueKeeps
<1>4. CASE \E records : ReturnWith(c, "ok", records) /\ UNCHANGED <<config, known>>
  <2>1. ConfigKept' /\ Grown /\ Seen(c)'
    BY <1>4 DEF IInv, ConfigKept, Grown, Caller, Seen
  <2> QED
    BY <1>4, <2>1, ReturnKeeps DEF IInv, Shape
<1> QED
  BY <1>2, <1>3, <1>4, Zenon DEF Page

LEMMA StepKeeps ==
  ASSUME IInv, NEW c \in Callers, Step(c)
  PROVE  IInv'
<1>1. CASE Create(c) \/ Write(c) \/ GetConfiguration(c)
  BY <1>1, CreateKeeps, WriteKeeps, GetKeeps
<1>2. CASE Replace(c) \/ Unavailable(c) \/ LoadConnection(c) \/ UseEnabledCredentials(c)
  BY <1>2, DatabaseKeeps, UseCredentialsKeeps
<1>3. CASE Delayed(c)
  BY <1>3, RetriedKeeps DEF Delayed
<1>4. CASE Authenticate(c) \/ Rejected(c) \/ Page(c)
  BY <1>4, AuthenticateKeeps, RejectedKeeps, PageKeeps
<1>5. CASE ErrorAnswered(c) \/ Undecoded(c) \/ Malformed(c) \/ Mismatched(c)
  BY <1>5, ReplyKeeps DEF ErrorAnswered, Undecoded, Malformed, Mismatched
<1>6. CASE ItemRead(c) \/ AccountsRead(c) \/ TransactionsRead(c) \/ BillsRead(c)
  <2>1. pc[c] = "data" /\ ~KeyIsDead(c) /\ (Proceed(c) \/ Reply(c, "failed"))
    BY <1>6 DEF ItemRead, AccountsRead, TransactionsRead, BillsRead, Answered
  <2> QED
    BY <2>1, ProceedKeeps, ReplyKeeps
<1>7. CASE Issued(c)
  <2>1. pc[c] = "data" /\ Aim(c) = "token" /\ (Reply(c, "ok") \/ Retried(c, 1))
    BY <1>7 DEF Issued, Answered
  <2> QED
    BY <2>1, ReplyKeeps, RetriedKeeps DEF Requesting
<1> QED
  BY <1>1, <1>2, <1>3, <1>4, <1>5, <1>6, <1>7 DEF Step

-----------------------------------------------------------------------------
(* Pluggy *)

LEMMA LapseKeeps ==
  ASSUME IInv, NEW c \in Callers, KeyLapses(c)
  PROVE  IInv'
<1>1. /\ http[c].key = "live" /\ http' = [http EXCEPT ![c].key = "dead"]
      /\ history' = [history EXCEPT ![c].lapses = @ + 1]
      /\ UNCHANGED <<config, known, accepted, pc, req, answer>>
  BY DEF KeyLapses, calling
<1>2. Meter(c) /\ Heals(c) /\ Phase(c)
  BY DEF IInv, Caller
<1>3. pc[c] \in {"auth", "data"}
  BY <1>1, <1>2, ClosedIs DEF Phase, Requesting
<1>4. /\ DOMAIN http' = Callers /\ DOMAIN http'[c] = TransportFields
      /\ http'[c].attempt = http[c].attempt /\ http'[c].key = "dead"
      /\ http'[c].refreshed = http[c].refreshed
      /\ http'[c].creds = http[c].creds /\ http'[c].todo = http[c].todo
      /\ \A d \in Callers \ {c} : http'[d] = http[d]
  BY <1>1 DEF IInv, Shape, TransportFields
<1>5. /\ DOMAIN history' = Callers /\ DOMAIN history'[c] = HistoryFields
      /\ history'[c].issued = history[c].issued
      /\ history'[c].sent = history[c].sent
      /\ history'[c].lapses = history[c].lapses + 1
      /\ history'[c].refused = history[c].refused
      /\ \A d \in Callers \ {c} : history'[d] = history[d]
  BY <1>1 DEF IInv, Shape, HistoryFields
<1>6. DOMAIN pc' = Callers /\ \A d \in Callers \ {c} : pc'[d] = pc[d]
  BY <1>1 DEF IInv, Shape
<1>7. Meter(c)'
  BY <1>1, <1>2, <1>4, <1>5 DEF Meter
<1>8. Heals(c)'
  BY <1>1, <1>2, <1>4, <1>5 DEF Heals, Aim, Requesting
<1> QED
  BY <1>1, <1>3, <1>4, <1>5, <1>6, <1>7, <1>8, RequestKeeps

\* What happens to the credentials and to the collection changes only what is
\* remembered of it.
LEMMA WatchKeeps ==
  ASSUME IInv, UNCHANGED <<config, known, pc, req, http, answer>>,
         DOMAIN history' = Callers,
         \A c \in Callers :
           /\ DOMAIN history'[c] = HistoryFields
           /\ history'[c].sent = history[c].sent /\ history'[c].issued = history[c].issued
           /\ history'[c].lapses = history[c].lapses
           /\ (Requesting(c) /\ http[c].creds \notin accepted') => history'[c].refused
  PROVE  IInv'
<1>1. Shape' /\ ConfigKept'
  BY DEF IInv, Shape, ConfigKept
<1>2. ASSUME NEW c \in Callers
      PROVE  Caller(c)'
  <2>1. Phase(c) /\ Meter(c) /\ Heals(c) /\ Seen(c)
    BY DEF IInv, Caller
  <2>2. Phase(c)'
    BY <2>1 DEF Phase, Requesting
  <2>3. Meter(c)'
    BY <2>1 DEF Meter
  <2>4. Requesting(c)' /\ (http[c].creds \notin accepted)' => history'[c].refused
    BY DEF Requesting
  <2>5. Heals(c)'
    BY <2>1, <2>4 DEF Heals, Aim
  <2>6. Seen(c)'
    BY <2>1 DEF Seen
  <2> QED
    BY <2>2, <2>3, <2>5, <2>6 DEF Caller
<1> QED
  BY <1>1, <1>2 DEF IInv

LEMMA RotateKeeps ==
  ASSUME IInv, NEW v \in Credentials, Rotate(v)
  PROVE  IInv'
<1>1. /\ accepted' = IF v \in accepted THEN accepted \ {v} ELSE accepted \cup {v}
      /\ UNCHANGED <<config, known, pc, req, http, answer>>
      /\ history' = [c \in Callers |-> [history[c] EXCEPT !.refused =
                       @ \/ (http[c].creds = v /\ v \notin accepted')]]
  BY DEF Rotate, calling
<1>2. ASSUME NEW c \in Callers
      PROVE  /\ DOMAIN history'[c] = HistoryFields
             /\ history'[c].sent = history[c].sent /\ history'[c].issued = history[c].issued
             /\ history'[c].lapses = history[c].lapses
             /\ (Requesting(c) /\ http[c].creds \notin accepted') => history'[c].refused
  <2>1. history'[c] = [history[c] EXCEPT !.refused =
                         @ \/ (http[c].creds = v /\ v \notin accepted')]
    BY <1>1
  <2>2. DOMAIN history[c] = HistoryFields
    BY DEF IInv, Shape
  <2>3. /\ DOMAIN history'[c] = HistoryFields
        /\ history'[c].sent = history[c].sent /\ history'[c].issued = history[c].issued
        /\ history'[c].lapses = history[c].lapses
    BY <2>1, <2>2 DEF HistoryFields
  <2>4. history'[c].refused
          = (history[c].refused \/ (http[c].creds = v /\ v \notin accepted'))
    BY <2>1, <2>2 DEF HistoryFields
  <2>5. ASSUME Requesting(c), http[c].creds \notin accepted'
        PROVE  history'[c].refused
    <3>1. CASE http[c].creds = v
      BY <2>4, <2>5, <3>1, Zenon
    <3>2. CASE http[c].creds # v
      <4>1. http[c].creds \notin accepted
        BY <1>1, <2>5, <3>2
      <4>2. history[c].refused
        BY <2>5, <4>1 DEF IInv, Caller, Heals
      <4> QED
        BY <2>4, <4>2, Zenon
    <3> QED
      BY <3>1, <3>2
  <2> QED
    BY <2>3, <2>5
<1> QED
  BY <1>1, <1>2, WatchKeeps

LEMMA CollectionKeeps ==
  ASSUME IInv, NEW r \in Records, Grow(r) \/ Shrink(r)
  PROVE  IInv'
<1>1. PICK how : history' = Watched(how)
  BY DEF Grow, Shrink
<1>2. UNCHANGED <<config, known, accepted, pc, req, http, answer>>
  BY DEF Grow, Shrink, calling
<1>3. ASSUME NEW c \in Callers
      PROVE  /\ DOMAIN history'[c] = HistoryFields
             /\ history'[c].sent = history[c].sent /\ history'[c].issued = history[c].issued
             /\ history'[c].lapses = history[c].lapses
             /\ history'[c].refused = history[c].refused
  <2>1. DOMAIN history[c] = HistoryFields
    BY DEF IInv, Shape
  <2>2. PICK h, m : history'[c] \in {history[c], [history[c] EXCEPT !.held = h, !.moved = m]}
    BY <1>1 DEF Watched
  <2> QED
    BY <2>1, <2>2 DEF HistoryFields
<1>4. \A c \in Callers :
        (Requesting(c) /\ http[c].creds \notin accepted') => history'[c].refused
  BY <1>2, <1>3 DEF IInv, Caller, Heals
<1>5. DOMAIN history' = Callers
  BY <1>1 DEF Watched
<1> QED
  BY <1>2, <1>3, <1>4, <1>5, WatchKeeps

-----------------------------------------------------------------------------
LEMMA StutterKeeps ==
  ASSUME IInv, UNCHANGED vars
  PROVE  IInv'
<1>1. UNCHANGED <<config, known, accepted, pc, req, http, answer, history>>
  BY DEF vars, calling, pluggy
<1>2. \A c \in Callers :
        /\ DOMAIN history[c] = HistoryFields
        /\ Requesting(c) /\ http[c].creds \notin accepted => history[c].refused
  BY DEF IInv, Shape, Caller, Heals
<1> QED
  BY <1>1, <1>2, WatchKeeps DEF IInv, Shape

LEMMA NextKeeps ==
  ASSUME IInv, [Next]_vars
  PROVE  IInv'
<1>1. ASSUME NEW c \in Callers, Ask(c) \/ Step(c) \/ KeyLapses(c)
      PROVE  IInv'
  BY <1>1, AskKeeps, StepKeeps, LapseKeeps
<1>2. ASSUME NEW v \in Credentials, Rotate(v)
      PROVE  IInv'
  BY <1>2, RotateKeeps
<1>3. ASSUME NEW r \in Records, Grow(r) \/ Shrink(r)
      PROVE  IInv'
  BY <1>3, CollectionKeeps
<1> QED
  BY <1>1, <1>2, <1>3, StutterKeeps DEF Next

LEMMA InitHolds == Init => IInv
<1> SUFFICES ASSUME Init PROVE IInv
  OBVIOUS
<1>1. ConfigKept
  <2>1. CASE config = NoConfig
    BY <2>1 DEF ConfigKept, NoConfig
  <2>2. CASE \E v \in Credentials : config = [state |-> "enabled", revision |-> 2, creds |-> v]
    BY <2>2 DEF ConfigKept
  <2> QED
    BY <2>1, <2>2 DEF Init
<1>2. Shape
  BY ClosedIs, NothingIs DEF Init, Shape
<1>3. ASSUME NEW c \in Callers
      PROVE  Caller(c)
  <2>1. pc[c] = "idle" /\ http[c] = Closed /\ history[c] = NothingHappened /\ known[c] = config
    BY DEF Init
  <2>2. ~http[c].refreshed /\ http[c].refreshed \in BOOLEAN
    BY <2>1, ClosedIs, Zenon
  <2>3. Phase(c)
    BY <2>1, NothingIs DEF Phase, Requesting
  <2>4. Meter(c)
    <3>1. 1 \in Nat \ {0} /\ 1 <= MaxAttempts
      BY BoundsAssumption
    <3>2. /\ http[c].attempt = 1 /\ history[c].sent = 0 /\ history[c].issued = 0
          /\ pc[c] # "auth" /\ pc[c] # "data"
      BY <2>1, ClosedIs, NothingIs
    <3> QED
      BY <2>2, <3>1, <3>2 DEF Meter
  <2>5. Heals(c)
    BY <2>1, <2>2, ClosedIs, NothingIs DEF Heals, Requesting
  <2>6. Seen(c)
    BY <1>1, <2>1 DEF Seen, ConfigKept
  <2> QED
    BY <2>3, <2>4, <2>5, <2>6 DEF Caller
<1> QED
  BY <1>1, <1>2, <1>3 DEF IInv

\* The inductive invariant holds whatever the administrator, the callers of
\* transport.py and Pluggy do in between.
THEOREM Invariance == Spec => []IInv
<1>1. Init => IInv
  BY InitHolds
<1>2. IInv /\ [Next]_vars => IInv'
  BY NextKeeps
<1> QED
  BY <1>1, <1>2, PTL DEF Spec

-----------------------------------------------------------------------------
(* The properties *)

\* Whatever is lost, barred or lapses, no request of a call costs four rounds of
\* attempts, and a call that goes on holds no connect token of Pluggy's.
THEOREM RequestsAreBoundedHolds == Spec => []RequestsAreBounded
<1>1. IInv => RequestsAreBounded
  <2> SUFFICES ASSUME IInv, NEW c \in Callers
               PROVE  history[c].sent < 4 * MaxAttempts /\ history[c].issued = 0
    BY DEF RequestsAreBounded
  <2>1. Meter(c) /\ Phase(c) /\ MaxAttempts \in Nat \ {0}
    BY BoundsAssumption DEF IInv, Caller
  <2>2. CASE Requesting(c)
    BY <2>1, <2>2 DEF Meter, Requesting
  <2>3. CASE ~Requesting(c)
    BY <2>1, <2>3 DEF Meter, Phase
  <2> QED
    BY <2>2, <2>3
<1> QED
  BY <1>1, Invariance, PTL

\* A call writes the row it was shown, or the first one.
LEMMA WritesSee ==
  ASSUME IInv, NEW c \in Callers, Create(c) \/ Write(c), config' # config
  PROVE  config = known[c] \/ req[c].op = "create"
<1>1. CASE Create(c)
  BY <1>1 DEF Create, IInv, Caller, Phase
<1>2. CASE Write(c)
  BY <1>2 DEF Write, Reply, RevisionHeld, IInv, Caller, Seen
<1> QED
  BY <1>1, <1>2

\* Of the callers, a step ends the call of the one that takes it alone.
LEMMA EndsItself ==
  ASSUME IInv, NEW c \in Callers, NEW d \in Callers, Ended(c),
         \E p : pc' = [pc EXCEPT ![d] = p]
  PROVE  c = d
<1>1. PICK p : pc' = [pc EXCEPT ![d] = p]
  OBVIOUS
<1> QED
  BY <1>1 DEF Ended, IInv, Shape

\* An administrator's write replaces the row that its caller was shown last.
THEOREM WritesBuildOnWhatWasSeenHolds == Spec => WritesBuildOnWhatWasSeen
<1>1. ASSUME IInv, [Next]_vars
      PROVE  [\A c \in Callers :
                (config' # config /\ Ended(c)) =>
                  config = known[c] \/ req[c].op = "create"]_vars
  <2> SUFFICES ASSUME NEW c \in Callers, config' # config, Ended(c)
               PROVE  config = known[c] \/ req[c].op = "create"
    OBVIOUS
  <2>1. PICK d \in Callers : Create(d) \/ Write(d)
    <3>1. Next
      BY <1>1 DEF vars, calling
    <3>2. ASSUME NEW e \in Callers, Step(e)
          PROVE  Create(e) \/ Write(e)
      <4>1. UNCHANGED config \/ Create(e) \/ Write(e)
        BY <3>2 DEF Step, GetConfiguration, Replace, Unavailable, LoadConnection,
          UseEnabledCredentials, Delayed, ErrorAnswered, Undecoded, Authenticate, Rejected,
          Malformed, Mismatched, ItemRead, AccountsRead, TransactionsRead, BillsRead, Issued,
          Page, Retried, Proceed, Continue, Reply, calling
      <4> QED
        BY <4>1
    <3>3. ASSUME NEW e \in Callers, Ask(e) \/ KeyLapses(e)
          PROVE  FALSE
      BY <3>3 DEF Ask, KeyLapses, calling
    <3>4. ~(\E v \in Credentials : Rotate(v)) /\ ~(\E r \in Records : Grow(r) \/ Shrink(r))
      BY DEF Rotate, Grow, Shrink, calling
    <3> QED
      BY <3>1, <3>2, <3>3, <3>4 DEF Next
  <2>2. \E p : pc' = [pc EXCEPT ![d] = p]
    BY <2>1 DEF Create, Write, Show, Reply, Return, ReturnWith
  <2>3. c = d
    BY <1>1, <2>2, EndsItself
  <2> QED
    BY <1>1, <2>1, <2>3, WritesSee
<1> QED
  BY <1>1, Invariance, PTL DEF Spec, WritesBuildOnWhatWasSeen

\* A refusal of Pluggy ends a call only with its reason.
LEMMA RefusalHasReason ==
  ASSUME IInv, NEW c \in Callers, Authenticate(c) \/ Rejected(c), Ended(c)
  PROVE  history[c].refused \/ Aim(c) \in Barred \/ history[c].lapses >= 2
<1>1. Heals(c) /\ DOMAIN pc = Callers
  BY DEF IInv, Caller, Shape
<1>2. CASE Authenticate(c)
  <2>1. pc[c] = "auth" /\ http[c].creds \notin accepted
    BY <1>1, <1>2 DEF Authenticate, Ended
  <2> QED
    BY <1>1, <2>1 DEF Heals, Requesting
<1>3. CASE Rejected(c)
  <2>1. KeyIsDead(c) \/ Aim(c) \in Barred
    BY <1>3 DEF Rejected
  <2>2. http[c].refreshed
    BY <1>1, <1>3 DEF Rejected, MayRefresh, Ended
  <2> QED
    BY <1>1, <2>1, <2>2 DEF Heals, KeyIsDead
<1> QED
  BY <1>2, <1>3

\* The other steps of a call end it with another answer.
LEMMA OthersAnswer ==
  ASSUME NEW c \in Callers, Step(c), DOMAIN answer = Callers, DOMAIN pc = Callers
  PROVE  \/ Authenticate(c) \/ Rejected(c)
         \/ pc'[c] # "idle" \/ pc[c] = "idle"
         \/ answer'[c].kind # "authentication"
<1>1. ASSUME NEW kind \in {"ok", "failed", "conflict"}, NEW records,
             ReturnWith(c, kind, records)
      PROVE  answer'[c].kind # "authentication"
  BY <1>1 DEF ReturnWith
<1>2. ASSUME NEW kind \in {"ok", "failed", "conflict"}, Reply(c, kind)
      PROVE  answer'[c].kind # "authentication"
  BY <1>1, <1>2 DEF Reply, Return
<1>3. ASSUME NEW row, Show(c, row)
      PROVE  answer'[c].kind # "authentication"
  BY <1>1, <1>3 DEF Show, Return
<1>4. CASE Create(c) \/ GetConfiguration(c) \/ Write(c)
  BY <1>2, <1>3, <1>4 DEF Create, GetConfiguration, Write
<1>5. CASE Replace(c) \/ Unavailable(c) \/ LoadConnection(c) \/ UseEnabledCredentials(c)
  BY <1>2, <1>5 DEF Replace, Unavailable, LoadConnection, UseEnabledCredentials
<1>6. CASE Delayed(c) \/ ErrorAnswered(c) \/ Undecoded(c) \/ Malformed(c) \/ Mismatched(c)
  BY <1>2, <1>6 DEF Delayed, ErrorAnswered, Undecoded, Malformed, Mismatched, Retried
<1>7. CASE ItemRead(c) \/ AccountsRead(c) \/ TransactionsRead(c) \/ BillsRead(c) \/ Issued(c)
  BY <1>2, <1>7 DEF ItemRead, AccountsRead, TransactionsRead, BillsRead, Issued, Proceed,
    Continue, Retried
<1>8. CASE Page(c)
  <2>1. \/ Reply(c, "ok") \/ Reply(c, "failed")
        \/ (\E records : ReturnWith(c, "ok", records))
        \/ UNCHANGED pc
    BY <1>8, Zenon DEF Page, Continue
  <2> QED
    BY <1>1, <1>2, <2>1
<1> QED
  BY <1>4, <1>5, <1>6, <1>7, <1>8 DEF Step

\* A call ends by a step of its own.
LEMMA EndedSteps ==
  ASSUME IInv, [Next]_vars, NEW c \in Callers, Ended(c)
  PROVE  Step(c)
<1>1. ~UNCHANGED pc
  BY DEF Ended
<1>2. PICK d \in Callers : Ask(d) \/ Step(d)
  BY <1>1 DEF Next, vars, KeyLapses, Rotate, Grow, Shrink
<1>3. CASE Ask(d)
  <2>1. c = d
    BY <1>3, EndsItself DEF Ask
  <2> QED
    BY <1>3, <2>1 DEF Ask, Ended
<1>4. CASE Step(d)
  <2>1. \E p : pc' = [pc EXCEPT ![d] = p]
    BY <1>1, <1>4 DEF Step, Create, GetConfiguration, Replace, Write, Unavailable,
      LoadConnection, UseEnabledCredentials, Delayed, ErrorAnswered, Undecoded,
      Authenticate, Rejected, Malformed, Mismatched, ItemRead, AccountsRead,
      TransactionsRead, BillsRead, Issued, Page, Retried, Proceed, Continue, Show,
      Reply, Return, ReturnWith
  <2> QED
    BY <1>4, <2>1, EndsItself
<1> QED
  BY <1>2, <1>3, <1>4

\* A call that fails for its authentication had its credentials refused, asked for
\* what is barred, or lost two keys under one request.
THEOREM OneLapseIsHealedHolds == Spec => OneLapseIsHealed
<1>1. ASSUME IInv, [Next]_vars
      PROVE  [\A c \in Callers :
                (Ended(c) /\ answer'[c].kind = "authentication") =>
                  history[c].refused \/ Aim(c) \in Barred \/ history[c].lapses >= 2]_vars
  <2> SUFFICES ASSUME NEW c \in Callers, Ended(c), answer'[c].kind = "authentication"
               PROVE  history[c].refused \/ Aim(c) \in Barred \/ history[c].lapses >= 2
    OBVIOUS
  <2>1. Step(c)
    BY <1>1, EndedSteps
  <2>2. Authenticate(c) \/ Rejected(c)
    BY <1>1, <2>1, OthersAnswer DEF Ended, IInv, Shape
  <2> QED
    BY <1>1, <2>2, RefusalHasReason
<1> QED
  BY <1>1, Invariance, PTL DEF Spec, OneLapseIsHealed

-----------------------------------------------------------------------------
(* Lists in order *)

\* What fails for a finite set fails for one of which every smaller part is well.
LEMMA LeastFailure ==
  ASSUME NEW S, IsFiniteSet(S), NEW Bad, Bad \subseteq SUBSET S, Bad # {}
  PROVE  \E T \in Bad : IsFiniteSet(T) /\ \A U \in Bad : U \subseteq T => U = T
<1> DEFINE R == StrictSubsetOrdering(S)
<1>1. SUBSET S = FiniteSubsetsOf(S)
  BY FS_FiniteSubsetsOfFinite
<1>2. IsWellFoundedOn(R, SUBSET S)
  BY <1>1, FS_StrictSubsetOrderingWellFounded
<1> HIDE DEF R
<1>3. PICK T \in Bad : \A U \in Bad : ~(<<U, T>> \in R)
  BY <1>2, WFMin
<1>4. ASSUME NEW U \in Bad, U \subseteq T
      PROVE  U = T
  <2>1. ~(<<U, T>> \in StrictSubsetOrdering(S))
    BY <1>3, <1>4 DEF R
  <2>2. U \in SUBSET S /\ T \in SUBSET S
    OBVIOUS
  <2> QED
    BY <1>4, <2>1, <2>2 DEF StrictSubsetOrdering
<1>5. IsFiniteSet(T)
  BY FS_Subset
<1> QED
  BY <1>4, <1>5

LEMMA GreatestExists ==
  ASSUME NEW S, IsFiniteSet(S)
  PROVE  S \subseteq Nat /\ S # {} => \E m \in S : \A n \in S : n <= m
<1> DEFINE Bad == {s \in SUBSET S : /\ s \subseteq Nat /\ s # {}
                                   /\ ~ \E m \in s : \A n \in s : n <= m}
<1>1. ASSUME Bad # {}
      PROVE  \E T \in Bad : IsFiniteSet(T) /\ \A U \in Bad : U \subseteq T => U = T
  <2>1. Bad \subseteq SUBSET S /\ IsFiniteSet(S)
    OBVIOUS
  <2> HIDE DEF Bad
  <2> QED
    BY <1>1, <2>1, LeastFailure
<1>2. ASSUME Bad # {}
      PROVE  FALSE
  <2>1. PICK T \in Bad : T \subseteq Nat /\ \A U \in Bad : U \subseteq T => U = T
    BY <1>1, <1>2
  <2>2. PICK r \in T : TRUE
    OBVIOUS
  <2>3. T \ {r} \notin Bad /\ T \ {r} \in SUBSET S
    BY <2>1, <2>2
  <2>4. CASE T \ {r} = {}
    <3>1. \A n \in T : n <= r
      BY <2>2, <2>4
    <3> QED
      BY <2>2, <3>1
  <2>5. CASE T \ {r} # {}
    <3>1. PICK m \in T \ {r} : \A n \in T \ {r} : n <= m
      BY <2>3, <2>5
    <3>2. m \in Nat /\ r \in Nat /\ T \subseteq Nat
      BY <2>2, <3>1
    <3>3. CASE r <= m
      <4>1. \A n \in T : n <= m
        BY <3>1, <3>3
      <4> QED
        BY <3>1, <4>1
    <3>4. CASE m <= r
      <4>1. \A n \in T : n <= r
        BY <3>1, <3>2, <3>4
      <4> QED
        BY <2>2, <4>1
    <3> QED
      BY <3>2, <3>3, <3>4
  <2> QED
    BY <2>4, <2>5
<1> QED
  BY <1>2

Increasing(list, R) ==
  /\ list \in [1..Cardinality(R) -> R]
  /\ \A i, j \in DOMAIN list : i < j => list[i] < list[j]

LEMMA SortedExists ==
  ASSUME NEW S, IsFiniteSet(S)
  PROVE  S \subseteq Nat => \E list : Increasing(list, S)
<1> DEFINE Bad == {s \in SUBSET S : s \subseteq Nat /\ ~ \E list : Increasing(list, s)}
<1>1. ASSUME Bad # {}
      PROVE  \E T \in Bad : IsFiniteSet(T) /\ \A U \in Bad : U \subseteq T => U = T
  <2>1. Bad \subseteq SUBSET S /\ IsFiniteSet(S)
    OBVIOUS
  <2> HIDE DEF Bad
  <2> QED
    BY <1>1, <2>1, LeastFailure
<1>2. ASSUME Bad # {}
      PROVE  FALSE
  <2>1. PICK T \in Bad : T \subseteq Nat /\ IsFiniteSet(T) /\ \A U \in Bad : U \subseteq T => U = T
    BY <1>1, <1>2
  <2>2. CASE T = {}
    <3> DEFINE f == [i \in 1..0 |-> i]
    <3>1. f \in [1..0 -> {}] /\ \A i, j \in DOMAIN f : i < j => f[i] < f[j]
      OBVIOUS
    <3>2. Increasing(f, T)
      BY <2>2, <3>1, FS_EmptySet DEF Increasing
    <3> QED
      BY <3>2
  <2>3. CASE T # {}
    <3>1. PICK m \in T : \A n \in T : n <= m
      BY <2>1, <2>3, GreatestExists
    <3>2. T \ {m} \notin Bad /\ T \ {m} \in SUBSET S
      BY <2>1, <3>1
    <3>3. PICK g : Increasing(g, T \ {m})
      BY <3>2
    <3>4. PICK k \in Nat : Cardinality(T \ {m}) = k /\ Cardinality(T) = k + 1
      <4>1. IsFiniteSet(T \ {m}) /\ Cardinality(T \ {m}) = Cardinality(T) - 1
        BY <2>1, <3>1, FS_RemoveElement
      <4>2. Cardinality(T) \in Nat /\ Cardinality(T \ {m}) \in Nat
        BY <2>1, <4>1, FS_CardinalityType
      <4> QED
        BY <4>1, <4>2
    <3>5. /\ g \in [1..k -> T \ {m}]
          /\ \A i, j \in 1..k : i < j => g[i] < g[j]
      BY <3>3, <3>4 DEF Increasing
    <3> DEFINE f == [i \in 1..(k + 1) |-> IF i = k + 1 THEN m ELSE g[i]]
    <3>6. f \in [1..(k + 1) -> T]
      BY <3>1, <3>5
    <3>7. ASSUME NEW i \in 1..(k + 1), NEW j \in 1..(k + 1), i < j
          PROVE  f[i] < f[j]
      <4>1. i \in 1..k /\ f[i] = g[i] /\ g[i] \in T \ {m}
        BY <3>5, <3>7
      <4>2. g[i] < m
        <5>1. g[i] \in Nat /\ m \in Nat /\ g[i] <= m /\ g[i] # m
          BY <2>1, <3>1, <4>1
        <5> QED
          BY <5>1
      <4>3. CASE j = k + 1
        BY <4>1, <4>2, <4>3
      <4>4. CASE j \in 1..k
        BY <3>5, <3>7, <4>1, <4>4
      <4> QED
        BY <4>3, <4>4
    <3>8. DOMAIN f = 1..(k + 1)
      OBVIOUS
    <3> HIDE DEF f
    <3>9. Increasing(f, T)
      BY <3>4, <3>6, <3>7, <3>8 DEF Increasing
    <3> QED
      BY <3>9
  <2> QED
    BY <2>2, <2>3
<1>3. S \notin Bad
  BY <1>2
<1> QED
  BY <1>3

\* The list of a finite set of numbers has each of them once.
LEMMA SortedIs ==
  ASSUME NEW S \in SUBSET Nat, IsFiniteSet(S), NEW list, list = Sorted(S)
  PROVE  /\ list \in Seq(S) /\ Len(list) = Cardinality(S) /\ Cardinality(S) \in Nat
         /\ ToSet(list) = S
<1>1. Cardinality(S) \in Nat
  BY FS_CardinalityType
<1>2. PICK k \in Nat : k = Cardinality(S)
  BY <1>1
<1>3. list \in [1..k -> S] /\ \A i, j \in DOMAIN list : i < j => list[i] < list[j]
  <2>1. \E f \in [1..k -> S] : \A i, j \in DOMAIN f : i < j => f[i] < f[j]
    BY <1>2, SortedExists DEF Increasing
  <2> QED
    BY <1>2, <2>1 DEF Sorted
<1>4. list \in Seq(S) /\ Len(list) = k
  BY <1>3
<1> DEFINE range == {list[i] : i \in 1..k}
<1>5. range \in SUBSET S
  BY <1>3
<1>6. \A i, j \in 1..k : i # j => list[i] # list[j]
  <2> SUFFICES ASSUME NEW i \in 1..k, NEW j \in 1..k, i < j
               PROVE  list[i] # list[j]
    OBVIOUS
  <2>1. list[i] < list[j] /\ list[i] \in Nat /\ list[j] \in Nat
    BY <1>3
  <2> QED
    BY <2>1
<1>7. list \in Bijection(1..k, range)
  BY <1>3, <1>6 DEF Bijection, Injection, Surjection, IsInjective
<1> HIDE DEF range
<1>8. ExistsBijection(1..k, range)
  BY <1>7 DEF ExistsBijection
<1>9. Cardinality(range) = k
  BY <1>8, FS_CountingElements
<1>10. S = range
  BY <1>2, <1>5, <1>9, FS_Subset
<1>11. ToSet(list) = range
  BY <1>3 DEF ToSet, range
<1> QED
  BY <1>1, <1>2, <1>4, <1>10, <1>11, Zenon

LEMMA Division ==
  ASSUME NEW a \in Nat, NEW b \in Nat \ {0}
  PROVE  /\ a \div b \in Nat /\ (a \div b) * b <= a /\ a < (a \div b) * b + b
OBVIOUS

LEMMA Multiples ==
  ASSUME NEW a \in Nat, NEW b \in Nat, NEW s \in Nat
  PROVE  /\ a * s \in Nat /\ (a + b) * s = a * s + b * s /\ (a + 1) * s = a * s + s
OBVIOUS

LEMMA LastPage ==
  ASSUME NEW total \in Nat, NEW page \in Nat \ {0}
  PROVE  /\ page * PageSize \in Nat /\ (page - 1) * PageSize \in Nat
         /\ page * PageSize = (page - 1) * PageSize + PageSize
         /\ page < PagesOf(total) => page * PageSize < total
         /\ page = PagesOf(total) => page * PageSize >= total
<1>1. PageSize \in Nat \ {0}
  BY BoundsAssumption
<1>2. PICK s, q : s \in Nat \ {0} /\ s = PageSize /\ q = PagesOf(total)
  BY <1>1
<1>3. q \in Nat /\ q * s <= total + s - 1 /\ total + s - 1 < q * s + s
  <2>1. total + s - 1 \in Nat
    BY <1>2
  <2> QED
    BY <1>2, <2>1, Division DEF PagesOf
<1>4. page * s \in Nat /\ (page - 1) * s \in Nat /\ page * s = (page - 1) * s + s
  <2>1. PICK p \in Nat : p = page - 1
    OBVIOUS
  <2> QED
    BY <1>2, <2>1, Multiples
<1>5. ASSUME page < q
      PROVE  page * s < total
  <2>1. PICK d \in Nat : q = page + 1 + d
    BY <1>3, <1>5
  <2>2. q * s = page * s + s + d * s /\ d * s \in Nat /\ q * s \in Nat
    <3>1. page + 1 \in Nat /\ s \in Nat /\ q = (page + 1) + d
      BY <1>2, <2>1
    <3>2. q * s = (page + 1) * s + d * s /\ (page + 1) * s = page * s + s
      BY <3>1, Multiples
    <3> QED
      BY <3>1, <3>2, Multiples
  <2>3. s \in Nat
    BY <1>2
  <2> QED
    BY <1>3, <1>4, <2>2, <2>3
<1>6. page = q => page * s >= total
  <2>1. s \in Nat
    BY <1>2
  <2> QED
    BY <1>3, <1>4, <2>1
<1> QED
  BY <1>2, <1>4, <1>5, <1>6

\* What the first pages of a list hold, and what the next one adds.
LEMMA NextPage ==
  ASSUME NEW S, NEW list \in Seq(S), NEW total, total = Len(list),
         NEW page \in Nat \ {0}, (page - 1) * PageSize < total,
         NEW all, all = SubSeq(list, 1, (page - 1) * PageSize) \o PageOf(list, page)
  PROVE  /\ page < PagesOf(total) =>
              page * PageSize < total /\ all = SubSeq(list, 1, page * PageSize)
         /\ page = PagesOf(total) => all = list
<1>1. total \in Nat
  OBVIOUS
<1>2. PICK m, n :
        /\ m = (page - 1) * PageSize /\ n = page * PageSize
        /\ m \in Nat /\ n \in Nat /\ n = m + PageSize
        /\ page < PagesOf(total) => n < total
        /\ page = PagesOf(total) => n >= total
  BY <1>1, LastPage
<1>3. PICK k \in Nat : k = (IF n < total THEN n ELSE total) /\ m <= k /\ k <= total
  <2>1. PageSize \in Nat
    BY BoundsAssumption
  <2>2. m < total
    BY <1>2
  <2> QED
    BY <1>1, <1>2, <2>1, <2>2
<1>4. all = SubSeq(list, 1, m) \o SubSeq(list, m + 1, k)
  BY <1>2, <1>3 DEF PageOf
<1>5. all = SubSeq(list, 1, k)
  <2>1. 1 \in 1..(Len(list) + 1) /\ m \in (1 - 1)..Len(list) /\ k \in m..Len(list)
    BY <1>1, <1>2, <1>3
  <2> QED
    BY <1>4, <2>1, ConcatAdjacentSubSeq
<1>6. SubSeq(list, 1, Len(list)) = list
  BY SubSeqFull
<1> QED
  BY <1>1, <1>2, <1>3, <1>5, <1>6, SMT

-----------------------------------------------------------------------------
(* What a collection was while it was read *)

BothWays(c) == {"grew", "shrank"} \subseteq history[c].moved

\* What is held now has been noted, and what was held differs from it in the
\* directions that were noted.
Witnessed(c) ==
  /\ holdings \in history[c].held
  /\ \A H \in history[c].held : H \subseteq Nat /\ IsFiniteSet(H)
  /\ history[c].moved \subseteq {"grew", "shrank"}
  /\ "shrank" \notin history[c].moved => \A H \in history[c].held : H \subseteq holdings
  /\ "grew" \notin history[c].moved => \A H \in history[c].held : holdings \subseteq H

\* The records fetched are the first pages of one thing that was held, unless it
\* moved both ways.
Fetched(c) ==
  /\ http[c].page \in Nat \ {0} /\ (http[c].page = 1 => http[c].records = <<>>)
  /\ Requesting(c) => http[c].todo = <<"collection">>
  /\ http[c].page > 1 /\ ~BothWays(c) =>
       \E H \in history[c].held :
         /\ http[c].total = Cardinality(H) /\ (http[c].page - 1) * PageSize < http[c].total
         /\ http[c].records = SubSeq(Sorted(H), 1, (http[c].page - 1) * PageSize)

Collecting(c) ==
  IF req[c].op = "collection"
  THEN /\ pc[c] \in {"connection", "credentials", "auth", "data"}
       /\ Witnessed(c) /\ Fetched(c)
  ELSE history[c].moved = {}

CollectInv ==
  /\ holdings \subseteq Nat /\ IsFiniteSet(holdings)
  /\ \A c \in Callers : Collecting(c)

LEMMA OneCollects ==
  ASSUME CollectInv, NEW c \in Callers, UNCHANGED holdings, Collecting(c)',
         \A d \in Callers \ {c} :
           pc'[d] = pc[d] /\ req'[d] = req[d] /\ http'[d] = http[d] /\ history'[d] = history[d]
  PROVE  CollectInv'
<1>1. ASSUME NEW d \in Callers \ {c}
      PROVE  Collecting(d)'
  <2>1. /\ Collecting(d) /\ pc'[d] = pc[d] /\ req'[d] = req[d]
        /\ http'[d] = http[d] /\ history'[d] = history[d]
    BY DEF CollectInv
  <2>2. Witnessed(d)' <=> Witnessed(d)
    BY <2>1 DEF Witnessed
  <2>3. Fetched(d)' <=> Fetched(d)
    BY <2>1 DEF Fetched, Requesting, BothWays
  <2> QED
    BY <2>1, <2>2, <2>3 DEF Collecting
<1> QED
  BY <1>1 DEF CollectInv

LEMMA ReturnCollects ==
  ASSUME IInv, CollectInv, NEW c \in Callers, NEW kind, NEW records,
         ReturnWith(c, kind, records)
  PROVE  CollectInv'
<1>1. /\ UNCHANGED holdings /\ req'[c] = NoCall /\ history'[c] = NothingHappened
      /\ \A d \in Callers \ {c} :
           pc'[d] = pc[d] /\ req'[d] = req[d] /\ http'[d] = http[d] /\ history'[d] = history[d]
  BY DEF ReturnWith, IInv, Shape, pluggy
<1>2. NoCall.op # "collection" /\ NothingHappened.moved = {}
  BY DEF NoCall, Call, NothingHappened
<1>3. Collecting(c)'
  BY <1>1, <1>2 DEF Collecting
<1> QED
  BY <1>1, <1>3, OneCollects

\* A step that fetches nothing.
Fetchless(c) ==
  /\ UNCHANGED <<holdings, req>>
  /\ pc'[c] \in {"write", "connection", "credentials", "auth", "data"}
  /\ history'[c].held = history[c].held /\ history'[c].moved = history[c].moved
  /\ \A d \in Callers \ {c} :
       pc'[d] = pc[d] /\ http'[d] = http[d] /\ history'[d] = history[d]
  /\ req[c].op = "collection" =>
       /\ pc'[c] # "write"
       /\ http'[c].page = http[c].page /\ http'[c].total = http[c].total
       /\ http'[c].records = http[c].records
       /\ Requesting(c)' => http'[c].todo = <<"collection">>

LEMMA FetchlessCollects ==
  ASSUME CollectInv, NEW c \in Callers, Fetchless(c)
  PROVE  CollectInv'
<1>1. CASE req[c].op = "collection"
  <2>1. Witnessed(c) /\ Fetched(c)
    BY <1>1 DEF CollectInv, Collecting
  <2>2. Witnessed(c)'
    BY <2>1 DEF Witnessed, Fetchless
  <2>3. Fetched(c)'
    BY <1>1, <2>1 DEF Fetched, Fetchless, BothWays
  <2>4. Collecting(c)'
    BY <1>1, <2>2, <2>3 DEF Collecting, Fetchless
  <2> QED
    BY <2>4, OneCollects DEF Fetchless
<1>2. CASE req[c].op # "collection"
  <2>1. Collecting(c)'
    BY <1>2 DEF CollectInv, Collecting, Fetchless
  <2> QED
    BY <2>1, OneCollects DEF Fetchless
<1> QED
  BY <1>1, <1>2

LEMMA ReplyCollects ==
  ASSUME IInv, CollectInv, NEW c \in Callers, NEW kind, Reply(c, kind)
  PROVE  CollectInv'
BY ReturnCollects DEF Reply, Return

LEMMA ShowCollects ==
  ASSUME IInv, CollectInv, NEW c \in Callers, NEW row, Show(c, row)
  PROVE  CollectInv'
<1>1. PICK kind : ReturnWith(c, kind, {})
  BY DEF Show, Return
<1> QED
  BY <1>1, ReturnCollects

LEMMA AskCollects ==
  ASSUME IInv, CollectInv, NEW c \in Callers, Ask(c)
  PROVE  CollectInv'
<1>1. PICK r \in Requests : req' = [req EXCEPT ![c] = r] /\ pc' = [pc EXCEPT ![c] = First(r.op)]
  BY DEF Ask
<1>2. /\ pc[c] = "idle" /\ UNCHANGED <<holdings, http>>
      /\ history' = [history EXCEPT ![c].held = IF req'[c].op = "collection" THEN {holdings}
                                                ELSE {}]
  BY DEF Ask, pluggy
<1>3. /\ DOMAIN history = Callers /\ DOMAIN history[c] = HistoryFields
      /\ DOMAIN pc = Callers /\ DOMAIN req = Callers
  BY DEF IInv, Shape
<1>4. http[c] = Closed /\ history[c].moved = {}
  BY <1>2 DEF IInv, Caller, Phase, Requesting, CollectInv, Collecting
<1>5. /\ req'[c] = r /\ pc'[c] = First(r.op) /\ http'[c] = Closed /\ history'[c].moved = {}
      /\ r.op = "collection" => history'[c].held = {holdings}
      /\ \A d \in Callers \ {c} :
           pc'[d] = pc[d] /\ req'[d] = req[d] /\ http'[d] = http[d] /\ history'[d] = history[d]
  BY <1>1, <1>2, <1>3, <1>4 DEF HistoryFields
<1>6. Collecting(c)'
  <2>1. CASE r.op = "collection"
    <3>1. First(r.op) = "connection"
      BY <2>1 DEF First, Plan
    <3>2. Witnessed(c)'
      BY <1>2, <1>5, <2>1 DEF Witnessed, CollectInv
    <3>3. Closed.page = 1 /\ Closed.records = <<>>
      BY DEF Closed
    <3>4. Fetched(c)'
      BY <1>5, <3>1, <3>3 DEF Fetched, Requesting
    <3> QED
      BY <1>5, <3>1, <3>2, <3>4 DEF Collecting
  <2>2. CASE r.op # "collection"
    BY <1>5, <2>2 DEF Collecting
  <2> QED
    BY <2>1, <2>2
<1> QED
  BY <1>2, <1>5, <1>6, OneCollects

\* The steps in the database, before Pluggy is asked.
LEMMA DatabaseCollects ==
  ASSUME IInv, CollectInv, NEW c \in Callers,
         Create(c) \/ GetConfiguration(c) \/ Replace(c) \/ Write(c) \/ Unavailable(c)
           \/ LoadConnection(c) \/ UseEnabledCredentials(c)
  PROVE  CollectInv'
<1>1. CASE (\E kind : Reply(c, kind)) \/ (\E row : Show(c, row))
  BY <1>1, ReplyCollects, ShowCollects
<1>2. CASE /\ pc[c] \in {"replace", "connection"}
           /\ pc' = [pc EXCEPT ![c] = IF pc[c] = "replace" THEN "write" ELSE "credentials"]
           /\ UNCHANGED <<calling, pluggy, req, http, answer, history>>
  <2>1. DOMAIN pc = Callers
    BY DEF IInv, Shape
  <2>2. req[c].op = "collection" => pc[c] # "replace"
    BY DEF CollectInv, Collecting
  <2>3. Fetchless(c)
    BY <1>2, <2>1, <2>2 DEF Fetchless, pluggy, Requesting
  <2> QED
    BY <2>3, FetchlessCollects
<1>3. CASE /\ pc[c] = "credentials" /\ pc' = [pc EXCEPT ![c] = "auth"]
           /\ http' = [http EXCEPT ![c] = [Closed EXCEPT !.todo = Plan[req[c].op],
                                                         !.creds = config.creds]]
           /\ history' = [history EXCEPT ![c].refused = config.creds \notin accepted]
           /\ UNCHANGED <<calling, pluggy, req, answer>>
  <2>1. /\ DOMAIN pc = Callers /\ DOMAIN http = Callers /\ DOMAIN history = Callers
        /\ DOMAIN history[c] = HistoryFields
    BY DEF IInv, Shape
  <2>2. http[c] = Closed
    BY <1>3 DEF IInv, Caller, Phase, Requesting
  <2>3. /\ DOMAIN Closed = TransportFields /\ Plan["collection"] = <<"collection">>
    BY ClosedIs DEF Plan
  <2>4. /\ http'[c].page = http[c].page /\ http'[c].total = http[c].total
        /\ http'[c].records = http[c].records /\ http'[c].todo = Plan[req[c].op]
    BY <1>3, <2>1, <2>2, <2>3 DEF TransportFields
  <2>5. history'[c].held = history[c].held /\ history'[c].moved = history[c].moved
    BY <1>3, <2>1 DEF HistoryFields
  <2>6. /\ UNCHANGED <<holdings, req>> /\ pc'[c] = "auth"
        /\ \A d \in Callers \ {c} :
             pc'[d] = pc[d] /\ http'[d] = http[d] /\ history'[d] = history[d]
    BY <1>3, <2>1 DEF pluggy
  <2>7. Fetchless(c)
    BY <2>3, <2>4, <2>5, <2>6 DEF Fetchless
  <2> QED
    BY <2>7, FetchlessCollects
<1>4. CASE Create(c) \/ GetConfiguration(c) \/ Write(c) \/ Unavailable(c)
  BY <1>1, <1>4 DEF Create, GetConfiguration, Write, Unavailable
<1>5. CASE Replace(c) \/ LoadConnection(c) \/ UseEnabledCredentials(c)
  BY <1>1, <1>2, <1>3, <1>5 DEF Replace, LoadConnection, UseEnabledCredentials
<1> QED
  BY <1>4, <1>5

\* A request that is tried again, its key, and the refresh of the key.
Repeats(c, t, p) ==
  /\ UNCHANGED <<holdings, req>>
  /\ http'[c] = t /\ pc'[c] = p /\ p \in {"auth", "data"}
  /\ t.page = http[c].page /\ t.total = http[c].total
  /\ t.records = http[c].records /\ t.todo = http[c].todo
  /\ history'[c].held = history[c].held /\ history'[c].moved = history[c].moved
  /\ \A d \in Callers \ {c} :
       pc'[d] = pc[d] /\ http'[d] = http[d] /\ history'[d] = history[d]

LEMMA RepeatCollects ==
  ASSUME IInv, CollectInv, NEW c \in Callers, Requesting(c), NEW t, NEW p, Repeats(c, t, p)
  PROVE  CollectInv'
<1>1. req[c].op = "collection" => http[c].todo = <<"collection">>
  BY DEF CollectInv, Collecting, Fetched
<1>2. Fetchless(c)
  BY <1>1 DEF Fetchless, Repeats
<1> QED
  BY <1>2, FetchlessCollects

LEMMA RetryCollects ==
  ASSUME IInv, CollectInv, NEW c \in Callers, Requesting(c), NEW issued, Retried(c, issued)
  PROVE  CollectInv'
<1>1. CASE Reply(c, "failed")
  BY <1>1, ReplyCollects
<1>2. CASE /\ http' = [http EXCEPT ![c].attempt = @ + 1]
           /\ history' = [history EXCEPT ![c].issued = @ + issued, ![c].sent = @ + 1]
           /\ UNCHANGED <<calling, pluggy, pc, req, answer>>
  <2>1. /\ DOMAIN pc = Callers /\ DOMAIN http = Callers /\ DOMAIN history = Callers
        /\ DOMAIN history[c] = HistoryFields /\ DOMAIN http[c] = TransportFields
    BY DEF IInv, Shape
  <2>2. PICK t : t = [http[c] EXCEPT !.attempt = http[c].attempt + 1]
    OBVIOUS
  <2>3. /\ http'[c] = t /\ UNCHANGED <<pc, req, holdings>>
        /\ \A d \in Callers \ {c} : http'[d] = http[d]
    BY <1>2, <2>1, <2>2 DEF pluggy
  <2>4. t.page = http[c].page /\ t.total = http[c].total /\ t.records = http[c].records
        /\ t.todo = http[c].todo
    BY <2>1, <2>2 DEF TransportFields
  <2>5. /\ history'[c].held = history[c].held /\ history'[c].moved = history[c].moved
        /\ \A d \in Callers \ {c} : history'[d] = history[d]
    BY <1>2, <2>1 DEF HistoryFields
  <2>6. Repeats(c, t, pc[c])
    BY <2>3, <2>4, <2>5 DEF Repeats, Requesting
  <2> QED
    BY <2>6, RepeatCollects
<1> QED
  BY <1>1, <1>2 DEF Retried

LEMMA KeyCollects ==
  ASSUME IInv, CollectInv, NEW c \in Callers, Authenticate(c) \/ Rejected(c)
  PROVE  CollectInv'
<1>1. CASE \E kind : Reply(c, kind)
  BY <1>1, ReplyCollects
<1>2. ASSUME NEW t, NEW p,
             \/ t = [http[c] EXCEPT !.key = "live", !.attempt = 1] /\ p = "data"
             \/ t = Refreshed(c) /\ p = "auth",
             http' = [http EXCEPT ![c] = t], pc' = [pc EXCEPT ![c] = p],
             history' = [history EXCEPT ![c].sent = @ + 1], Requesting(c),
             UNCHANGED <<calling, pluggy, req, answer>>
      PROVE  CollectInv'
  <2>1. /\ DOMAIN history = Callers
        /\ DOMAIN history[c] = HistoryFields /\ DOMAIN http[c] = TransportFields
    BY DEF IInv, Shape
  <2>2. t.page = http[c].page /\ t.total = http[c].total /\ t.records = http[c].records
        /\ t.todo = http[c].todo
    BY <1>2, <2>1 DEF TransportFields, Refreshed
  <2>3. /\ history'[c].held = history[c].held /\ history'[c].moved = history[c].moved
        /\ \A d \in Callers \ {c} : history'[d] = history[d]
    BY <1>2, <2>1 DEF HistoryFields
  <2>4. /\ http'[c] = t /\ pc'[c] = p /\ p \in {"auth", "data"}
        /\ UNCHANGED <<req, holdings>>
        /\ \A d \in Callers \ {c} : http'[d] = http[d] /\ pc'[d] = pc[d]
    BY <1>2 DEF pluggy, IInv, Shape
  <2>5. Repeats(c, t, p)
    BY <2>2, <2>3, <2>4 DEF Repeats
  <2> QED
    BY <1>2, <2>5, RepeatCollects
<1>3. CASE Authenticate(c)
  <2>1. PICK t : t = [http[c] EXCEPT !.key = "live", !.attempt = 1]
    OBVIOUS
  <2>2. DOMAIN http = Callers
    BY DEF IInv, Shape
  <2>3. \/ Reply(c, "authentication")
        \/ /\ http' = [http EXCEPT ![c] = t] /\ pc' = [pc EXCEPT ![c] = "data"]
           /\ history' = [history EXCEPT ![c].sent = @ + 1]
           /\ UNCHANGED <<calling, pluggy, req, answer>>
    BY <1>3, <2>1, <2>2 DEF Authenticate
  <2> QED
    BY <1>1, <1>2, <1>3, <2>1, <2>3 DEF Authenticate, Requesting
<1>4. CASE Rejected(c)
  <2>1. \/ Reply(c, "authentication")
        \/ /\ http' = [http EXCEPT ![c] = Refreshed(c)] /\ pc' = [pc EXCEPT ![c] = "auth"]
           /\ history' = [history EXCEPT ![c].sent = @ + 1]
           /\ UNCHANGED <<calling, pluggy, req, answer>>
    BY <1>4 DEF Rejected
  <2> QED
    BY <1>1, <1>2, <1>4, <2>1 DEF Rejected, Requesting
<1> QED
  BY <1>3, <1>4

LEMMA LapseCollects ==
  ASSUME IInv, CollectInv, NEW c \in Callers, KeyLapses(c)
  PROVE  CollectInv'
<1>1. Requesting(c)
  BY ClosedIs DEF KeyLapses, IInv, Caller, Phase
<1>2. PICK t : t = [http[c] EXCEPT !.key = "dead"]
  OBVIOUS
<1>3. /\ DOMAIN pc = Callers /\ DOMAIN http = Callers /\ DOMAIN history = Callers
      /\ DOMAIN history[c] = HistoryFields /\ DOMAIN http[c] = TransportFields
  BY DEF IInv, Shape
<1>4. /\ http'[c] = t /\ UNCHANGED <<pc, req, holdings>>
      /\ \A d \in Callers \ {c} : http'[d] = http[d]
  BY <1>2, <1>3 DEF KeyLapses
<1>5. t.page = http[c].page /\ t.total = http[c].total /\ t.records = http[c].records
      /\ t.todo = http[c].todo
  BY <1>2, <1>3 DEF TransportFields
<1>6. /\ history'[c].held = history[c].held /\ history'[c].moved = history[c].moved
      /\ \A d \in Callers \ {c} : history'[d] = history[d]
  BY <1>3 DEF HistoryFields, KeyLapses
<1>7. Repeats(c, t, pc[c])
  BY <1>1, <1>4, <1>5, <1>6 DEF Repeats, Requesting
<1> QED
  BY <1>1, <1>7, RepeatCollects

\* What a call does not fetch but another one.
LEMMA ContinueCollects ==
  ASSUME IInv, CollectInv, NEW c \in Callers, NEW t, pc[c] = "data", Continue(c, t),
         req[c].op # "collection"
  PROVE  CollectInv'
<1>1. /\ DOMAIN http = Callers /\ DOMAIN history = Callers /\ DOMAIN history[c] = HistoryFields
  BY DEF IInv, Shape
<1>2. /\ UNCHANGED <<pc, req, holdings>>
      /\ history'[c].held = history[c].held /\ history'[c].moved = history[c].moved
      /\ \A d \in Callers \ {c} : http'[d] = http[d] /\ history'[d] = history[d]
  BY <1>1 DEF Continue, pluggy, HistoryFields
<1>3. Fetchless(c)
  BY <1>2 DEF Fetchless
<1> QED
  BY <1>3, FetchlessCollects

LEMMA AnswersCollect ==
  ASSUME IInv, CollectInv, NEW c \in Callers,
         Delayed(c) \/ ErrorAnswered(c) \/ Undecoded(c) \/ Malformed(c) \/ Mismatched(c)
           \/ ItemRead(c) \/ AccountsRead(c) \/ TransactionsRead(c) \/ BillsRead(c) \/ Issued(c)
  PROVE  CollectInv'
<1>1. ASSUME NEW aim \in {"item", "accounts", "transactions", "bills", "token"}, Answered(c, aim)
      PROVE  req[c].op # "collection" /\ pc[c] = "data"
  <2>1. pc[c] = "data" /\ Head(http[c].todo) = aim
    BY <1>1 DEF Answered, Aim
  <2>2. req[c].op = "collection" => http[c].todo = <<"collection">>
    BY <2>1 DEF CollectInv, Collecting, Fetched, Requesting
  <2>3. Head(<<"collection">>) = "collection"
    OBVIOUS
  <2> QED
    BY <2>1, <2>2, <2>3
<1>2. ASSUME NEW aim \in {"item", "accounts", "transactions", "bills"}, Answered(c, aim),
             Proceed(c)
      PROVE  CollectInv'
  <2>1. PICK t : Reply(c, "ok") \/ Continue(c, t)
    BY <1>2 DEF Proceed
  <2>2. req[c].op # "collection" /\ pc[c] = "data"
    BY <1>1, <1>2
  <2> QED
    BY <2>1, <2>2, ReplyCollects, ContinueCollects
<1>3. CASE ItemRead(c) \/ AccountsRead(c) \/ TransactionsRead(c) \/ BillsRead(c)
  BY <1>2, <1>3, ReplyCollects DEF ItemRead, AccountsRead, TransactionsRead, BillsRead
<1>4. CASE Issued(c)
  <2>1. Requesting(c)
    BY <1>4 DEF Issued, Answered, Requesting
  <2> QED
    BY <1>4, <2>1, ReplyCollects, RetryCollects DEF Issued
<1>5. CASE Delayed(c)
  BY <1>5, RetryCollects DEF Delayed
<1>6. CASE ErrorAnswered(c) \/ Undecoded(c) \/ Malformed(c) \/ Mismatched(c)
  BY <1>6, ReplyCollects DEF ErrorAnswered, Undecoded, Malformed, Mismatched
<1> QED
  BY <1>3, <1>4, <1>5, <1>6

-----------------------------------------------------------------------------
(* A page *)

\* What fits the pages before, unless the collection moved both ways, is one
\* thing that was held, and it is what is held now.
LEMMA PageFits ==
  ASSUME CollectInv, NEW c \in Callers, req[c].op = "collection", pc[c] = "data",
         Cardinality(holdings) # 0,
         ~Inconsistent(http[c], Cardinality(holdings), PageOf(Listed, http[c].page)),
         ~BothWays(c)
  PROVE  /\ (http[c].page - 1) * PageSize < Cardinality(holdings)
         /\ http[c].records = SubSeq(Listed, 1, (http[c].page - 1) * PageSize)
<1>1. Witnessed(c) /\ Fetched(c) /\ IsFiniteSet(holdings) /\ holdings \in SUBSET Nat
  BY DEF CollectInv, Collecting
<1>2. Cardinality(holdings) \in Nat /\ PageSize \in Nat \ {0}
  BY <1>1, FS_CardinalityType, BoundsAssumption
<1>3. CASE http[c].page = 1
  <2>1. PICK m : m = (http[c].page - 1) * PageSize /\ m = 0
    BY <1>2, <1>3
  <2>2. Listed \in Seq(holdings)
    BY <1>1, SortedIs DEF Listed
  <2>3. SubSeq(Listed, 1, 0) = <<>>
    BY <2>2, SubSeqEmpty
  <2> QED
    <3>1. http[c].records = <<>> /\ 0 < Cardinality(holdings)
      BY <1>1, <1>2, <1>3 DEF Fetched
    <3> QED
      BY <2>1, <2>3, <3>1
<1>4. CASE http[c].page # 1
  <2>1. PICK H \in history[c].held :
          /\ http[c].total = Cardinality(H) /\ (http[c].page - 1) * PageSize < http[c].total
          /\ http[c].records = SubSeq(Sorted(H), 1, (http[c].page - 1) * PageSize)
    BY <1>1, <1>4 DEF Fetched
  <2>2. Cardinality(H) = Cardinality(holdings)
    BY <1>4, <2>1 DEF Inconsistent, Expected
  <2>3. H \subseteq holdings \/ holdings \subseteq H
    BY <1>1 DEF Witnessed, BothWays
  <2>4. IsFiniteSet(H)
    BY <1>1 DEF Witnessed
  <2>5. H = holdings
    BY <1>1, <2>2, <2>3, <2>4, FS_Subset
  <2> QED
    BY <2>1, <2>5 DEF Listed
<1> QED
  BY <1>3, <1>4

LEMMA ListedIs ==
  ASSUME CollectInv
  PROVE  /\ Listed \in Seq(holdings) /\ Len(Listed) = Cardinality(holdings)
         /\ Cardinality(holdings) \in Nat /\ ToSet(Listed) = holdings
BY SortedIs DEF Listed, CollectInv

\* The collection that a page completes is what is held now.
LEMMA PageIsHeld ==
  ASSUME CollectInv, NEW c \in Callers, req[c].op = "collection", pc[c] = "data",
         ~BothWays(c), NEW records, NEW all,
         records = PageOf(Listed, http[c].page), all = http[c].records \o records,
         Len(Listed) # 0, ~Inconsistent(http[c], Len(Listed), records)
  PROVE  /\ http[c].page < PagesOf(Len(Listed)) =>
              /\ http[c].page * PageSize < Len(Listed)
              /\ all = SubSeq(Listed, 1, http[c].page * PageSize)
         /\ ~(http[c].page < PagesOf(Len(Listed))) => ToSet(all) = holdings
<1>1. PICK list, total, page :
        list = Listed /\ total = Len(Listed) /\ page = http[c].page
  OBVIOUS
<1>2. /\ list \in Seq(holdings) /\ total = Len(list) /\ total = Cardinality(holdings)
      /\ total \in Nat /\ ToSet(list) = holdings
  BY <1>1, ListedIs
<1>3. /\ (page - 1) * PageSize < total
      /\ http[c].records = SubSeq(list, 1, (page - 1) * PageSize)
  BY <1>1, <1>2, PageFits
<1>4. page \in Nat \ {0}
  BY <1>1 DEF CollectInv, Collecting, Fetched
<1>5. all = SubSeq(list, 1, (page - 1) * PageSize) \o PageOf(list, page)
  BY <1>1, <1>3
<1>6. /\ page < PagesOf(total) =>
           page * PageSize < total /\ all = SubSeq(list, 1, page * PageSize)
      /\ page = PagesOf(total) => all = list
  BY <1>2, <1>3, <1>4, <1>5, NextPage
<1>7. ~(page < PagesOf(total)) => page = PagesOf(total)
  <2>1. ~(page > PagesOf(total))
    BY <1>1 DEF Inconsistent
  <2>2. PagesOf(total) \in Nat
    <3>1. PageSize \in Nat \ {0} /\ total + PageSize - 1 \in Nat
      BY <1>2, BoundsAssumption
    <3> QED
      BY <3>1, Division DEF PagesOf
  <2> QED
    BY <1>4, <2>1, <2>2
<1>8. ~(page < PagesOf(total)) => ToSet(all) = holdings
  BY <1>2, <1>6, <1>7, Zenon
<1> QED
  BY <1>1, <1>6, <1>8, Zenon

LEMMA PageCollects ==
  ASSUME IInv, CollectInv, NEW c \in Callers, Page(c)
  PROVE  CollectInv'
<1>1. PICK t, records, all, total :
        /\ t = http[c] /\ total = Len(Listed) /\ records = PageOf(Listed, t.page)
        /\ all = t.records \o records
  OBVIOUS
<1>2. pc[c] = "data"
  BY DEF Page, Answered
<1>3. \/ \E kind, seen : ReturnWith(c, kind, seen)
      \/ /\ total # 0 /\ ~Inconsistent(t, total, records) /\ t.page < PagesOf(total)
         /\ Continue(c, [t EXCEPT !.page = @ + 1, !.total = Expected(t, total),
                                  !.records = all])
  BY <1>1, Zenon DEF Page, Reply, Return
<1>4. CASE \E kind, seen : ReturnWith(c, kind, seen)
  BY <1>4, ReturnCollects
<1>5. CASE /\ total # 0 /\ ~Inconsistent(t, total, records) /\ t.page < PagesOf(total)
           /\ Continue(c, [t EXCEPT !.page = @ + 1, !.total = Expected(t, total),
                                    !.records = all])
  <2>1. CASE req[c].op # "collection"
    BY <1>2, <1>5, <2>1, ContinueCollects
  <2>2. CASE req[c].op = "collection"
    <3>1. Witnessed(c) /\ Fetched(c)
      BY <2>2 DEF CollectInv, Collecting
    <3>2. /\ DOMAIN http = Callers /\ DOMAIN http[c] = TransportFields
          /\ DOMAIN history = Callers /\ DOMAIN history[c] = HistoryFields
      BY DEF IInv, Shape
    <3>3. /\ UNCHANGED <<pc, req, holdings>>
          /\ history'[c].held = history[c].held /\ history'[c].moved = history[c].moved
          /\ \A d \in Callers \ {c} : http'[d] = http[d] /\ history'[d] = history[d]
      BY <1>5, <3>2 DEF Continue, pluggy, HistoryFields
    <3>4. /\ http'[c].page = t.page + 1 /\ http'[c].records = all
          /\ http'[c].todo = t.todo /\ http'[c].total = total
      <4>1. http'[c] = Advanced([t EXCEPT !.page = @ + 1, !.total = Expected(t, total),
                                          !.records = all])
        BY <1>5, <3>2 DEF Continue
      <4>2. Expected(t, total) = total
        BY <1>5 DEF Inconsistent
      <4>3. DOMAIN t = TransportFields
        BY <1>1, <3>2
      <4> QED
        BY <4>1, <4>2, <4>3 DEF Advanced, TransportFields
    <3>5. Witnessed(c)'
      BY <3>1, <3>3 DEF Witnessed
    <3>6. Fetched(c)'
      <4>1. t.page \in Nat \ {0} /\ t.todo = <<"collection">>
        BY <1>1, <1>2, <3>1 DEF Fetched, Requesting
      <4>2. (t.page + 1) - 1 = t.page /\ t.page + 1 \in Nat \ {0} /\ t.page + 1 # 1
        BY <4>1
      <4>3. ASSUME ~BothWays(c)
            PROVE  /\ t.page * PageSize < total /\ all = SubSeq(Listed, 1, t.page * PageSize)
        BY <1>1, <1>2, <1>5, <2>2, <4>3, PageIsHeld
      <4>4. total = Cardinality(holdings) /\ Listed = Sorted(holdings)
        BY <1>1, ListedIs DEF Listed
      <4>5. holdings \in history'[c].held /\ (BothWays(c)' <=> BothWays(c))
        BY <3>1, <3>3 DEF Witnessed, BothWays
      <4>6. ASSUME ~BothWays(c)'
            PROVE  \E H \in history'[c].held :
                     /\ http'[c].total = Cardinality(H)
                     /\ (http'[c].page - 1) * PageSize < http'[c].total
                     /\ http'[c].records = SubSeq(Sorted(H), 1, (http'[c].page - 1) * PageSize)
        <5>1. /\ http'[c].total = Cardinality(holdings)
              /\ (http'[c].page - 1) * PageSize < http'[c].total
              /\ http'[c].records
                   = SubSeq(Sorted(holdings), 1, (http'[c].page - 1) * PageSize)
          BY <3>4, <4>2, <4>3, <4>4, <4>5, <4>6
        <5> QED
          BY <4>5, <5>1
      <4> QED
        BY <3>4, <4>1, <4>2, <4>6 DEF Fetched
    <3>7. Collecting(c)'
      BY <1>2, <2>2, <3>3, <3>5, <3>6 DEF Collecting
    <3> QED
      BY <3>3, <3>7, OneCollects
  <2> QED
    BY <2>1, <2>2
<1> QED
  BY <1>3, <1>4, <1>5

-----------------------------------------------------------------------------
(* What happens at Pluggy *)

LEMMA SameCollects ==
  ASSUME CollectInv, UNCHANGED <<holdings, pc, req, http>>,
         \A c \in Callers :
           history'[c].held = history[c].held /\ history'[c].moved = history[c].moved
  PROVE  CollectInv'
<1>1. ASSUME NEW c \in Callers
      PROVE  Collecting(c)'
  <2>1. Collecting(c)
    BY DEF CollectInv
  <2>2. Witnessed(c)' <=> Witnessed(c)
    BY DEF Witnessed
  <2>3. Fetched(c)' <=> Fetched(c)
    BY DEF Fetched, Requesting, BothWays
  <2> QED
    BY <2>1, <2>2, <2>3 DEF Collecting
<1> QED
  BY <1>1 DEF CollectInv

LEMMA RotateCollects ==
  ASSUME IInv, CollectInv, NEW v \in Credentials, Rotate(v)
  PROVE  CollectInv'
<1>1. ASSUME NEW c \in Callers
      PROVE  history'[c].held = history[c].held /\ history'[c].moved = history[c].moved
  <2>1. PICK b : history'[c] = [history[c] EXCEPT !.refused = b]
    BY DEF Rotate
  <2>2. DOMAIN history[c] = HistoryFields
    BY DEF IInv, Shape
  <2> QED
    BY <2>1, <2>2 DEF HistoryFields
<1> QED
  BY <1>1, SameCollects DEF Rotate

LEMMA MoveCollects ==
  ASSUME IInv, CollectInv, NEW r \in Records, Grow(r) \/ Shrink(r)
  PROVE  CollectInv'
<1>1. PICK how \in {"grew", "shrank"} :
        /\ history' = Watched(how) /\ UNCHANGED <<pc, req, http>>
        /\ how = "grew" => holdings' = holdings \cup {r}
        /\ how = "shrank" => holdings' = holdings \ {r}
  BY DEF Grow, Shrink
<1>2. r \in Nat /\ holdings \subseteq Nat /\ IsFiniteSet(holdings)
  BY BoundsAssumption DEF CollectInv
<1>3. holdings' \subseteq Nat /\ IsFiniteSet(holdings')
  <2>1. CASE how = "grew"
    BY <1>1, <1>2, <2>1, FS_AddElement
  <2>2. CASE how = "shrank"
    <3>1. holdings' \subseteq holdings
      BY <1>1, <2>2
    <3> QED
      BY <1>2, <3>1, FS_Subset
  <2> QED
    BY <2>1, <2>2
<1>4. ASSUME NEW c \in Callers
      PROVE  Collecting(c)'
  <2>1. Collecting(c) /\ DOMAIN history[c] = HistoryFields
    BY DEF CollectInv, IInv, Shape
  <2>2. CASE req[c].op # "collection"
    BY <1>1, <2>1, <2>2 DEF Collecting, Watched
  <2>3. CASE req[c].op = "collection"
    <3>1. Witnessed(c) /\ Fetched(c)
      BY <2>1, <2>3 DEF Collecting
    <3>2. /\ history'[c].held = history[c].held \cup {holdings'}
          /\ history'[c].moved = history[c].moved \cup {how}
      BY <1>1, <2>1, <2>3 DEF Watched, HistoryFields
    <3>3. \A H \in history'[c].held : H \subseteq Nat /\ IsFiniteSet(H)
      BY <1>3, <3>1, <3>2 DEF Witnessed
    <3>4. Witnessed(c)'
      <4>1. how = "grew" => holdings \subseteq holdings'
        BY <1>1
      <4>2. how = "shrank" => holdings' \subseteq holdings
        BY <1>1
      <4>3. "shrank" \notin history'[c].moved => \A H \in history'[c].held : H \subseteq holdings'
        BY <3>1, <3>2, <4>1 DEF Witnessed
      <4>4. "grew" \notin history'[c].moved => \A H \in history'[c].held : holdings' \subseteq H
        BY <3>1, <3>2, <4>2 DEF Witnessed
      <4>5. holdings' \in history'[c].held /\ history'[c].moved \subseteq {"grew", "shrank"}
        BY <3>1, <3>2 DEF Witnessed
      <4> QED
        BY <3>3, <4>3, <4>4, <4>5 DEF Witnessed
    <3>5. /\ history[c].held \subseteq history'[c].held
          /\ BothWays(c) => BothWays(c)'
      BY <3>2 DEF BothWays
    <3>6. Fetched(c)'
      BY <1>1, <3>1, <3>5 DEF Fetched, Requesting
    <3> QED
      BY <1>1, <2>1, <2>3, <3>4, <3>6 DEF Collecting
  <2> QED
    BY <2>2, <2>3
<1> QED
  BY <1>3, <1>4 DEF CollectInv

LEMMA NextCollects ==
  ASSUME IInv, CollectInv, [Next]_vars
  PROVE  CollectInv'
<1>1. ASSUME NEW c \in Callers, Step(c)
      PROVE  CollectInv'
  BY <1>1, DatabaseCollects, KeyCollects, AnswersCollect, PageCollects DEF Step
<1>2. CASE UNCHANGED vars
  BY <1>2, SameCollects DEF vars, pluggy
<1> QED
  BY <1>1, <1>2, AskCollects, LapseCollects, RotateCollects, MoveCollects DEF Next

LEMMA InitCollects == Init => CollectInv
<1> SUFFICES ASSUME Init PROVE CollectInv
  OBVIOUS
<1>1. holdings \subseteq Nat /\ IsFiniteSet(holdings)
  <2>1. IsFiniteSet({}) /\ 1..MaxRecords \subseteq Nat
    BY FS_EmptySet
  <2>2. IsFiniteSet(1..MaxRecords)
    <3>1. 1 \in Int /\ MaxRecords \in Int
      BY BoundsAssumption
    <3> QED
      BY <3>1, FS_Interval
  <2> QED
    BY <2>1, <2>2 DEF Init
<1>2. ASSUME NEW c \in Callers
      PROVE  Collecting(c)
  <2>1. req[c] = NoCall /\ history[c] = NothingHappened
    BY DEF Init
  <2>2. NoCall.op # "collection" /\ NothingHappened.moved = {}
    BY DEF NoCall, Call, NothingHappened
  <2> QED
    BY <2>1, <2>2 DEF Collecting
<1> QED
  BY <1>1, <1>2 DEF CollectInv

THEOREM CollectInvariance == Spec => []CollectInv
<1>1. Init => CollectInv
  BY InitCollects
<1>2. IInv /\ CollectInv /\ [Next]_vars => CollectInv'
  BY NextCollects
<1> QED
  BY <1>1, <1>2, Invariance, PTL DEF Spec

\* A collection that moved one way is not called moved both ways.
LEMMA OneWay ==
  ASSUME CollectInv, NEW c \in Callers, req[c].op = "collection",
         Cardinality(history[c].moved) < 2
  PROVE  ~BothWays(c)
<1>1. SUFFICES ASSUME BothWays(c) PROVE FALSE
  OBVIOUS
<1>2. history[c].moved = {"grew", "shrank"}
  BY <1>1 DEF BothWays, CollectInv, Collecting, Witnessed
<1>3. Cardinality({"grew", "shrank"}) = 2
  <2>1. IsFiniteSet({"grew"}) /\ Cardinality({"grew"}) = 1
    BY FS_Singleton
  <2>2. "shrank" \notin {"grew"} /\ {"grew"} \cup {"shrank"} = {"grew", "shrank"}
    OBVIOUS
  <2>3. Cardinality({"grew"} \cup {"shrank"}) = 2
    BY <2>1, <2>2, FS_AddElement
  <2> QED
    BY <2>2, <2>3
<1> QED
  BY <1>2, <1>3

\* A call that returns a collection returns what is held.
LEMMA ReturnsHeld ==
  ASSUME IInv, CollectInv, NEW c \in Callers, Page(c), Ended(c), req[c].op = "collection",
         answer'[c].kind = "ok", ~BothWays(c)
  PROVE  answer'[c].records = holdings
<1>1. PICK t, records, all, total :
        /\ t = http[c] /\ total = Len(Listed) /\ records = PageOf(Listed, t.page)
        /\ all = t.records \o records
  OBVIOUS
<1>2. pc[c] = "data" /\ DOMAIN answer = Callers /\ DOMAIN pc = Callers
  BY DEF Page, Answered, IInv, Shape
<1>3. \/ total = 0 /\ ReturnWith(c, "ok", {})
      \/ ReturnWith(c, "failed", {})
      \/ UNCHANGED pc
      \/ /\ total # 0 /\ ~Inconsistent(t, total, records) /\ ~(t.page < PagesOf(total))
         /\ ReturnWith(c, "ok", ToSet(all))
  BY <1>1, Zenon DEF Page, Reply, Return, Continue
<1>4. ~UNCHANGED pc /\ ~ReturnWith(c, "failed", {})
  BY <1>2 DEF Ended, ReturnWith
<1>5. CASE total = 0 /\ ReturnWith(c, "ok", {})
  <2>1. holdings = {}
    BY <1>1, <1>5, ListedIs, FS_EmptySet DEF CollectInv
  <2> QED
    BY <1>2, <1>5, <2>1 DEF ReturnWith
<1>6. CASE /\ total # 0 /\ ~Inconsistent(t, total, records) /\ ~(t.page < PagesOf(total))
           /\ ReturnWith(c, "ok", ToSet(all))
  <2>1. ToSet(all) = holdings
    BY <1>1, <1>2, <1>6, PageIsHeld
  <2>2. answer'[c].records = ToSet(all)
    BY <1>2, <1>6 DEF ReturnWith
  <2> QED
    BY <2>1, <2>2, Zenon
<1> QED
  BY <1>3, <1>4, <1>5, <1>6

\* Of the steps of a call that reads a collection, the last page alone ends it well.
LEMMA PageEnds ==
  ASSUME IInv, CollectInv, NEW c \in Callers, Step(c), Ended(c), req[c].op = "collection",
         answer'[c].kind = "ok"
  PROVE  Page(c)
<1>1. pc[c] \in {"connection", "credentials", "auth", "data"} /\ Fetched(c)
  BY DEF CollectInv, Collecting
<1>2. DOMAIN answer = Callers /\ DOMAIN pc = Callers
  BY DEF IInv, Shape
<1>3. ASSUME NEW kind \in {"failed", "conflict", "authentication"}
      PROVE  ~Reply(c, kind)
  BY <1>2 DEF Reply, Return, ReturnWith
<1>4. ASSUME NEW aim \in {"item", "accounts", "transactions", "bills", "token"}
      PROVE  ~Answered(c, aim)
  <2>1. Head(<<"collection">>) = "collection"
    OBVIOUS
  <2> QED
    BY <1>1, <2>1 DEF Answered, Aim, Fetched, Requesting
<1>5. ~(ItemRead(c) \/ AccountsRead(c) \/ TransactionsRead(c) \/ BillsRead(c) \/ Issued(c))
  BY <1>4 DEF ItemRead, AccountsRead, TransactionsRead, BillsRead, Issued
<1>6. ~(Create(c) \/ GetConfiguration(c) \/ Replace(c) \/ Write(c))
  BY <1>1 DEF Create, GetConfiguration, Replace, Write
<1>7. ~(Unavailable(c) \/ ErrorAnswered(c) \/ Undecoded(c) \/ Malformed(c) \/ Mismatched(c))
  BY <1>3 DEF Unavailable, ErrorAnswered, Undecoded, Malformed, Mismatched
<1>8. ~(LoadConnection(c) \/ UseEnabledCredentials(c))
  BY <1>2, <1>3 DEF LoadConnection, UseEnabledCredentials, Ended
<1>9. ~(Delayed(c) \/ Authenticate(c) \/ Rejected(c))
  BY <1>2, <1>3 DEF Delayed, Retried, Authenticate, Rejected, Ended
<1> QED
  BY <1>5, <1>6, <1>7, <1>8, <1>9 DEF Step

\* A collection that only grew, or only shrank, while investments_http_gateway.py
\* read its pages is returned as it was at some time of the call, or not at all.
THEOREM CollectionWasHeldHolds == Spec => CollectionWasHeld
<1>1. ASSUME IInv, CollectInv, [Next]_vars
      PROVE  [\A c \in Callers :
                (Ended(c) /\ req[c].op = "collection" /\ answer'[c].kind = "ok"
                 /\ Cardinality(history[c].moved) < 2) =>
                  answer'[c].records \in history[c].held]_vars
  <2> SUFFICES ASSUME NEW c \in Callers, Ended(c), req[c].op = "collection",
                      answer'[c].kind = "ok", Cardinality(history[c].moved) < 2
               PROVE  answer'[c].records \in history[c].held
    OBVIOUS
  <2>1. Step(c)
    BY <1>1, EndedSteps
  <2>2. Page(c)
    BY <1>1, <2>1, PageEnds
  <2>3. answer'[c].records = holdings
    BY <1>1, <2>2, OneWay, ReturnsHeld
  <2>4. holdings \in history[c].held
    BY <1>1 DEF CollectInv, Collecting, Witnessed
  <2> QED
    BY <2>3, <2>4
<1> QED
  BY <1>1, Invariance, CollectInvariance, PTL DEF Spec, CollectionWasHeld
=============================================================================
