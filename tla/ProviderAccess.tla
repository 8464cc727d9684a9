--------------------------- MODULE ProviderAccess ---------------------------
(***************************************************************************)
(* The configuration of a bank provider and the calls that use it: the     *)
(* administrator creates the row, replaces its credentials and changes its *)
(* state, each write comparing the revision the administrator saw          *)
(* (banking_store.py), while other calls read the enabled credentials      *)
(* (banking.py) and, after that transaction has ended, talk to Pluggy      *)
(* through a transport of their own (banking-pluggy): a key obtained for   *)
(* the credentials, refreshed once when it is refused, bounded retries, a  *)
(* collection read page by page, a connect token asked for once.           *)
(*                                                                         *)
(* Pluggy is the environment: it accepts some credentials, lets keys       *)
(* lapse, and holds a collection that changes while it is read.  A         *)
(* transaction of the database and an HTTP request are one step each, and  *)
(* either may take effect without its answer arriving.                     *)
(***************************************************************************)
EXTENDS Naturals, Sequences, FiniteSets, SequencesExt

CONSTANTS
  Callers,      \* threads of the API and of the worker
  Credentials,  \* pairs of client id and client secret
  Barred,       \* requests Pluggy may refuse to this application, whatever the key
  Records,      \* records Pluggy may hold, numbers: pages list them in order
  PageSize,     \* records on a page, _PAGE_SIZE
  MaxPages,     \* pages a collection may have, _DEFAULT_MAX_PAGES
  MaxRecords,   \* records a collection may have, _DEFAULT_MAX_RECORDS
  MaxAttempts,  \* attempts of one request, _MAX_ATTEMPTS
  MaxCalls,     \* bound: calls made
  MaxChanges    \* bound: what happens at Pluggy

ASSUME BoundsAssumption ==
  /\ Records \subseteq Nat /\ IsFiniteSet(Records)
  /\ {PageSize, MaxPages, MaxRecords, MaxAttempts} \subseteq Nat \ {0}
  /\ {MaxCalls, MaxChanges} \subseteq Nat

VARIABLES
  config,    \* the provider's row of integrations.provider_configurations
  accepted,  \* the credentials Pluggy accepts
  holdings,  \* the records of the collection Pluggy holds
  pc,        \* the step each caller takes next
  req,       \* its call
  known,     \* the configuration as its answers last showed it
  http,      \* the transport of its call
  answer,    \* what its last call returned
  calls,     \* calls made so far
  changes,   \* what has happened at Pluggy so far
  history    \* history: what happened at Pluggy during its call

calling == <<config, known, calls>>
pluggy == <<accepted, holdings, changes>>
vars == <<calling, pluggy, pc, req, http, answer, history>>

NoCredentials == 0
NoConfig == [state |-> "none", revision |-> 0, creds |-> NoCredentials]

-----------------------------------------------------------------------------
(* Calls *)

\* The requests to Pluggy of each operation that uses the credentials.
Plan ==
  [state |-> <<"item">>, accounts |-> <<"accounts">>,
   transactions |-> <<"accounts", "transactions">>, bills |-> <<"accounts", "bills">>,
   collection |-> <<"collection">>, register |-> <<"item">>,
   token |-> <<"token">>, reauthenticate |-> <<"item", "token">>]

\* The first step of a call: the item to register has no connection yet.
First(op) ==
  IF op \notin DOMAIN Plan THEN op
  ELSE IF op \in {"token", "register"} THEN "credentials" ELSE "connection"

\* The administrator sends the revision it was shown.
Call(op, creds, state) == [op |-> op, creds |-> creds, state |-> state]
NoCall == Call("none", NoCredentials, "none")

Requests ==
     { Call("create", v, "none") : v \in Credentials }
\cup { Call("replace", v, "none") : v \in Credentials }
\cup { Call("set_state", NoCredentials, s) : s \in {"configured", "enabled", "disabled"} }
\cup { Call("get", NoCredentials, "none") }
\cup { Call(op, NoCredentials, "none") : op \in DOMAIN Plan }

\* A transport that has been closed, or not been opened.
Closed ==
  [todo |-> <<>>, creds |-> NoCredentials, key |-> "none", refreshed |-> FALSE,
   attempt |-> 1, page |-> 1, total |-> 0, records |-> <<>>]

NothingHappened ==
  [refused |-> FALSE, lapses |-> 0, held |-> {}, moved |-> {},
   issued |-> 0, sent |-> 0]

Init ==
  /\ config \in {NoConfig} \cup
       { [state |-> "enabled", revision |-> 2, creds |-> v] : v \in Credentials }
  /\ accepted = Credentials
  /\ holdings \in {{}, 1..MaxRecords}
  /\ pc = [c \in Callers |-> "idle"]
  /\ req = [c \in Callers |-> NoCall]
  /\ known = [c \in Callers |-> config]
  /\ http = [c \in Callers |-> Closed]
  /\ answer = [c \in Callers |-> [kind |-> "none", records |-> {}]]
  /\ calls = 0
  /\ changes = 0
  /\ history = [c \in Callers |-> NothingHappened]

Ask(c) ==
  /\ pc[c] = "idle" /\ calls < MaxCalls
  /\ \E r \in Requests :
       /\ r.op \in {"replace", "set_state"} => known[c].revision > 0
       /\ req' = [req EXCEPT ![c] = r]
       /\ pc' = [pc EXCEPT ![c] = First(r.op)]
  /\ history' = [history EXCEPT ![c].held = IF req'[c].op = "collection" THEN {holdings} ELSE {}]
  /\ answer' = [answer EXCEPT ![c] = [kind |-> "none", records |-> {}]]
  /\ calls' = calls + 1
  /\ UNCHANGED <<config, known, pluggy, http>>

\* The transport is closed on every way out.
ReturnWith(c, kind, records) ==
  /\ pc' = [pc EXCEPT ![c] = "idle"]
  /\ http' = [http EXCEPT ![c] = Closed]
  /\ answer' = [answer EXCEPT ![c] = [kind |-> kind, records |-> records]]
  /\ req' = [req EXCEPT ![c] = NoCall]
  /\ history' = [history EXCEPT ![c] = NothingHappened]
  /\ UNCHANGED <<pluggy, calls>>

Return(c, kind) == ReturnWith(c, kind, {})

-----------------------------------------------------------------------------
(* The administrator *)

\* An answer that shows no row.
Reply(c, kind) == Return(c, kind) /\ UNCHANGED <<config, known>>

\* The answer that shows the row after it was read or written may be lost.
Show(c, row) ==
  \/ Return(c, "ok") /\ known' = [known EXCEPT ![c] = row]
  \/ Return(c, "failed") /\ UNCHANGED known

\* uq_provider_configurations_installation_provider: one row of a provider.
Create(c) ==
  /\ pc[c] = "create"
  /\ IF config # NoConfig THEN Reply(c, "conflict")
     ELSE /\ config' = [state |-> "configured", revision |-> 1, creds |-> req[c].creds]
          /\ Show(c, config')

GetConfiguration(c) ==
  /\ pc[c] = "get"
  /\ IF config = NoConfig THEN Reply(c, "failed")
     ELSE Show(c, config) /\ UNCHANGED config

\* replace_credentials reads the row, and compares its revision, in a
\* transaction before the one that writes it.
Replace(c) ==
  /\ pc[c] = "replace"
  /\ IF config = NoConfig THEN Reply(c, "failed")
     ELSE IF config.revision # known[c].revision THEN Reply(c, "conflict")
     ELSE /\ pc' = [pc EXCEPT ![c] = "write"]
          /\ UNCHANGED <<calling, pluggy, req, http, answer, history>>

\* Mutated: the revision compared by the read alone.
RevisionHeldBefore(c) == TRUE

\* ... WHERE configuration_revision = expected_revision
RevisionHeld(c) == config.revision = known[c].revision

\* The row that the call writes.
Written(r) ==
  [config EXCEPT !.revision = @ + 1,
                 !.creds = IF r.op = "replace" THEN r.creds ELSE @,
                 !.state = IF r.op = "set_state" THEN r.state ELSE @]

Write(c) ==
  /\ pc[c] \in {"write", "set_state"}
  /\ IF config = NoConfig THEN Reply(c, "failed")
     ELSE IF ~RevisionHeld(c) THEN Reply(c, "conflict")
     ELSE /\ config' = Written(req[c])
          /\ Show(c, config')

\* A provider that is not available, a feature that is off, a database that
\* does not answer: nothing was written.
Unavailable(c) ==
  /\ pc[c] \in {"create", "get", "replace", "write", "set_state", "connection", "credentials"}
  /\ Reply(c, "failed")

-----------------------------------------------------------------------------
(* Reading the credentials *)

\* The connection exists, is one of Pluggy's and is not disconnected, or not.
LoadConnection(c) ==
  /\ pc[c] = "connection"
  /\ \/ Reply(c, "failed")
     \/ /\ pc' = [pc EXCEPT ![c] = "credentials"]
        /\ UNCHANGED <<calling, pluggy, req, http, answer, history>>

\* use_enabled_credentials: the operation runs after the transaction has ended.
UseEnabledCredentials(c) ==
  /\ pc[c] = "credentials"
  /\ IF config = NoConfig THEN Reply(c, "failed")
     ELSE IF config.state # "enabled" THEN Reply(c, "failed")
     ELSE /\ http' = [http EXCEPT ![c] = [Closed EXCEPT !.todo = Plan[req[c].op],
                                                       !.creds = config.creds]]
          /\ pc' = [pc EXCEPT ![c] = "auth"]
          /\ history' = [history EXCEPT ![c].refused = config.creds \notin accepted]
          /\ UNCHANGED <<calling, pluggy, req, answer>>

-----------------------------------------------------------------------------
(* Requests to Pluggy *)

Aim(c) == Head(http[c].todo)

\* Mutated: a connect token is asked for again like any other request.
MayRetryTokens(c) == http[c].attempt < MaxAttempts

\* Whether the request is sent again: a connect token's never is.
MayRetry(c) ==
  /\ http[c].attempt < MaxAttempts
  /\ pc[c] = "data" => Aim(c) # "token"

\* An answer that did not come, a failure of the server, and a limit that ends
\* within the minute are waited for, then the request is sent again.  Any other
\* error ends the call.
Retried(c, issued) ==
  IF MayRetry(c)
  THEN /\ http' = [http EXCEPT ![c].attempt = @ + 1]
       /\ history' = [history EXCEPT ![c].issued = @ + issued, ![c].sent = @ + 1]
       /\ UNCHANGED <<calling, pluggy, pc, req, answer>>
  ELSE Reply(c, "failed")

Requesting(c) == pc[c] \in {"auth", "data"}

Delayed(c) == Requesting(c) /\ Retried(c, 0)

\* 404, another 4xx, a limit without an end.
ErrorAnswered(c) == Requesting(c) /\ Reply(c, "failed")

\* Not JSON, too large, not an object.
Undecoded(c) == Requesting(c) /\ Reply(c, "failed")

Authenticate(c) ==
  /\ pc[c] = "auth"
  /\ IF http[c].creds \notin accepted THEN Reply(c, "authentication")
     ELSE /\ http' = [http EXCEPT ![c].key = "live", ![c].attempt = 1]
          /\ pc' = [pc EXCEPT ![c] = "data"]
          /\ history' = [history EXCEPT ![c].sent = @ + 1]
          /\ UNCHANGED <<calling, pluggy, req, answer>>

KeyIsDead(c) == http[c].key = "dead"

\* Mutated: the second refusal asks for a third key.
RefreshedNever(c) == [http[c] EXCEPT !.key = "none", !.attempt = 1]

\* The transport that asks for its second key.
Refreshed(c) == [http[c] EXCEPT !.key = "none", !.attempt = 1, !.refreshed = TRUE]

\* Mutated: a refused key ends the call.
MayRefreshNever(c) == FALSE

\* One refresh of the key for each request.
MayRefresh(c) == ~http[c].refreshed

\* The key has lapsed, or Pluggy bars the resource: 401 or 403.
Rejected(c) ==
  /\ pc[c] = "data"
  /\ KeyIsDead(c) \/ Aim(c) \in Barred
  /\ IF MayRefresh(c)
     THEN /\ http' = [http EXCEPT ![c] = Refreshed(c)]
          /\ pc' = [pc EXCEPT ![c] = "auth"]
          /\ history' = [history EXCEPT ![c].sent = @ + 1]
          /\ UNCHANGED <<calling, pluggy, req, answer>>
     ELSE Reply(c, "authentication")

\* The transport whose next request is another one.
Advanced(t) == [t EXCEPT !.refreshed = FALSE, !.attempt = 1]

Continue(c, t) ==
  /\ http' = [http EXCEPT ![c] = Advanced(t)]
  /\ history' = [history EXCEPT ![c].lapses = 0, ![c].sent = 0]
  /\ UNCHANGED <<calling, pluggy, pc, req, answer>>

Answered(c, aim) == pc[c] = "data" /\ ~KeyIsDead(c) /\ Aim(c) = aim

\* A field of what arrived is missing or impossible.
Malformed(c) == pc[c] = "data" /\ ~KeyIsDead(c) /\ Reply(c, "failed")

\* What arrived is about another item or account, or names a record twice.
Mismatched(c) == pc[c] = "data" /\ ~KeyIsDead(c) /\ Reply(c, "failed")

Proceed(c) ==
  IF Len(http[c].todo) = 1 THEN Reply(c, "ok")
  ELSE Continue(c, [http[c] EXCEPT !.todo = Tail(@)])

ItemRead(c) == Answered(c, "item") /\ Proceed(c)

\* The account asked about is one of the connection's, or not.
AccountsRead(c) == Answered(c, "accounts") /\ (Proceed(c) \/ Reply(c, "failed"))

TransactionsRead(c) == Answered(c, "transactions") /\ Proceed(c)

BillsRead(c) == Answered(c, "bills") /\ Proceed(c)

\* The token arrives, or Pluggy issued it and its answer does not.
Issued(c) ==
  /\ Answered(c, "token")
  /\ \/ Reply(c, "ok")
     \/ Retried(c, 1)

-----------------------------------------------------------------------------
(* Collections *)

\* Records in the order of their numbers.
Sorted(records) ==
  CHOOSE list \in [1..Cardinality(records) -> records] :
    \A i, j \in DOMAIN list : i < j => list[i] < list[j]

Listed == Sorted(holdings)

PagesOf(total) == (total + PageSize - 1) \div PageSize

PageOf(list, page) ==
  SubSeq(list, (page - 1) * PageSize + 1,
         IF page * PageSize < Len(list) THEN page * PageSize ELSE Len(list))

\* Mutated: each page says anew how many records there are.
ExpectedAnew(t, total) == total

\* How many records there are, as the first page said.
Expected(t, total) == IF t.page = 1 THEN total ELSE t.total

\* What the page says is refused: past the last one, another total than the
\* first page's, too many records, or a record that came before.
Inconsistent(t, total, records) ==
  \/ t.page > PagesOf(total)
  \/ total # Expected(t, total)
  \/ total > MaxRecords \/ PagesOf(total) > MaxPages
  \/ ToSet(records) \cap ToSet(t.records) # {}

Page(c) ==
  /\ Answered(c, "collection")
  /\ LET t == http[c]
         total == Len(Listed)
         records == PageOf(Listed, t.page)
         all == t.records \o records
     IN IF total = 0 THEN Reply(c, "ok")
        ELSE IF Inconsistent(t, total, records) THEN Reply(c, "failed")
        ELSE IF t.page < PagesOf(total)
        THEN Continue(c, [t EXCEPT !.page = @ + 1, !.total = Expected(t, total), !.records = all])
        ELSE IF Len(all) # Expected(t, total) THEN Reply(c, "failed")
        ELSE ReturnWith(c, "ok", ToSet(all)) /\ UNCHANGED <<config, known>>

-----------------------------------------------------------------------------
(* Pluggy *)

Change == changes < MaxChanges /\ changes' = changes + 1

\* Pluggy accepts a pair of credentials, or no longer does.
Rotate(v) ==
  /\ Change
  /\ accepted' = IF v \in accepted THEN accepted \ {v} ELSE accepted \cup {v}
  /\ history' = [c \in Callers |-> [history[c] EXCEPT !.refused =
                   @ \/ (http[c].creds = v /\ v \notin accepted')]]
  /\ UNCHANGED <<calling, holdings, pc, req, http, answer>>

KeyLapses(c) ==
  /\ Change
  /\ http[c].key = "live"
  /\ http' = [http EXCEPT ![c].key = "dead"]
  /\ history' = [history EXCEPT ![c].lapses = @ + 1]
  /\ UNCHANGED <<calling, accepted, holdings, pc, req, answer>>

Watched(how) ==
  [c \in Callers |->
     IF req[c].op = "collection"
     THEN [history[c] EXCEPT !.held = @ \cup {holdings'}, !.moved = @ \cup {how}]
     ELSE history[c]]

Grow(r) ==
  /\ Change
  /\ r \notin holdings /\ holdings' = holdings \cup {r}
  /\ history' = Watched("grew")
  /\ UNCHANGED <<calling, accepted, pc, req, http, answer>>

Shrink(r) ==
  /\ Change
  /\ r \in holdings /\ holdings' = holdings \ {r}
  /\ history' = Watched("shrank")
  /\ UNCHANGED <<calling, accepted, pc, req, http, answer>>

-----------------------------------------------------------------------------
Step(c) ==
  \/ Create(c) \/ GetConfiguration(c) \/ Replace(c) \/ Write(c) \/ Unavailable(c)
  \/ LoadConnection(c) \/ UseEnabledCredentials(c)
  \/ Delayed(c) \/ ErrorAnswered(c) \/ Undecoded(c) \/ Authenticate(c) \/ Rejected(c)
  \/ Malformed(c) \/ Mismatched(c) \/ ItemRead(c) \/ AccountsRead(c)
  \/ TransactionsRead(c) \/ BillsRead(c) \/ Issued(c) \/ Page(c)

Next ==
  \/ \E c \in Callers : Ask(c) \/ Step(c) \/ KeyLapses(c)
  \/ \E v \in Credentials : Rotate(v)
  \/ \E r \in Records : Grow(r) \/ Shrink(r)

Spec == Init /\ [][Next]_vars

-----------------------------------------------------------------------------
(* Properties *)

Ended(c) == pc[c] # "idle" /\ pc'[c] = "idle"

\* Optimistic concurrency: a write of the administrator replaces exactly the
\* configuration its answers last showed, not one another write left meanwhile.
WritesBuildOnWhatWasSeen ==
  [][\A c \in Callers :
       (config' # config /\ Ended(c)) => config = known[c] \/ req[c].op = "create"]_vars

\* Whatever answers are lost and however often the key is refused, a call does
\* not go on for ever, and asks for one thing once where that matters: a request
\* costs two rounds of a key and an answer at most, and a call that goes on has
\* no token of Pluggy's, since one is issued at its end or not at all
\* (transport.py, connect_token.py).
RequestsAreBounded ==
  \A c \in Callers : history[c].sent < 4 * MaxAttempts /\ history[c].issued = 0

\* A call fails for its authentication only if Pluggy refused its credentials at
\* some time of the call, may bar what was asked for, or let two keys lapse before
\* it answered one request: a key that lapses once is replaced unseen.
OneLapseIsHealed ==
  [][\A c \in Callers :
       (Ended(c) /\ answer'[c].kind = "authentication") =>
         history[c].refused \/ Aim(c) \in Barred \/ history[c].lapses >= 2]_vars

\* A collection that only grew, or only shrank, while its pages were read is
\* returned as it was at some time of the call, or not at all.
CollectionWasHeld ==
  [][\A c \in Callers :
       (Ended(c) /\ req[c].op = "collection" /\ answer'[c].kind = "ok"
        /\ Cardinality(history[c].moved) < 2) =>
         answer'[c].records \in history[c].held]_vars
=============================================================================
