------------------------ MODULE ClassificationProofs ------------------------
(***************************************************************************)
(* The answers of classification are true, an application is answered what *)
(* the rules and the chain say, and classification keeps its contract, for *)
(* any connections, movements, rules, requests and number of calls.        *)
(*                                                                         *)
(* Chained says what the sets of a movement are: one of each revision, and *)
(* each the successor of the one before.  A call that came past its reads  *)
(* still has what they showed (Stage), since the locks it holds (Holding)  *)
(* keep others from writing; two open transactions never write the same    *)
(* key or the same row (Apart).                                            *)
(*                                                                         *)
(* The same holds below the inbox, which writes nothing.  A walk through   *)
(* it misses nothing: what it was shown is what it has passed (Walk), a    *)
(* request has collected what lies between the walk and its own position   *)
(* (Scanning), and the rows and rules that change meanwhile only take away *)
(* from what had to be shown.                                              *)
(***************************************************************************)
EXTENDS PendingInbox, TLAPS, FiniteSetTheorems, FunctionTheorems

WorkFields == {"sets", "rules", "off"}
SetFields == {"id", "movement", "revision", "supersedes", "shares", "rule", "key", "digest"}

Shape ==
  /\ DOMAIN pc = Callers /\ DOMAIN req = Callers /\ DOMAIN work = Callers
  /\ DOMAIN answer = Callers /\ DOMAIN rowLock = Movements
  /\ \A c \in Callers : DOMAIN work[c] = WorkFields

Depth(m) == Cardinality(SetsOf(m))

\* The sets of m: one of each revision, each but the first built on the one before.
Chained(m) ==
  /\ \A s \in SetsOf(m) : s.revision \in 1..Depth(m)
  /\ \A n \in 1..Depth(m) : \E s \in SetsOf(m) : s.revision = n
  /\ \A s, t \in SetsOf(m) : s.revision = t.revision => s = t
  /\ \A s \in SetsOf(m) :
       IF s.revision = 1 THEN s.supersedes = None
       ELSE \E t \in SetsOf(m) : t.id = s.supersedes /\ s.revision = t.revision + 1

SetsKept ==
  /\ IsFiniteSet(sets)
  /\ \A s \in sets :
       /\ s.movement \in Eligible /\ s.id \in Nat \ {None}
       /\ s.key \in DerivedKeys => s.key[2] = s.movement
  /\ \A s, t \in sets : s.id = t.id \/ s.key = t.key => s = t
  /\ \A m \in Movements : Chained(m)

IsRule(r) ==
  /\ r = Rule(r.id, r.draft, r.status, r.key, r.digest)
  /\ r.id \in Nat \ {None} /\ r.status \in {"ACTIVE", "DISABLED"}

RulesKept ==
  /\ IsFiniteSet(rules)
  /\ \A r \in rules : IsRule(r)
  /\ \A r, s \in rules : r.id = s.id \/ r.key = s.key => r = s

Places(op) ==
  CASE op = "none" -> {"idle"}
    [] op = "page" -> {"idle", "rules", "scan"}
    [] op = "classify" -> {"idle", "lookup", "lock", "recheck", "current", "insert", "commit"}
    [] op = "apply" ->
         {"idle", "pair", "rulelock", "lock", "current", "evaluate", "insert", "origin", "commit"}
    [] op = "create_rule" -> {"idle", "rulelock", "rulekey", "rule", "commit"}
    [] op = "disable" -> {"idle", "rulelock", "update", "commit"}

Kinds(op) ==
  CASE op = "none" -> {}
    [] op = "page" -> {"page", "last", "invalid", "lost"}
    [] op = "classify" -> {"ok", "not_found", "conflict", "stale", "invalid", "lost"}
    [] op = "apply" ->
         {"classified", "already", "no_match", "ambiguous", "conflict", "ineligible", "lost"}
    [] op = "create_rule" -> {"ok", "not_found", "conflict", "lost"}
    [] op = "disable" -> {"ok", "lost"}

Classifying(c) == req[c].op \in {"classify", "apply"}

\* What a request is, from the call on.
Asked(c) ==
  LET r == req[c]
  IN /\ r.op \in Ops \cup {"none", "page"} /\ pc[c] \in Places(r.op)
     /\ r.op \in Ops =>
          /\ DOMAIN r = RequestFields /\ r.movement \in Movements /\ r.fits \in BOOLEAN
          /\ r.supersedes # None => \E s \in SetsOf(r.movement) : s.id = r.supersedes
     /\ r.op = "apply" => r.supersedes = None /\ r.fits /\ r.items \in Seq(Movements \X Nat)
     /\ r.op = "apply" /\ pc[c] \notin {"idle", "pair"} => r.rule \in Nat
     /\ r.op # "apply" => r.items = <<>>
     /\ r.op \in {"classify", "create_rule", "disable"} => r.key \notin DerivedKeys
     /\ r.op = "disable" => r.rule \in Ids(rules)
     /\ pc[c] = "pair" => r.items # <<>>

\* The locks that c holds.
Holding(c) ==
  /\ Classifying(c)
       /\ pc[c] \in {"recheck", "current", "evaluate", "insert", "origin", "commit"}
     => req[c].movement \in Eligible /\ rowLock[req[c].movement] = c
  /\ req[c].op \in {"apply", "create_rule", "disable"}
       /\ pc[c] \notin {"idle", "pair", "rulelock"}
     => ruleLock = c

\* The row that c is about to commit.
IsNewSet(c, row) ==
  LET r == req[c]
  IN /\ DOMAIN row = SetFields
     /\ row.movement = r.movement /\ row.revision = NextRevision(r)
     /\ row.supersedes = r.supersedes /\ row.shares = r.shares
     /\ row.key = KeyOf(r) /\ row.digest = DigestOf(r)
     /\ row.rule = IF r.op = "apply" /\ pc[c] = "commit" THEN r.rule ELSE None
     /\ row.id \in Nat \ {None}
     /\ \A s \in sets : s.id # row.id /\ s.key # row.key

IsNewRule(c, row) ==
  /\ row = Rule(row.id, req[c].draft, "ACTIVE", KeyOf(req[c]), DigestOf(req[c]))
  /\ row.id \in Nat \ {None}
  /\ \A r \in rules : r.id # row.id /\ r.key # row.key

\* What c has written.
Written(c) ==
  /\ IF Classifying(c) /\ pc[c] \in {"origin", "commit"}
     THEN \E row : work[c].sets = {row} /\ IsNewSet(c, row)
     ELSE work[c].sets = {}
  /\ IF req[c].op = "create_rule" /\ pc[c] = "commit"
     THEN \E row : work[c].rules = {row} /\ IsNewRule(c, row)
     ELSE work[c].rules = {}
  /\ IF req[c].op = "disable" /\ pc[c] = "commit"
     THEN work[c].off = {req[c].rule} /\ req[c].rule \in Ids(Open(rules))
     ELSE work[c].off = {}

\* What the reads of c have shown it, and still holds.
Stage(c) ==
  LET r == req[c]
  IN /\ Classifying(c) /\ pc[c] \in {"current", "evaluate", "insert", "origin", "commit"}
          => r.fits
     /\ Classifying(c) /\ pc[c] \in {"evaluate", "insert", "origin", "commit"}
          => Current(r.movement) = Expected(r)
     /\ r.op = "apply" /\ pc[c] \in {"insert", "origin", "commit"}
          => \E w : /\ Winners(r.movement, Open(rules)) = {w}
                    /\ w.id = r.rule /\ r.shares = w.draft.target
     /\ r.op = "classify" /\ pc[c] = "current"
          => \A row \in RowsWithKey(r) : row.digest # DigestOf(r)
     /\ r.op = "create_rule" /\ pc[c] = "rule" => r.fits

\* What c was answered.
Told(c) ==
  /\ answer[c] \in Kinds(req[c].op) \cup {"none"}
  /\ pc[c] \notin {"idle", "pair"} => answer[c] = "none"
  /\ answer[c] # "none" => IsTrue(req[c], answer[c])

Caller(c) == Asked(c) /\ Holding(c) /\ Written(c) /\ Stage(c) /\ Told(c)

Apart(c, d) ==
  \A s \in work[c].sets : \A t \in work[d].sets : s.id # t.id /\ s.key # t.key

IInv ==
  /\ Shape /\ SetsKept /\ RulesKept
  /\ \A c \in Callers : Caller(c)
  /\ \A c, d \in Callers : c # d => Apart(c, d)

-----------------------------------------------------------------------------
(* The chains *)

LEMMA FreshIsNew ==
  ASSUME NEW used, IsFiniteSet(used)
  PROVE  Fresh(used) \in Nat \ {None} /\ Fresh(used) \notin used
<1> DEFINE k == Cardinality(used)
           some == 1..(k + 1)
<1>1. k \in Nat
  BY FS_CardinalityType
<1>2. IsFiniteSet(some) /\ Cardinality(some) = k + 1
  BY <1>1, FS_Interval
<1>3. ~(some \subseteq used)
  <2> SUFFICES ASSUME some \in SUBSET used PROVE FALSE
    OBVIOUS
  <2>1. Cardinality(some) <= k
    BY FS_Subset
  <2> QED
    BY <1>1, <1>2, <2>1
<1>4. PICK n \in some : n \notin used
  BY <1>3
<1>5. Fresh(used) \in some /\ Fresh(used) \notin used
  BY <1>4 DEF Fresh
<1> QED
  BY <1>1, <1>5 DEF None

LEMMA DepthIsNat ==
  ASSUME SetsKept, NEW m
  PROVE  IsFiniteSet(SetsOf(m)) /\ Depth(m) \in Nat /\ (Depth(m) = 0 <=> SetsOf(m) = {})
<1>1. IsFiniteSet(SetsOf(m))
  BY FS_Subset DEF SetsKept, SetsOf
<1> QED
  BY <1>1, FS_CardinalityType, FS_EmptySet DEF Depth

\* What supersedes a set is the next revision of its movement.
LEMMA Successor ==
  ASSUME SetsKept, NEW s \in sets, NEW t \in sets, t.supersedes = s.id
  PROVE  t.movement = s.movement /\ t.revision = s.revision + 1
<1>1. t \in SetsOf(t.movement) /\ t.movement \in Movements /\ s.id # None
  BY EligibleAssumption DEF SetsKept, SetsOf
<1>2. PICK u \in SetsOf(t.movement) : u.id = s.id /\ t.revision = u.revision + 1
  BY <1>1 DEF SetsKept, Chained
<1>3. u = s
  BY <1>2 DEF SetsKept, SetsOf
<1> QED
  BY <1>2, <1>3 DEF SetsOf

LEMMA CurrentIs ==
  ASSUME SetsKept, NEW m \in Movements
  PROVE  Current(m) = {s \in SetsOf(m) : s.revision = Depth(m)}
<1>1. Chained(m) /\ Depth(m) \in Nat
  BY DepthIsNat DEF SetsKept
<1>2. ASSUME NEW s \in Current(m)
      PROVE  s.revision = Depth(m)
  <2>1. s \in SetsOf(m) /\ s.revision \in 1..Depth(m) /\ \A t \in sets : t.supersedes # s.id
    BY <1>1 DEF Current, Chained
  <2>2. ASSUME s.revision # Depth(m)
        PROVE  FALSE
    <3>1. s.revision + 1 \in 1..Depth(m)
      BY <1>1, <2>1, <2>2
    <3>2. PICK t \in SetsOf(m) : t.revision = s.revision + 1
      BY <1>1, <3>1 DEF Chained
    <3>3. t.revision # 1
      BY <2>1, <3>2
    <3>4. PICK u \in SetsOf(m) : u.id = t.supersedes /\ t.revision = u.revision + 1
      BY <1>1, <3>3 DEF Chained
    <3>5. u.revision \in 1..Depth(m)
      BY <1>1 DEF Chained
    <3>6. u.revision = s.revision
      BY <1>1, <2>1, <3>2, <3>4, <3>5
    <3>7. u = s
      BY <1>1, <2>1, <3>6 DEF Chained
    <3> QED
      BY <2>1, <3>4, <3>7 DEF SetsOf
  <2> QED
    BY <2>2
<1>3. ASSUME NEW s \in SetsOf(m), s.revision = Depth(m)
      PROVE  s \in Current(m)
  <2>1. ASSUME NEW t \in sets, t.supersedes = s.id
        PROVE  FALSE
    <3>1. t \in SetsOf(m) /\ t.revision = Depth(m) + 1
      BY <1>3, <2>1, Successor DEF SetsOf
    <3>2. t.revision \in 1..Depth(m)
      BY <1>1, <3>1 DEF Chained
    <3> QED
      BY <1>1, <3>1, <3>2
  <2> QED
    BY <2>1 DEF Current
<1> QED
  BY <1>2, <1>3 DEF Current

LEMMA CurrentIsThere ==
  ASSUME SetsKept, NEW m \in Movements
  PROVE  Current(m) = {} <=> SetsOf(m) = {}
<1>1. ASSUME SetsOf(m) # {}
      PROVE  Current(m) # {}
  <2>1. Depth(m) \in 1..Depth(m)
    BY <1>1, DepthIsNat
  <2>2. \E s \in SetsOf(m) : s.revision = Depth(m)
    BY <2>1 DEF SetsKept, Chained
  <2> QED
    BY <2>2, CurrentIs
<1> QED
  BY <1>1 DEF Current

\* A request whose base is known.
Based(r) ==
  /\ r.movement \in Movements
  /\ r.supersedes # None => \E s \in SetsOf(r.movement) : s.id = r.supersedes

LEMMA ExpectedIs ==
  ASSUME SetsKept, NEW r, Based(r)
  PROVE  \/ r.supersedes = None /\ Expected(r) = {} /\ NextRevision(r) = 1
         \/ /\ r.supersedes # None
            /\ \E s \in SetsOf(r.movement) :
                 s.id = r.supersedes /\ Expected(r) = {s} /\ NextRevision(r) = s.revision + 1
<1>1. CASE r.supersedes = None
  BY <1>1 DEF Expected, NextRevision
<1>2. CASE r.supersedes # None
  <2>1. PICK s \in SetsOf(r.movement) : s.id = r.supersedes
    BY <1>2 DEF Based
  <2>2. \A t \in sets : t.id = r.supersedes => t = s
    BY <2>1 DEF SetsKept, SetsOf
  <2>3. Expected(r) = {s}
    BY <1>2, <2>1, <2>2 DEF Expected, SetsOf
  <2>4. (CHOOSE t \in sets : t.id = r.supersedes) = s
    BY <2>1, <2>2 DEF SetsOf
  <2>5. NextRevision(r) = s.revision + 1
    BY <1>2, <2>4 DEF NextRevision
  <2> QED
    BY <1>2, <2>1, <2>3, <2>5
<1> QED
  BY <1>1, <1>2

\* A request that builds on the current set has its place free.
LEMMA NextIs ==
  ASSUME SetsKept, NEW r, Based(r), Current(r.movement) = Expected(r)
  PROVE  /\ NextRevision(r) = Depth(r.movement) + 1
         /\ \A row \in sets : ~SamePlace(r, row)
<1>1. r.movement \in Movements /\ Depth(r.movement) \in Nat
  BY DepthIsNat DEF Based
<1>2. NextRevision(r) = Depth(r.movement) + 1
  <2>1. CASE r.supersedes = None
    <3>1. SetsOf(r.movement) = {}
      BY <2>1, <1>1, ExpectedIs, CurrentIsThere
    <3> QED
      BY <2>1, <3>1, ExpectedIs, DepthIsNat
  <2>2. CASE r.supersedes # None
    <3>1. PICK s \in SetsOf(r.movement) :
            Expected(r) = {s} /\ NextRevision(r) = s.revision + 1
      BY <2>2, ExpectedIs
    <3>2. s.revision = Depth(r.movement)
      BY <1>1, <3>1, CurrentIs
    <3> QED
      BY <3>1, <3>2
  <2> QED
    BY <2>1, <2>2
<1>3. ASSUME NEW row \in sets, row.movement = r.movement
      PROVE  row.revision # NextRevision(r)
  <2>1. row.revision \in 1..Depth(r.movement)
    BY <1>1, <1>3 DEF SetsKept, Chained, SetsOf
  <2> QED
    BY <1>1, <1>2, <2>1
<1>4. ASSUME NEW row \in sets, row.supersedes = r.supersedes, r.supersedes # None
      PROVE  FALSE
  <2>1. PICK s \in SetsOf(r.movement) : s.id = r.supersedes /\ Expected(r) = {s}
    BY <1>4, ExpectedIs
  <2>2. s \in Current(r.movement)
    BY <2>1
  <2> QED
    BY <1>4, <2>1, <2>2 DEF Current
<1> QED
  BY <1>2, <1>3, <1>4 DEF SamePlace

-----------------------------------------------------------------------------
(* A set is added *)

\* The row that a request adds to its chain.
Joins(r, row) ==
  /\ Based(r) /\ r.movement \in Eligible /\ Current(r.movement) = Expected(r)
  /\ row.movement = r.movement /\ row.supersedes = r.supersedes
  /\ row.revision = NextRevision(r)
  /\ row.id \in Nat \ {None} /\ \A s \in sets : s.id # row.id /\ s.key # row.key
  /\ row.key \in DerivedKeys => row.key[2] = row.movement

LEMMA AddedIs ==
  ASSUME SetsKept, NEW r, NEW row, Joins(r, row), sets' = sets \cup {row}
  PROVE  /\ SetsOf(r.movement)' = SetsOf(r.movement) \cup {row}
         /\ row \notin SetsOf(r.movement)
         /\ Depth(r.movement)' = Depth(r.movement) + 1
         /\ \A m \in Movements \ {r.movement} :
              SetsOf(m)' = SetsOf(m) /\ Depth(m)' = Depth(m)
<1>1. SetsOf(r.movement)' = SetsOf(r.movement) \cup {row} /\ row \notin SetsOf(r.movement)
  BY DEF SetsOf, Joins
<1>2. Depth(r.movement)' = Depth(r.movement) + 1
  BY <1>1, DepthIsNat, FS_AddElement DEF Depth
<1>3. \A m \in Movements \ {r.movement} : SetsOf(m)' = SetsOf(m)
  BY DEF SetsOf, Joins
<1> QED
  BY <1>1, <1>2, <1>3 DEF Depth

LEMMA ChainGrows ==
  ASSUME SetsKept, NEW r, NEW row, Joins(r, row), sets' = sets \cup {row}
  PROVE  Chained(r.movement)'
<1> DEFINE m == r.movement
           S == SetsOf(m)
           D == Depth(m)
<1>1. /\ S' = S \cup {row} /\ row \notin S /\ D' = D + 1 /\ D \in Nat /\ Chained(m)
      /\ row.revision = D + 1
  BY AddedIs, NextIs, DepthIsNat DEF Joins, Based, SetsKept
<1>2. IF row.revision = 1 THEN row.supersedes = None
      ELSE \E t \in S : t.id = row.supersedes /\ row.revision = t.revision + 1
  <2>1. CASE r.supersedes = None
    BY <2>1, ExpectedIs DEF Joins
  <2>2. CASE r.supersedes # None
    <3>1. PICK s \in S : s.id = r.supersedes /\ NextRevision(r) = s.revision + 1
      BY <2>2, ExpectedIs DEF Joins
    <3>2. s.revision \in 1..D
      BY <1>1 DEF Chained
    <3>3. row.revision # 1
      BY <1>1, <3>1, <3>2 DEF Joins
    <3> QED
      BY <3>1, <3>3 DEF Joins
  <2> QED
    BY <2>1, <2>2
<1>3. /\ \A s \in S : s.revision \in 1..D
      /\ \A n \in 1..D : \E s \in S : s.revision = n
      /\ \A s, t \in S : s.revision = t.revision => s = t
      /\ \A s \in S :
           IF s.revision = 1 THEN s.supersedes = None
           ELSE \E t \in S : t.id = s.supersedes /\ s.revision = t.revision + 1
  BY <1>1 DEF Chained
<1>4. \A s \in S' : s.revision \in 1..D'
  BY <1>1, <1>3
<1>5. ASSUME NEW n \in 1..(D + 1)
      PROVE  \E s \in S' : s.revision = n
  <2>1. CASE n = D + 1
    BY <1>1, <2>1
  <2>2. CASE n # D + 1
    <3>1. n \in 1..D
      BY <1>1, <2>2
    <3> QED
      BY <1>1, <1>3, <3>1
  <2> QED
    BY <2>1, <2>2
<1>6. \A s, t \in S' : s.revision = t.revision => s = t
  <2>1. \A s \in S : s.revision # row.revision
    BY <1>1, <1>3
  <2> QED
    BY <1>1, <1>3, <2>1
<1>7. \A s \in S' :
        IF s.revision = 1 THEN s.supersedes = None
        ELSE \E t \in S' : t.id = s.supersedes /\ s.revision = t.revision + 1
  BY <1>1, <1>2, <1>3
<1>8. \A n \in 1..D' : \E s \in S' : s.revision = n
  BY <1>1, <1>5
<1> QED
  BY <1>4, <1>6, <1>7, <1>8 DEF Chained

LEMMA AddSet ==
  ASSUME SetsKept, NEW r, NEW row, Joins(r, row), sets' = sets \cup {row}
  PROVE  SetsKept'
<1>1. IsFiniteSet(sets')
  BY FS_AddElement DEF SetsKept
<1>2. ASSUME NEW m \in Movements
      PROVE  Chained(m)'
  <2>1. CASE m = r.movement
    BY <2>1, ChainGrows
  <2>2. CASE m # r.movement
    <3>1. SetsOf(m)' = SetsOf(m) /\ Depth(m)' = Depth(m) /\ Chained(m)
      BY <2>2, AddedIs DEF SetsKept
    <3> QED
      BY <3>1 DEF Chained
  <2> QED
    BY <2>1, <2>2
<1>3. \A s \in sets' :
        /\ s.movement \in Eligible /\ s.id \in Nat \ {None}
        /\ s.key \in DerivedKeys => s.key[2] = s.movement
  BY DEF SetsKept, Joins
<1>4. \A s, t \in sets' : s.id = t.id \/ s.key = t.key => s = t
  BY DEF SetsKept, Joins
<1> QED
  BY <1>1, <1>2, <1>3, <1>4 DEF SetsKept

\* What a request builds on stays what it was.
LEMMA BaseStays ==
  ASSUME SetsKept, NEW r, NEW row, Joins(r, row), sets' = sets \cup {row},
         NEW q, Based(q)
  PROVE  Based(q)' /\ Expected(q)' = Expected(q) /\ NextRevision(q)' = NextRevision(q)
<1>1. Based(q)'
  BY DEF Based, SetsOf
<1>2. CASE q.supersedes = None
  BY <1>1, <1>2 DEF Expected, NextRevision
<1>3. CASE q.supersedes # None
  <2>1. PICK s \in sets : s.id = q.supersedes
    BY <1>3 DEF Based, SetsOf
  <2>2. row.id # q.supersedes /\ \A t \in sets : t.id = q.supersedes => t = s
    BY <2>1 DEF Joins, SetsKept
  <2>3. {t \in sets' : t.id = q.supersedes} = {s} /\ {t \in sets : t.id = q.supersedes} = {s}
    BY <2>1, <2>2
  <2>4. /\ (CHOOSE t \in sets : t.id = q.supersedes) = s
        /\ (CHOOSE t \in sets' : t.id = q.supersedes) = s
    BY <2>1, <2>2
  <2> QED
    BY <1>1, <1>3, <2>3, <2>4 DEF Expected, NextRevision
<1> QED
  BY <1>2, <1>3

LEMMA CurrentElsewhere ==
  ASSUME SetsKept, NEW r, NEW row, Joins(r, row), sets' = sets \cup {row},
         NEW m \in Movements, m # r.movement
  PROVE  Current(m)' = Current(m)
<1>1. ASSUME NEW s \in SetsOf(m), row.supersedes = s.id
      PROVE  FALSE
  <2>1. s \in sets /\ s.movement = m /\ s.id # None
    BY DEF SetsKept, SetsOf
  <2>2. PICK u \in SetsOf(r.movement) : u.id = s.id
    BY <1>1, <2>1 DEF Joins, Based
  <2>3. u = s
    BY <2>1, <2>2 DEF SetsKept, SetsOf
  <2> QED
    BY <2>1, <2>2, <2>3 DEF SetsOf
<1>2. SetsOf(m)' = SetsOf(m)
  BY AddedIs
<1> QED
  BY <1>1, <1>2 DEF Current

\* Nobody else expected the set that has come.
LEMMA CurrentIsNew ==
  ASSUME SetsKept, NEW r, NEW row, Joins(r, row), sets' = sets \cup {row},
         NEW q, Based(q), q.movement = r.movement
  PROVE  Current(q.movement)' # Expected(q)'
<1>1. ASSUME NEW t \in sets', t.supersedes = row.id
      PROVE  FALSE
  <2>1. \E s \in sets : s.id = row.id
    <3>1. CASE t \in sets
      <4>1. t \in SetsOf(t.movement) /\ t.movement \in Movements /\ row.id # None
        BY <3>1, EligibleAssumption DEF SetsKept, SetsOf, Joins
      <4> QED
        BY <1>1, <4>1 DEF SetsKept, Chained, SetsOf
    <3>2. CASE t = row
      BY <1>1, <3>2 DEF Joins, Based, SetsOf
    <3> QED
      BY <3>1, <3>2
  <2> QED
    BY <2>1 DEF Joins
<1>2. row \in Current(q.movement)'
  BY <1>1 DEF Current, SetsOf, Joins
<1>3. row \notin Expected(q)'
  <2>1. q.supersedes # row.id
    BY DEF Based, SetsOf, Joins
  <2> QED
    BY <2>1 DEF Expected
<1> QED
  BY <1>2, <1>3

-----------------------------------------------------------------------------
(* What is said of rows that stay *)

\* What was told stays true while the tables stay.
LEMMA TruthStays ==
  ASSUME UNCHANGED tables, NEW r, NEW kind, IsTrue(r, kind)
  PROVE  IsTrue(r, kind)'
<1>1. sets' = sets /\ rules' = rules
  BY DEF tables
<1>2. /\ RowsWithKey(r)' = RowsWithKey(r) /\ SetsOf(r.movement)' = SetsOf(r.movement)
      /\ Current(r.movement)' = Current(r.movement) /\ Expected(r)' = Expected(r)
      /\ Ids(Open(rules))' = Ids(Open(rules))
  BY <1>1 DEF RowsWithKey, SetsOf, Current, Expected, Ids, Open
<1> QED
  BY <1>2 DEF IsTrue

\* The fields of what c asked for that its row and its place depend on.
LEMMA AskedBased ==
  ASSUME NEW c \in Callers, Asked(c), req[c].op \in Ops
  PROVE  Based(req[c])
BY DEF Asked, Based

\* What is said of a caller rests on its own variables, its locks and the tables.
Same(d) ==
  /\ pc'[d] = pc[d] /\ req'[d] = req[d] /\ work'[d] = work[d] /\ answer'[d] = answer[d]
  /\ \A m \in Movements : rowLock[m] = d => rowLock'[m] = d
  /\ ruleLock = d => ruleLock' = d

LEMMA SameKeeps ==
  ASSUME Shape, UNCHANGED tables, NEW d \in Callers, Same(d), Caller(d)
  PROVE  Caller(d)'
<1>1. sets' = sets /\ rules' = rules
  BY DEF tables
<1>2. pc'[d] = pc[d] /\ req'[d] = req[d] /\ work'[d] = work[d] /\ answer'[d] = answer[d]
  BY DEF Same
<1>3. PICK r, p, w, k : r = req[d] /\ p = pc[d] /\ w = work[d] /\ k = answer[d]
  OBVIOUS
<1>4. /\ Expected(r)' = Expected(r) /\ NextRevision(r)' = NextRevision(r)
      /\ Current(r.movement)' = Current(r.movement)
      /\ SetsOf(r.movement)' = SetsOf(r.movement)
      /\ Ids(rules)' = Ids(rules) /\ Ids(Open(rules))' = Ids(Open(rules))
      /\ RowsWithKey(r)' = RowsWithKey(r)
      /\ Winners(r.movement, Open(rules))' = Winners(r.movement, Open(rules))
  BY <1>1 DEF Expected, NextRevision, Current, SetsOf, Ids, Open, Winners, Matching, Applies,
    RowsWithKey
<1>5. Asked(d)'
  BY <1>2, <1>3, <1>4 DEF Caller, Asked
<1>6. Holding(d)'
  BY <1>2 DEF Caller, Holding, Same, Classifying, Asked
<1>7. Written(d)'
  BY <1>1, <1>2, <1>3, <1>4 DEF Caller, Written, Classifying, IsNewSet, IsNewRule
<1>8. Stage(d)'
  BY <1>2, <1>3, <1>4 DEF Caller, Stage, Classifying
<1>9. Told(d)'
  <2>1. k # "none" => IsTrue(r, k)'
    BY <1>3, TruthStays DEF Caller, Told
  <2> QED
    BY <1>2, <1>3, <2>1 DEF Caller, Told
<1> QED
  BY <1>5, <1>6, <1>7, <1>8, <1>9 DEF Caller

-----------------------------------------------------------------------------
(* Steps of one caller *)

LEMMA OneCaller ==
  ASSUME IInv, UNCHANGED tables, NEW c \in Callers, Shape', Caller(c)',
         \A d \in Callers \ {c} : Same(d),
         \A d \in Callers \ {c} : \A s \in work'[c].sets : \A t \in work[d].sets :
           s.id # t.id /\ s.key # t.key
  PROVE  IInv'
<1>1. SetsKept' /\ RulesKept'
  <2>1. sets' = sets /\ rules' = rules
    BY DEF tables
  <2> QED
    BY <2>1 DEF IInv, SetsKept, RulesKept, Chained, Depth, SetsOf
<1>2. ASSUME NEW d \in Callers
      PROVE  Caller(d)'
  BY SameKeeps DEF IInv
<1>3. ASSUME NEW d \in Callers, NEW e \in Callers, d # e
      PROVE  Apart(d, e)'
  <2>1. CASE d # c /\ e # c
    BY <1>3, <2>1 DEF IInv, Apart, Same
  <2>2. CASE d = c
    BY <1>3, <2>2 DEF Apart, Same
  <2>3. CASE e = c
    BY <1>3, <2>3 DEF Apart, Same
  <2> QED
    BY <2>1, <2>2, <2>3
<1> QED
  BY <1>1, <1>2, <1>3 DEF IInv

\* A caller whose call, or whose pair, is over.
LEMMA EndIs ==
  ASSUME IInv, NEW c \in Callers, NEW kind, NEW label, End(c, kind, label)
  PROVE  /\ pc'[c] = label /\ req' = req /\ work'[c] = NoWork /\ answer'[c] = kind
         /\ Shape' /\ \A d \in Callers \ {c} : Same(d)
<1>1. /\ pc'[c] = label /\ req' = req /\ work'[c] = NoWork /\ answer'[c] = kind
      /\ DOMAIN pc' = Callers /\ DOMAIN work' = Callers /\ DOMAIN answer' = Callers
      /\ DOMAIN rowLock' = Movements
      /\ \A d \in Callers \ {c} :
           pc'[d] = pc[d] /\ work'[d] = work[d] /\ answer'[d] = answer[d]
  BY DEF End, IInv, Shape
<1>2. \A d \in Callers \ {c} :
        /\ \A m \in Movements : rowLock[m] = d => rowLock'[m] = d
        /\ ruleLock = d => ruleLock' = d
  BY DEF End
<1>3. Shape'
  BY <1>1 DEF IInv, Shape, NoWork, WorkFields
<1> QED
  BY <1>1, <1>2, <1>3 DEF Same

LEMMA EndedCaller ==
  ASSUME NEW c \in Callers, NEW r, NEW kind, Asked(c), r = req[c], req' = req,
         pc'[c] \in {"idle", "pair"}, pc'[c] = "pair" => r.items # <<>>,
         work'[c] = NoWork, answer'[c] = kind, r.op \in Ops \cup {"page"}, kind \in Kinds(r.op),
         IsTrue(r, kind)', sets \subseteq sets', Ids(rules) \subseteq Ids(rules)'
  PROVE  Caller(c)'
<1>1. Asked(c)'
  <2>1. (\E s \in SetsOf(r.movement) : s.id = r.supersedes) =>
          \E s \in SetsOf(r.movement)' : s.id = r.supersedes
    BY DEF SetsOf
  <2>2. pc'[c] \in Places(r.op)
    BY DEF Asked, Places, Ops
  <2> QED
    BY <2>1, <2>2 DEF Asked, Ops
<1>2. Holding(c)' /\ Stage(c)'
  BY DEF Holding, Stage
<1>3. Written(c)'
  BY DEF Written, NoWork
<1>4. Told(c)'
  BY DEF Told
<1> QED
  BY <1>1, <1>2, <1>3, <1>4 DEF Caller

\* A refusal ends the call or, in a batch, goes on to the next pair.
LEMMA RefuseKeeps ==
  ASSUME IInv, NEW c \in Callers, NEW kind, Refuse(c, kind), pc[c] # "idle",
         NEW r, r = req[c], kind \in Kinds(r.op), IsTrue(r, kind)
  PROVE  IInv'
<1> DEFINE label == IF req[c].items = <<>> THEN "idle" ELSE "pair"
<1>1. End(c, kind, label) /\ UNCHANGED tables
  BY DEF Refuse, Return
<1>2. label \in {"idle", "pair"} /\ (label = "pair" => r.items # <<>>)
  OBVIOUS
<1> HIDE DEF label
<1>3. Asked(c) /\ r.op \in Ops \cup {"page"}
  BY DEF IInv, Caller, Asked, Places
<1>4. sets' = sets /\ rules' = rules
  BY <1>1 DEF tables
<1>5. IsTrue(r, kind)'
  BY <1>1, TruthStays
<1>6. Caller(c)'
  BY <1>1, <1>2, <1>3, <1>4, <1>5, EndIs, EndedCaller DEF Ids
<1> QED
  BY <1>1, <1>6, EndIs, OneCaller DEF NoWork

LEMMA CutKeeps ==
  ASSUME IInv, NEW c \in Callers, Cut(c)
  PROVE  IInv'
<1>1. PICK r : r = req[c]
  OBVIOUS
<1>2. Asked(c) /\ r.op \in Ops \cup {"page"} /\ pc[c] # "idle"
  BY <1>1 DEF Cut, IInv, Caller, Asked, Places
<1>3. "lost" \in Kinds(r.op)
  BY <1>2 DEF Kinds, Ops
<1>4. IsTrue(r, "lost")
  BY <1>2 DEF IsTrue, Status, AllocationStatus, CategorizationStatus, Ops
<1>5. CASE Refuse(c, "lost")
  BY <1>1, <1>2, <1>3, <1>4, <1>5, RefuseKeeps
<1>6. CASE End(c, "lost", "idle") /\ UNCHANGED tables
  <2>1. sets' = sets /\ rules' = rules
    BY <1>6 DEF tables
  <2>2. IsTrue(r, "lost")'
    BY <1>4, <1>6, TruthStays
  <2>3. Caller(c)'
    BY <1>1, <1>2, <1>3, <1>6, <2>1, <2>2, EndIs, EndedCaller DEF Ids
  <2> QED
    BY <1>6, <2>3, EndIs, OneCaller DEF NoWork
<1> QED
  BY <1>5, <1>6 DEF Cut

-----------------------------------------------------------------------------
(* The statements of a classification *)

\* A statement that is not the last of its call.
LEMMA GoesOn ==
  ASSUME IInv, NEW c \in Callers, NEW label, Goto(c, label),
         pc[c] \notin {"idle", "pair"}, label \notin {"idle", "pair"},
         label \in Places(req[c].op), DOMAIN work' = Callers, DOMAIN work'[c] = WorkFields,
         DOMAIN rowLock' = Movements,
         \A d \in Callers \ {c} :
           /\ work'[d] = work[d]
           /\ \A m \in Movements : rowLock[m] = d => rowLock'[m] = d
           /\ ruleLock = d => ruleLock' = d
           /\ \A s \in work'[c].sets : \A t \in work[d].sets : s.id # t.id /\ s.key # t.key,
         Holding(c)', Written(c)', Stage(c)'
  PROVE  IInv'
<1>1. /\ pc'[c] = label /\ req' = req /\ answer' = answer /\ UNCHANGED tables
      /\ DOMAIN pc' = Callers /\ \A d \in Callers \ {c} : pc'[d] = pc[d]
  BY DEF Goto, IInv, Shape
<1>2. Shape' /\ \A d \in Callers \ {c} : Same(d)
  BY <1>1 DEF IInv, Shape, Same
<1>3. Asked(c) /\ Told(c)
  BY DEF IInv, Caller
<1>4. sets' = sets /\ rules' = rules
  BY <1>1 DEF tables
<1>5. Asked(c)'
  BY <1>1, <1>3, <1>4 DEF Asked, SetsOf, Ids
<1>6. Told(c)'
  BY <1>1, <1>3 DEF Told
<1> QED
  BY <1>1, <1>2, <1>5, <1>6, OneCaller DEF Caller

LEMMA ReadKeeps ==
  ASSUME IInv, NEW c \in Callers, NEW label, Read(c, label),
         pc[c] \notin {"idle", "pair", "origin", "commit"},
         label \notin {"idle", "pair", "origin", "commit"},
         label \in Places(req[c].op), Holding(c)', Stage(c)'
  PROVE  IInv'
<1>1. /\ Goto(c, label) /\ work' = work /\ rowLock' = rowLock /\ ruleLock' = ruleLock
      /\ pc'[c] = label /\ req' = req
  BY DEF Read, locks, Goto, IInv, Shape
<1>2. Written(c)'
  BY <1>1 DEF IInv, Caller, Written, Classifying
<1>3. DOMAIN work = Callers /\ DOMAIN work[c] = WorkFields /\ DOMAIN rowLock = Movements
  BY DEF IInv, Shape
<1>4. \A d \in Callers \ {c} : \A s \in work[c].sets : \A t \in work[d].sets :
        s.id # t.id /\ s.key # t.key
  BY DEF IInv, Apart
<1> QED
  BY <1>1, <1>2, <1>3, <1>4, GoesOn

LEMMA ReplayedIsTrue ==
  ASSUME NEW r, r.op \in {"classify", "create_rule"}, RowsWithKey(r) # {}
  PROVE  IsTrue(r, Replayed(r)) /\ Replayed(r) \in Kinds(r.op)
BY DEF IsTrue, Replayed, Kinds, Status, AllocationStatus, CategorizationStatus

LEMMA LookupKeeps ==
  ASSUME IInv, NEW c \in Callers, Lookup(c)
  PROVE  IInv'
<1>1. PICK r : r = req[c]
  OBVIOUS
<1>2. pc[c] = "lookup" /\ r.op = "classify"
  BY <1>1 DEF Lookup, IInv, Caller, Asked, Places, Ops
<1>3. CASE RowsWithKey(r) # {} /\ Refuse(c, Replayed(r))
  BY <1>1, <1>2, <1>3, ReplayedIsTrue, RefuseKeeps
<1>4. CASE Read(c, "lock")
  <2>1. pc'[c] = "lock" /\ req' = req
    BY <1>4 DEF Read, Goto, IInv, Shape
  <2>2. Holding(c)' /\ Stage(c)'
    BY <1>1, <1>2, <2>1 DEF Holding, Stage, Classifying
  <2>3. "lock" \in Places(req[c].op)
    BY <1>1, <1>2 DEF Places
  <2> QED
    BY <1>2, <1>4, <2>2, <2>3, ReadKeeps
<1> QED
  BY <1>1, <1>3, <1>4 DEF Lookup

LEMMA TakeRuleLockKeeps ==
  ASSUME IInv, NEW c \in Callers, TakeRuleLock(c)
  PROVE  IInv'
<1>1. /\ pc[c] = "rulelock" /\ ruleLock = Nobody /\ ruleLock' = c
      /\ work' = work /\ rowLock' = rowLock
  BY DEF TakeRuleLock, RuleLockFree
<1>2. PICK op : op = req[c].op
  OBVIOUS
<1>3. op \in {"apply", "create_rule", "disable"}
  BY <1>1, <1>2 DEF IInv, Caller, Asked, Places, Ops
<1>4. PICK label : /\ Goto(c, label) /\ label \in {"lock", "rulekey", "update"}
                   /\ label \in Places(op)
  BY <1>2, <1>3 DEF TakeRuleLock, Places
<1>5. pc'[c] = label /\ req' = req
  BY <1>4 DEF Goto, IInv, Shape
<1>6. Holding(c)' /\ Stage(c)'
  BY <1>1, <1>2, <1>4, <1>5 DEF Holding, Stage, Classifying
<1>7. Written(c)'
  BY <1>1, <1>4, <1>5 DEF IInv, Caller, Written, Classifying
<1>8. DOMAIN work = Callers /\ DOMAIN work[c] = WorkFields /\ DOMAIN rowLock = Movements
  BY DEF IInv, Shape
<1>9. \A d \in Callers \ {c} :
        /\ ruleLock # d
        /\ \A s \in work[c].sets : \A t \in work[d].sets : s.id # t.id /\ s.key # t.key
  BY <1>1, CallersAssumption DEF IInv, Apart
<1> QED
  BY <1>1, <1>2, <1>4, <1>6, <1>7, <1>8, <1>9, GoesOn

LEMMA LockMovementKeeps ==
  ASSUME IInv, NEW c \in Callers, LockMovement(c)
  PROVE  IInv'
<1>1. PICK r : r = req[c]
  OBVIOUS
<1>2. pc[c] = "lock" /\ r.op \in {"classify", "apply"} /\ r.movement \in Movements
  BY <1>1 DEF LockMovement, IInv, Caller, Asked, Places, Ops
<1>3. CASE Refuse(c, IF r.op = "apply" THEN "ineligible" ELSE "not_found")
  <2> DEFINE kind == IF r.op = "apply" THEN "ineligible" ELSE "not_found"
  <2>1. kind \in Kinds(r.op) /\ IsTrue(r, kind)
    BY <1>2 DEF Kinds, IsTrue, Status, AllocationStatus
  <2> HIDE DEF kind
  <2>2. Refuse(c, kind)
    BY <1>3 DEF kind
  <2> QED
    BY <1>1, <1>2, <2>1, <2>2, RefuseKeeps
<1>4. CASE /\ r.movement \in Eligible /\ rowLock[r.movement] = Nobody
           /\ rowLock' = [rowLock EXCEPT ![r.movement] = c]
           /\ Goto(c, IF r.op = "apply" THEN "current" ELSE "recheck")
           /\ UNCHANGED <<work, ruleLock>>
  <2>1. PICK label : /\ label = IF r.op = "apply" THEN "current" ELSE "recheck"
                     /\ Goto(c, label)
    BY <1>4
  <2>2. pc'[c] = label /\ req' = req /\ work' = work /\ ruleLock' = ruleLock
    BY <1>4, <2>1 DEF Goto, IInv, Shape
  <2>3. /\ DOMAIN rowLock' = Movements /\ rowLock'[r.movement] = c
        /\ \A d \in Callers : \A m \in Movements : rowLock[m] = d => rowLock'[m] = d
    BY <1>2, <1>4, CallersAssumption DEF IInv, Shape
  <2>4. label \in Places(r.op) /\ label \in {"current", "recheck"}
    BY <1>2, <2>1 DEF Places
  <2>5. Holding(c)'
    <3>1. r.op = "apply" => ruleLock = c
      BY <1>1, <1>2 DEF IInv, Caller, Holding
    <3> QED
      BY <1>1, <1>2, <1>4, <2>2, <2>3, <3>1 DEF Holding, Classifying
  <2>6. Written(c)'
    BY <1>2, <2>2, <2>4 DEF IInv, Caller, Written, Classifying
  <2>7. Stage(c)'
    BY <1>1, <1>2, <2>1, <2>2 DEF Stage, Classifying, IInv, Caller, Asked
  <2>8. DOMAIN work = Callers /\ DOMAIN work[c] = WorkFields
        /\ \A d \in Callers \ {c} : \A s \in work[c].sets : \A t \in work[d].sets :
             s.id # t.id /\ s.key # t.key
    BY DEF IInv, Shape, Apart
  <2> QED
    BY <1>1, <1>2, <2>1, <2>2, <2>3, <2>4, <2>5, <2>6, <2>7, <2>8, GoesOn
<1> QED
  BY <1>1, <1>3, <1>4 DEF LockMovement

-----------------------------------------------------------------------------
(* A call and its pairs *)

LEMMA ItemsAre ==
  ASSUME NEW q \in Seq(Movements), NEW p \in [1..Len(q) -> Nat]
  PROVE  /\ Pairs(q, p) \in Seq(Movements \X Nat)
         /\ Pairs(q, p) = <<>> <=> q = <<>>
<1>1. Len(q) \in Nat /\ \A i \in 1..Len(q) : q[i] \in Movements
  OBVIOUS
<1>2. Pairs(q, p) \in Seq(Movements \X Nat) /\ Len(Pairs(q, p)) = Len(q)
  BY <1>1 DEF Pairs
<1> QED
  BY <1>1, <1>2

LEMMA HeadAndTail ==
  ASSUME NEW S, NEW q \in Seq(S), q # <<>>
  PROVE  Head(q) \in S /\ Tail(q) \in Seq(S)
<1>1. Len(q) \in Nat /\ Len(q) # 0
  OBVIOUS
<1> QED
  BY <1>1

LEMMA AskKeeps ==
  ASSUME IInv, NEW c \in Callers, Ask(c)
  PROVE  IInv'
<1>1. PICK r \in Requests : \E draft \in Drafts(r) :
        /\ req' = [req EXCEPT ![c] = draft]
        /\ pc' = [pc EXCEPT ![c] = FirstStatement(draft.op)]
  BY DEF Ask
<1>2. PICK q \in Drafts(r) : /\ req' = [req EXCEPT ![c] = q]
                             /\ pc' = [pc EXCEPT ![c] = FirstStatement(q.op)]
  BY <1>1
<1>3. PICK s \in IF r.op = "classify" THEN Shown(r.movement) \cup {None} ELSE {None},
           t \in IF r.op = "disable" THEN Ids(rules) ELSE {None},
           ids \in [1..Len(r.items) -> Ids(rules)] :
        q = Targeted(r, s, t, ids)
  BY DEF Drafts
<1>4. /\ DOMAIN r = RequestFields
      /\ r.op \in Ops /\ r.movement \in Movements /\ r.fits \in BOOLEAN
      /\ IF r.op = "apply" THEN r.items \in Seq(Movements) \ {<<>>} /\ r.fits
         ELSE r.items = <<>> /\ r.key \notin DerivedKeys
  BY RequestsAssumption
<1>5. /\ DOMAIN q = RequestFields /\ q.op = r.op /\ q.movement = r.movement
      /\ q.fits = r.fits /\ q.key = r.key /\ q.supersedes = s /\ q.rule = t
      /\ q.items = Pairs(r.items, ids)
  BY <1>3, <1>4 DEF RequestFields, Targeted
<1>6. Ids(rules) \subseteq Nat
  BY DEF IInv, RulesKept, IsRule, Ids
<1>7. r.items \in Seq(Movements) /\ ids \in [1..Len(r.items) -> Nat]
  BY <1>4, <1>6
<1>8. q.items \in Seq(Movements \X Nat) /\ (q.items = <<>> <=> r.items = <<>>)
  BY <1>5, <1>7, ItemsAre
<1>9. s # None => \E row \in SetsOf(r.movement) : row.id = s
  BY DEF Shown, Ids
<1>10. /\ pc[c] = "idle" /\ answer' = [answer EXCEPT ![c] = "none"]
       /\ work' = work /\ rowLock' = rowLock /\ ruleLock' = ruleLock /\ UNCHANGED tables
  BY DEF Ask, locks
<1>11. /\ req'[c] = q /\ pc'[c] = FirstStatement(q.op) /\ answer'[c] = "none"
       /\ Shape' /\ \A d \in Callers \ {c} : Same(d)
  BY <1>2, <1>10 DEF IInv, Shape, Same
<1>12. sets' = sets /\ rules' = rules
  BY <1>10 DEF tables
<1>13. Asked(c)'
  <2>1. (\E row \in SetsOf(q.movement) : row.id = q.supersedes) =>
          \E row \in SetsOf(q.movement)' : row.id = q.supersedes
    BY <1>12 DEF SetsOf
  <2>2. pc'[c] \in Places(q.op) /\ (pc'[c] = "pair" => q.op = "apply")
        /\ (q.op = "apply" => pc'[c] = "pair")
    BY <1>4, <1>5, <1>11 DEF FirstStatement, Places, Ops
  <2>3. q.op = "disable" => q.rule \in Ids(rules)'
    BY <1>3, <1>5, <1>12 DEF Ids
  <2>4. q.op = "apply" => q.supersedes = None
    BY <1>3, <1>5
  <2>5. q.op # "apply" => q.key \notin DerivedKeys
    BY <1>4, <1>5
  <2> QED
    BY <1>4, <1>5, <1>7, <1>8, <1>9, <1>11, <2>1, <2>2, <2>3, <2>4, <2>5 DEF Asked
<1>14. pc'[c] \in {"lookup", "pair", "rulelock"}
  BY <1>11 DEF FirstStatement
<1>15. pc'[c] = "lookup" => q.op = "classify"
  BY <1>4, <1>5, <1>11 DEF FirstStatement, Ops
<1>16. Holding(c)' /\ Stage(c)' /\ Told(c)'
  BY <1>11, <1>14, <1>15 DEF Holding, Stage, Told, Classifying
<1>17. Written(c)' /\ work[c].sets = {}
  BY <1>10, <1>11, <1>14 DEF IInv, Caller, Written, Classifying
<1> QED
  BY <1>10, <1>11, <1>13, <1>16, <1>17, OneCaller DEF Caller

LEMMA NextPairKeeps ==
  ASSUME IInv, NEW c \in Callers, NextPair(c)
  PROVE  IInv'
<1>1. PICK r : r = req[c]
  OBVIOUS
<1> DEFINE pair == Head(r.items)
           q == [r EXCEPT !.movement = pair[1], !.rule = pair[2], !.items = Tail(r.items)]
<1>2. /\ pc[c] = "pair" /\ req' = [req EXCEPT ![c] = q] /\ pc' = [pc EXCEPT ![c] = "rulelock"]
      /\ answer' = [answer EXCEPT ![c] = "none"]
      /\ work' = work /\ rowLock' = rowLock /\ ruleLock' = ruleLock /\ UNCHANGED tables
  BY <1>1 DEF NextPair, locks
<1>3. /\ r.op = "apply" /\ DOMAIN r = RequestFields /\ r.fits /\ r.supersedes = None
      /\ r.items \in Seq(Movements \X Nat) /\ r.items # <<>>
  BY <1>1, <1>2 DEF IInv, Caller, Asked, Places, Ops
<1>4. pair \in Movements \X Nat /\ Tail(r.items) \in Seq(Movements \X Nat)
  BY <1>3, HeadAndTail
<1>5. /\ DOMAIN q = RequestFields /\ q.op = "apply" /\ q.movement \in Movements
      /\ q.rule \in Nat /\ q.items \in Seq(Movements \X Nat) /\ q.supersedes = None
  BY <1>3, <1>4 DEF RequestFields
<1>6. q.fits
  <2>1. q.fits = r.fits
    BY <1>3 DEF RequestFields
  <2> QED
    BY <1>3, <2>1
<1> HIDE DEF q, pair
<1>7. /\ req'[c] = q /\ pc'[c] = "rulelock" /\ answer'[c] = "none"
      /\ Shape' /\ \A d \in Callers \ {c} : Same(d)
  BY <1>2 DEF IInv, Shape, Same
<1>8. Asked(c)'
  BY <1>5, <1>6, <1>7 DEF Asked, Places, Ops
<1>9. Holding(c)' /\ Stage(c)' /\ Told(c)'
  BY <1>7 DEF Holding, Stage, Told
<1>10. Written(c)' /\ work[c].sets = {}
  BY <1>2, <1>7 DEF IInv, Caller, Written, Classifying
<1> QED
  BY <1>2, <1>7, <1>8, <1>9, <1>10, OneCaller DEF Caller

-----------------------------------------------------------------------------
(* What a transaction reads *)

LEMMA RecheckKeeps ==
  ASSUME IInv, NEW c \in Callers, Recheck(c)
  PROVE  IInv'
<1>1. PICK r : r = req[c]
  OBVIOUS
<1>2. pc[c] = "recheck" /\ r.op = "classify" /\ Holding(c)
  BY <1>1 DEF Recheck, IInv, Caller, Asked, Places, Ops
<1>3. CASE RowsWithKey(r) # {} /\ Refuse(c, Replayed(r))
  BY <1>1, <1>2, <1>3, ReplayedIsTrue, RefuseKeeps
<1>4. CASE Refuse(c, "invalid")
  <2>1. "invalid" \in Kinds(r.op) /\ IsTrue(r, "invalid")
    BY <1>2 DEF Kinds, IsTrue, Status, AllocationStatus
  <2> QED
    BY <1>1, <1>2, <1>4, <2>1, RefuseKeeps
<1>5. CASE RowsWithKey(r) = {} /\ r.fits /\ Read(c, "current")
  <2>1. /\ pc'[c] = "current" /\ req' = req /\ rowLock' = rowLock /\ ruleLock' = ruleLock
        /\ sets' = sets /\ rules' = rules
    BY <1>5 DEF Read, Goto, IInv, Shape, locks, tables
  <2>2. Holding(c)'
    BY <1>1, <1>2, <2>1 DEF Holding, Classifying
  <2>3. RowsWithKey(r)' = RowsWithKey(r)
    BY <2>1 DEF RowsWithKey
  <2>4. Stage(c)'
    BY <1>1, <1>2, <1>5, <2>1, <2>3 DEF Stage, Classifying
  <2>5. "current" \in Places(req[c].op)
    BY <1>1, <1>2 DEF Places
  <2> QED
    BY <1>2, <1>5, <2>2, <2>4, <2>5, ReadKeeps
<1> QED
  BY <1>1, <1>3, <1>4, <1>5 DEF Recheck, KeyTaken, Fits

LEMMA ReadCurrentKeeps ==
  ASSUME IInv, NEW c \in Callers, ReadCurrent(c)
  PROVE  IInv'
<1>1. PICK r : r = req[c]
  OBVIOUS
<1>2. /\ pc[c] = "current" /\ r.op \in {"classify", "apply"} /\ Holding(c) /\ r.fits
      /\ r.op = "classify" => \A row \in RowsWithKey(r) : row.digest # DigestOf(r)
      /\ r.op = "apply" => r.supersedes = None
  BY <1>1 DEF ReadCurrent, IInv, Caller, Asked, Places, Ops, Stage, Classifying
<1>3. CASE r.op = "apply" /\ Current(r.movement) # {} /\ Refuse(c, "already")
  <2>1. "already" \in Kinds(r.op) /\ IsTrue(r, "already")
    BY <1>3 DEF Kinds, IsTrue, Current
  <2> QED
    BY <1>1, <1>2, <1>3, <2>1, RefuseKeeps
<1>4. CASE r.op = "classify" /\ Current(r.movement) # Expected(r) /\ Refuse(c, "stale")
  <2>1. "stale" \in Kinds(r.op) /\ IsTrue(r, "stale")
    BY <1>2, <1>4 DEF Kinds, IsTrue, Status, AllocationStatus
  <2> QED
    BY <1>1, <1>2, <1>4, <2>1, RefuseKeeps
<1>5. ASSUME NEW label, label = IF r.op = "apply" THEN "evaluate" ELSE "insert",
             Current(r.movement) = Expected(r), Read(c, label)
      PROVE  IInv'
  <2>1. /\ pc'[c] = label /\ req' = req /\ rowLock' = rowLock /\ ruleLock' = ruleLock
        /\ sets' = sets /\ rules' = rules
    BY <1>5 DEF Read, Goto, IInv, Shape, locks, tables
  <2>2. Holding(c)'
    BY <1>1, <1>2, <1>5, <2>1 DEF Holding, Classifying
  <2>3. Current(r.movement)' = Current(r.movement) /\ Expected(r)' = Expected(r)
    BY <2>1 DEF Current, SetsOf, Expected
  <2>4. Stage(c)'
    BY <1>1, <1>2, <1>5, <2>1, <2>3 DEF Stage, Classifying
  <2>5. label \in Places(req[c].op) /\ label \in {"evaluate", "insert"}
    BY <1>1, <1>2, <1>5 DEF Places
  <2> QED
    BY <1>2, <1>5, <2>2, <2>4, <2>5, ReadKeeps
<1>6. r.op = "apply" => Expected(r) = {}
  BY <1>2 DEF Expected
<1> QED
  BY <1>1, <1>2, <1>3, <1>4, <1>5, <1>6 DEF ReadCurrent

\* A rule that wins alone.
LEMMA SoleWinner ==
  ASSUME NEW S, IsFiniteSet(S), S # {}, ~(Cardinality(S) > 1)
  PROVE  \E w : S = {w}
<1>1. Cardinality(S) \in Nat /\ Cardinality(S) # 0
  BY FS_CardinalityType, FS_EmptySet
<1>2. Cardinality(S) = 1
  BY <1>1
<1> QED
  BY <1>2, FS_Singleton

LEMMA WinnersFinite ==
  ASSUME RulesKept, NEW m
  PROVE  IsFiniteSet(Winners(m, Open(rules))) /\ Winners(m, Open(rules)) \subseteq Open(rules)
<1>1. Winners(m, Open(rules)) \subseteq Open(rules) /\ Open(rules) \subseteq rules
  BY DEF Winners, Matching, Open
<1> QED
  BY <1>1, FS_Subset DEF RulesKept

LEMMA EvaluateKeeps ==
  ASSUME IInv, NEW c \in Callers, Evaluate(c)
  PROVE  IInv'
<1>1. PICK r, winners : r = req[c] /\ winners = Winners(r.movement, Open(rules))
  OBVIOUS
<1>2. /\ pc[c] = "evaluate" /\ r.op = "apply" /\ Asked(c) /\ Holding(c) /\ Written(c) /\ Told(c)
      /\ r.fits /\ Current(r.movement) = Expected(r)
  BY <1>1 DEF Evaluate, IInv, Caller, Asked, Places, Ops, Stage, Classifying
<1>3. ASSUME NEW kind \in {"no_match", "ambiguous", "conflict"}, Refuse(c, kind)
      PROVE  IInv'
  <2>1. kind \in Kinds(r.op) /\ IsTrue(r, kind)
    BY <1>2, <1>3 DEF Kinds, IsTrue
  <2> QED
    BY <1>1, <1>2, <1>3, <2>1, RefuseKeeps
<1>4. CASE /\ winners # {} /\ ~(Cardinality(winners) > 1) /\ r.rule \in Ids(winners)
           /\ pc' = [pc EXCEPT ![c] = "insert"]
           /\ req' = [req EXCEPT ![c].shares = (CHOOSE s \in winners : TRUE).draft.target]
           /\ UNCHANGED <<tables, work, locks, answer, calls>>
  <2>1. PICK w : winners = {w}
    BY <1>1, <1>4, WinnersFinite, SoleWinner DEF IInv
  <2>2. (CHOOSE s \in winners : TRUE) = w /\ w.id = r.rule
    BY <1>4, <2>1 DEF Ids
  <2> DEFINE q == [r EXCEPT !.shares = w.draft.target]
  <2>3. /\ pc'[c] = "insert" /\ req'[c] = q /\ work' = work /\ answer' = answer
        /\ rowLock' = rowLock /\ ruleLock' = ruleLock /\ sets' = sets /\ rules' = rules
        /\ Shape' /\ \A d \in Callers \ {c} : Same(d)
    BY <1>1, <1>4, <2>2 DEF IInv, Shape, Same, locks, tables
  <2>4. DOMAIN r = RequestFields
    BY <1>1, <1>2 DEF Asked
  <2>5. /\ DOMAIN q = RequestFields /\ q.op = "apply" /\ q.movement = r.movement
        /\ q.supersedes = r.supersedes /\ q.items = r.items /\ q.rule = r.rule
        /\ q.shares = w.draft.target /\ q.fits = r.fits
    BY <1>2, <2>4 DEF RequestFields
  <2> HIDE DEF q
  <2>6. Asked(c)'
    <3>1. SetsOf(q.movement)' = SetsOf(r.movement)
      BY <2>3, <2>5 DEF SetsOf
    <3>2. r.fits = TRUE
      BY <1>1, <1>2 DEF Asked
    <3> QED
      BY <1>1, <1>2, <2>3, <2>5, <3>1, <3>2 DEF Asked, Places, Ops
  <2>7. Holding(c)'
    BY <1>1, <1>2, <2>3, <2>5 DEF Holding, Classifying
  <2>8. Written(c)' /\ work[c].sets = {}
    BY <1>1, <1>2, <2>3, <2>5 DEF Written, Classifying
  <2>9. Stage(c)'
    <3>1. Current(q.movement)' = Expected(q)'
      BY <1>2, <2>3, <2>5 DEF Current, SetsOf, Expected
    <3>2. Winners(q.movement, Open(rules))' = {w}
      BY <1>1, <2>1, <2>3, <2>5
    <3> QED
      BY <1>2, <2>2, <2>3, <2>5, <3>1, <3>2 DEF Stage, Classifying
  <2>10. Told(c)'
    BY <1>2, <2>3 DEF Told
  <2>11. UNCHANGED tables
    BY <1>4
  <2> QED
    BY <2>3, <2>6, <2>7, <2>8, <2>9, <2>10, <2>11, OneCaller DEF Caller
<1>5. \/ Refuse(c, "no_match") \/ Refuse(c, "ambiguous") \/ Refuse(c, "conflict")
      \/ /\ winners # {} /\ ~(Cardinality(winners) > 1) /\ r.rule \in Ids(winners)
         /\ pc' = [pc EXCEPT ![c] = "insert"]
         /\ req' = [req EXCEPT ![c].shares = (CHOOSE s \in winners : TRUE).draft.target]
         /\ UNCHANGED <<tables, work, locks, answer, calls>>
  BY <1>1 DEF Evaluate
<1> QED
  BY <1>3, <1>4, <1>5

-----------------------------------------------------------------------------
(* What a transaction writes *)

LEMMA IdsFinite ==
  ASSUME NEW rows, IsFiniteSet(rows)
  PROVE  IsFiniteSet(Ids(rows))
<1> DEFINE f == [row \in rows |-> row.id]
<1>1. f \in Surjection(rows, Ids(rows))
  BY DEF Surjection, Ids
<1> HIDE DEF f
<1> QED
  BY <1>1, FS_Surjection

LEMMA UsedFinite ==
  ASSUME NEW rows, IsFiniteSet(rows), NEW g, \A d \in Callers : IsFiniteSet(g[d])
  PROVE  IsFiniteSet(Ids(rows) \cup UNION {Ids(g[d]) : d \in Callers})
<1> DEFINE held == {Ids(g[d]) : d \in Callers}
           f == [d \in Callers |-> Ids(g[d])]
<1>1. f \in Surjection(Callers, held)
  BY DEF Surjection
<1>2. \A S \in held : IsFiniteSet(S)
  BY IdsFinite
<1> HIDE DEF f, held
<1>3. IsFiniteSet(held)
  BY <1>1, CallersAssumption, FS_Surjection
<1>4. IsFiniteSet(UNION held) /\ IsFiniteSet(Ids(rows))
  BY <1>2, <1>3, FS_UNION, IdsFinite
<1> QED
  BY <1>4, FS_Union DEF held

\* A new id is nobody's.
LEMMA SetIdIsNew ==
  ASSUME IInv, NEW c \in Callers
  PROVE  /\ NewSet(c).id \in Nat \ {None}
         /\ \A s \in sets : s.id # NewSet(c).id
         /\ \A d \in Callers : \A s \in work[d].sets : s.id # NewSet(c).id
<1> DEFINE g == [d \in Callers |-> work[d].sets]
           used == Ids(sets) \cup UNION {Ids(work[d].sets) : d \in Callers}
<1>1. \A d \in Callers : IsFiniteSet(work[d].sets)
  <2>1. \A row : IsFiniteSet({row})
    BY FS_Singleton
  <2>2. IsFiniteSet({})
    BY FS_EmptySet
  <2>3. \A d \in Callers : Written(d)
    BY DEF IInv, Caller
  <2> QED
    BY <2>1, <2>2, <2>3 DEF Written
<1>2. used = Ids(sets) \cup UNION {Ids(g[d]) : d \in Callers}
  OBVIOUS
<1>3. \A d \in Callers : IsFiniteSet(g[d])
  BY <1>1
<1>4. IsFiniteSet(sets)
  BY DEF IInv, SetsKept
<1> HIDE DEF g
<1>5. IsFiniteSet(used)
  BY <1>2, <1>3, <1>4, UsedFinite
<1>6. NewSet(c).id = Fresh(used)
  BY DEF NewSet
<1> HIDE DEF used
<1>7. NewSet(c).id \in Nat \ {None} /\ NewSet(c).id \notin used
  BY <1>5, <1>6, FreshIsNew
<1> QED
  BY <1>7 DEF used, Ids

LEMMA RuleIdIsNew ==
  ASSUME IInv, NEW c \in Callers
  PROVE  NewRule(c).id \in Nat \ {None} /\ \A r \in rules : r.id # NewRule(c).id
<1> DEFINE g == [d \in Callers |-> work[d].rules]
           used == Ids(rules) \cup UNION {Ids(work[d].rules) : d \in Callers}
<1>1. \A d \in Callers : IsFiniteSet(work[d].rules)
  <2>1. \A row : IsFiniteSet({row})
    BY FS_Singleton
  <2>2. IsFiniteSet({})
    BY FS_EmptySet
  <2>3. \A d \in Callers : Written(d)
    BY DEF IInv, Caller
  <2> QED
    BY <2>1, <2>2, <2>3 DEF Written
<1>2. used = Ids(rules) \cup UNION {Ids(g[d]) : d \in Callers}
  OBVIOUS
<1>3. \A d \in Callers : IsFiniteSet(g[d])
  BY <1>1
<1>4. IsFiniteSet(rules)
  BY DEF IInv, RulesKept
<1> HIDE DEF g
<1>5. IsFiniteSet(used)
  BY <1>2, <1>3, <1>4, UsedFinite
<1>6. NewRule(c).id = Fresh(used)
  BY DEF NewRule, Rule
<1> HIDE DEF used
<1>7. NewRule(c).id \in Nat \ {None} /\ NewRule(c).id \notin used
  BY <1>5, <1>6, FreshIsNew
<1> QED
  BY <1>7 DEF used, Ids

\* What c has shown itself by the time it writes a set.
LEMMA BeforeInsert ==
  ASSUME IInv, NEW c \in Callers, NEW r, r = req[c], pc[c] \in {"insert", "origin", "commit"},
         r.op \in {"classify", "apply"}
  PROVE  /\ Based(r) /\ r.movement \in Eligible /\ r.fits
         /\ Current(r.movement) = Expected(r)
         /\ \A row \in sets : ~SamePlace(r, row)
         /\ KeyOf(r) \in DerivedKeys => KeyOf(r)[2] = r.movement
<1>1. Asked(c) /\ Holding(c) /\ Stage(c)
  BY DEF IInv, Caller
<1>2. Based(r)
  BY <1>1, AskedBased DEF Ops
<1>3. r.movement \in Eligible /\ r.fits /\ Current(r.movement) = Expected(r)
  BY <1>1 DEF Holding, Stage, Classifying
<1>4. KeyOf(r) \in DerivedKeys => KeyOf(r)[2] = r.movement
  BY <1>1 DEF Asked, KeyOf, DerivedKeys
<1> QED
  BY <1>2, <1>3, <1>4, NextIs DEF IInv

LEMMA InsertKeeps ==
  ASSUME IInv, NEW c \in Callers, Insert(c)
  PROVE  IInv'
<1>1. PICK r, row : r = req[c] /\ row = NewSet(c)
  OBVIOUS
<1>2. /\ pc[c] = "insert" /\ r.op \in {"classify", "apply"}
      /\ Asked(c) /\ Holding(c) /\ Written(c) /\ Stage(c)
  BY <1>1 DEF Insert, IInv, Caller, Asked, Places, Ops
<1>3. /\ Based(r) /\ \A s \in sets : ~SamePlace(r, s)
      /\ KeyOf(r) \in DerivedKeys => KeyOf(r)[2] = r.movement
  BY <1>1, <1>2, BeforeInsert
<1>4. CASE /\ \E s \in sets : SameKey(r, s)
           /\ Refuse(c, IF r.op = "apply" THEN "already" ELSE Replayed(r))
  <2>1. CASE r.op = "apply"
    <3>1. PICK s \in sets : s.key = KeyOf(r)
      BY <1>4 DEF SameKey
    <3>2. KeyOf(r) \in DerivedKeys
      BY <1>1, <1>2, <1>3, <2>1 DEF KeyOf, DerivedKeys, Asked, Based
    <3>3. s.movement = r.movement
      BY <1>3, <3>1, <3>2 DEF IInv, SetsKept
    <3>4. "already" \in Kinds(r.op) /\ IsTrue(r, "already")
      BY <2>1, <3>3 DEF Kinds, IsTrue, SetsOf
    <3> QED
      BY <1>1, <1>2, <1>4, <2>1, <3>4, RefuseKeeps
  <2>2. CASE r.op = "classify"
    <3>1. RowsWithKey(r) # {}
      BY <1>4, <2>2 DEF RowsWithKey, SameKey
    <3> QED
      BY <1>1, <1>2, <1>4, <2>2, <3>1, ReplayedIsTrue, RefuseKeeps
  <2> QED
    BY <1>2, <2>1, <2>2
<1>5. CASE /\ \A s \in sets : ~SameKey(r, s)
           /\ \A d \in Callers \ {c} : \A s \in work[d].sets : ~SameKey(r, s)
           /\ work' = [work EXCEPT ![c].sets = {row}]
           /\ Goto(c, IF r.op = "apply" THEN "origin" ELSE "commit")
           /\ UNCHANGED locks
  <2>1. PICK label : /\ label = IF r.op = "apply" THEN "origin" ELSE "commit"
                     /\ Goto(c, label)
    BY <1>5
  <2>2. /\ pc'[c] = label /\ req' = req /\ rowLock' = rowLock /\ ruleLock' = ruleLock
        /\ sets' = sets /\ rules' = rules
    BY <1>5, <2>1 DEF Goto, IInv, Shape, locks, tables
  <2>3. /\ DOMAIN work' = Callers /\ work'[c].sets = {row}
        /\ work'[c].rules = work[c].rules /\ work'[c].off = work[c].off
        /\ DOMAIN work'[c] = WorkFields /\ \A d \in Callers \ {c} : work'[d] = work[d]
    BY <1>5 DEF IInv, Shape, WorkFields
  <2>4. label \in Places(r.op) /\ label \in {"origin", "commit"}
    BY <1>2, <2>1 DEF Places
  <2>5. /\ DOMAIN row = SetFields /\ row.movement = r.movement
        /\ row.revision = NextRevision(r) /\ row.supersedes = r.supersedes
        /\ row.shares = r.shares /\ row.rule = None /\ row.key = KeyOf(r)
        /\ row.digest = DigestOf(r)
    BY <1>1 DEF NewSet, SetFields
  <2>6. /\ row.id \in Nat \ {None} /\ \A s \in sets : s.id # row.id
        /\ \A d \in Callers : \A s \in work[d].sets : s.id # row.id
    BY <1>1, SetIdIsNew
  <2>7. NextRevision(r)' = NextRevision(r)
    BY <2>2 DEF NextRevision
  <2>8. IsNewSet(c, row)'
    BY <1>1, <1>5, <2>1, <2>2, <2>5, <2>6, <2>7 DEF IsNewSet, SameKey
  <2>9. Written(c)'
    BY <1>1, <1>2, <2>2, <2>3, <2>4, <2>8 DEF Written, Classifying
  <2>10. Holding(c)'
    BY <1>1, <1>2, <2>2 DEF Holding, Classifying
  <2>11. Stage(c)'
    <3>1. /\ Current(r.movement)' = Current(r.movement) /\ Expected(r)' = Expected(r)
          /\ Winners(r.movement, Open(rules))' = Winners(r.movement, Open(rules))
      BY <2>2 DEF Current, SetsOf, Expected, Winners, Matching, Applies, Open
    <3> QED
      BY <1>1, <1>2, <2>2, <2>4, <3>1 DEF Stage, Classifying
  <2>12. \A d \in Callers \ {c} :
           /\ \A m \in Movements : rowLock[m] = d => rowLock'[m] = d
           /\ ruleLock = d => ruleLock' = d
           /\ \A s \in work'[c].sets : \A t \in work[d].sets : s.id # t.id /\ s.key # t.key
    BY <1>5, <2>2, <2>3, <2>5, <2>6 DEF SameKey
  <2>13. DOMAIN rowLock' = Movements
    BY <2>2 DEF IInv, Shape
  <2> QED
    BY <1>1, <1>2, <2>1, <2>3, <2>4, <2>9, <2>10, <2>11, <2>12, <2>13, GoesOn
<1> QED
  BY <1>1, <1>3, <1>4, <1>5 DEF Insert

LEMMA OriginKeeps ==
  ASSUME IInv, NEW c \in Callers, Origin(c)
  PROVE  IInv'
<1>1. PICK r : r = req[c]
  OBVIOUS
<1>2. /\ pc[c] = "origin" /\ r.op = "apply" /\ Holding(c) /\ Written(c) /\ Stage(c)
      /\ r.items \in Seq(Movements \X Nat)
  BY <1>1 DEF Origin, IInv, Caller, Asked, Places, Ops
<1>3. CASE Refuse(c, "conflict")
  <2>1. "conflict" \in Kinds(r.op) /\ IsTrue(r, "conflict")
    BY <1>2 DEF Kinds, IsTrue
  <2> QED
    BY <1>1, <1>2, <1>3, <2>1, RefuseKeeps
<1>4. CASE /\ work' = [work EXCEPT ![c].sets =
                        {[row EXCEPT !.rule = r.rule] : row \in work[c].sets}]
           /\ Goto(c, "commit")
           /\ UNCHANGED locks
  <2>1. PICK old : work[c].sets = {old} /\ IsNewSet(c, old)
    BY <1>1, <1>2 DEF Written, Classifying
  <2> DEFINE row == [old EXCEPT !.rule = r.rule]
  <2>2. /\ pc'[c] = "commit" /\ req' = req /\ rowLock' = rowLock /\ ruleLock' = ruleLock
        /\ sets' = sets /\ rules' = rules
    BY <1>4 DEF Goto, IInv, Shape, locks, tables
  <2>3. /\ DOMAIN work' = Callers /\ work'[c].sets = {row}
        /\ work'[c].rules = work[c].rules /\ work'[c].off = work[c].off
        /\ DOMAIN work'[c] = WorkFields /\ \A d \in Callers \ {c} : work'[d] = work[d]
    BY <1>4, <2>1 DEF IInv, Shape, WorkFields
  <2>4. DOMAIN old = SetFields
    BY <2>1 DEF IsNewSet
  <2>5. /\ DOMAIN row = SetFields /\ row.movement = old.movement
        /\ row.revision = old.revision /\ row.supersedes = old.supersedes
        /\ row.shares = old.shares /\ row.rule = r.rule /\ row.key = old.key
        /\ row.digest = old.digest /\ row.id = old.id
    BY <2>4 DEF SetFields
  <2> HIDE DEF row
  <2>6. NextRevision(r)' = NextRevision(r)
    BY <2>2 DEF NextRevision
  <2>7. IsNewSet(c, row)'
    BY <1>1, <1>2, <2>1, <2>2, <2>5, <2>6 DEF IsNewSet
  <2>8. Written(c)'
    BY <1>1, <1>2, <2>2, <2>3, <2>7 DEF Written, Classifying
  <2>9. Holding(c)'
    BY <1>1, <1>2, <2>2 DEF Holding, Classifying
  <2>10. Stage(c)'
    <3>1. /\ Current(r.movement)' = Current(r.movement) /\ Expected(r)' = Expected(r)
          /\ Winners(r.movement, Open(rules))' = Winners(r.movement, Open(rules))
      BY <2>2 DEF Current, SetsOf, Expected, Winners, Matching, Applies, Open
    <3> QED
      BY <1>1, <1>2, <2>2, <3>1 DEF Stage, Classifying
  <2>11. \A d \in Callers \ {c} :
           /\ \A m \in Movements : rowLock[m] = d => rowLock'[m] = d
           /\ ruleLock = d => ruleLock' = d
           /\ \A s \in work'[c].sets : \A t \in work[d].sets : s.id # t.id /\ s.key # t.key
    BY <2>1, <2>2, <2>3, <2>5 DEF IInv, Apart
  <2>12. DOMAIN rowLock' = Movements /\ "commit" \in Places(r.op)
    BY <1>2, <2>2 DEF IInv, Shape, Places
  <2>13. Goto(c, "commit")
    BY <1>4
  <2> QED
    BY <1>1, <1>2, <2>3, <2>8, <2>9, <2>10, <2>11, <2>12, <2>13, GoesOn
<1> QED
  BY <1>1, <1>3, <1>4 DEF Origin

LEMMA RuleKeyKeeps ==
  ASSUME IInv, NEW c \in Callers, RuleKey(c)
  PROVE  IInv'
<1>1. PICK r : r = req[c]
  OBVIOUS
<1>2. pc[c] = "rulekey" /\ r.op = "create_rule" /\ Holding(c)
  BY <1>1 DEF RuleKey, IInv, Caller, Asked, Places, Ops
<1>3. CASE RowsWithKey(r) # {} /\ Refuse(c, Replayed(r))
  BY <1>1, <1>2, <1>3, ReplayedIsTrue, RefuseKeeps
<1>4. CASE Refuse(c, "not_found")
  <2>1. "not_found" \in Kinds(r.op) /\ IsTrue(r, "not_found")
    BY <1>2 DEF Kinds, IsTrue, Status, CategorizationStatus
  <2> QED
    BY <1>1, <1>2, <1>4, <2>1, RefuseKeeps
<1>5. CASE r.fits /\ Read(c, "rule")
  <2>1. pc'[c] = "rule" /\ req' = req /\ rowLock' = rowLock /\ ruleLock' = ruleLock
    BY <1>5 DEF Read, Goto, IInv, Shape, locks
  <2>2. Holding(c)' /\ Stage(c)' /\ "rule" \in Places(req[c].op)
    BY <1>1, <1>2, <1>5, <2>1 DEF Holding, Stage, Classifying, Places
  <2> QED
    BY <1>2, <1>5, <2>2, ReadKeeps
<1> QED
  BY <1>1, <1>3, <1>4, <1>5 DEF RuleKey, RuleFits

LEMMA InsertRuleKeeps ==
  ASSUME IInv, NEW c \in Callers, InsertRule(c)
  PROVE  IInv'
<1>1. PICK r, row : r = req[c] /\ row = NewRule(c)
  OBVIOUS
<1>2. /\ pc[c] = "rule" /\ r.op = "create_rule" /\ Holding(c) /\ Written(c) /\ r.fits
  BY <1>1 DEF InsertRule, IInv, Caller, Asked, Places, Ops, Stage
<1>3. CASE (\E s \in rules : s.key = KeyOf(r)) /\ Refuse(c, Replayed(r))
  <2>1. RowsWithKey(r) # {}
    BY <1>2, <1>3 DEF RowsWithKey
  <2> QED
    BY <1>1, <1>2, <1>3, <2>1, ReplayedIsTrue, RefuseKeeps
<1>4. CASE /\ \A s \in rules : s.key # KeyOf(r)
           /\ work' = [work EXCEPT ![c].rules = {row}]
           /\ Goto(c, "commit")
           /\ UNCHANGED locks
  <2>1. /\ pc'[c] = "commit" /\ req' = req /\ rowLock' = rowLock /\ ruleLock' = ruleLock
        /\ sets' = sets /\ rules' = rules
    BY <1>4 DEF Goto, IInv, Shape, locks, tables
  <2>2. /\ DOMAIN work' = Callers /\ work'[c].rules = {row}
        /\ work'[c].sets = work[c].sets /\ work'[c].off = work[c].off
        /\ DOMAIN work'[c] = WorkFields /\ \A d \in Callers \ {c} : work'[d] = work[d]
    BY <1>4 DEF IInv, Shape, WorkFields
  <2>3. /\ row = Rule(row.id, r.draft, "ACTIVE", KeyOf(r), DigestOf(r)) /\ row.key = KeyOf(r)
        /\ row.id \in Nat \ {None} /\ \A s \in rules : s.id # row.id
    BY <1>1, RuleIdIsNew DEF NewRule, Rule
  <2>4. IsNewRule(c, row)'
    BY <1>1, <1>4, <2>1, <2>3 DEF IsNewRule
  <2>5. Written(c)'
    BY <1>1, <1>2, <2>1, <2>2, <2>4 DEF Written, Classifying
  <2>6. Holding(c)' /\ Stage(c)'
    BY <1>1, <1>2, <2>1 DEF Holding, Stage, Classifying
  <2>7. work'[c].sets = {} /\ DOMAIN rowLock' = Movements /\ "commit" \in Places(r.op)
    BY <1>1, <1>2, <2>1, <2>2 DEF Written, Classifying, IInv, Shape, Places
  <2> QED
    BY <1>1, <1>2, <1>4, <2>1, <2>2, <2>5, <2>6, <2>7, GoesOn
<1> QED
  BY <1>1, <1>2, <1>3, <1>4 DEF InsertRule, RuleFits

LEMMA UpdateKeeps ==
  ASSUME IInv, NEW c \in Callers, Update(c)
  PROVE  IInv'
<1>1. PICK r : r = req[c]
  OBVIOUS
<1>2. pc[c] = "update" /\ r.op = "disable" /\ Holding(c) /\ Written(c)
  BY <1>1 DEF Update, IInv, Caller, Asked, Places, Ops
<1>3. CASE r.rule \notin Ids(Open(rules)) /\ Refuse(c, "ok")
  <2>1. "ok" \in Kinds(r.op) /\ IsTrue(r, "ok")
    BY <1>2, <1>3 DEF Kinds, IsTrue
  <2> QED
    BY <1>1, <1>2, <1>3, <2>1, RefuseKeeps
<1>4. CASE /\ r.rule \in Ids(Open(rules))
           /\ work' = [work EXCEPT ![c].off = {r.rule}]
           /\ Goto(c, "commit")
           /\ UNCHANGED locks
  <2>1. /\ pc'[c] = "commit" /\ req' = req /\ rowLock' = rowLock /\ ruleLock' = ruleLock
        /\ rules' = rules
    BY <1>4 DEF Goto, IInv, Shape, locks, tables
  <2>2. /\ DOMAIN work' = Callers /\ work'[c].off = {r.rule}
        /\ work'[c].sets = work[c].sets /\ work'[c].rules = work[c].rules
        /\ DOMAIN work'[c] = WorkFields /\ \A d \in Callers \ {c} : work'[d] = work[d]
    BY <1>4 DEF IInv, Shape, WorkFields
  <2>3. Written(c)'
    BY <1>1, <1>2, <1>4, <2>1, <2>2 DEF Written, Classifying, Ids, Open
  <2>4. Holding(c)' /\ Stage(c)'
    BY <1>1, <1>2, <2>1 DEF Holding, Stage, Classifying
  <2>5. work'[c].sets = {} /\ DOMAIN rowLock' = Movements /\ "commit" \in Places(r.op)
    BY <1>1, <1>2, <2>1, <2>2 DEF Written, Classifying, IInv, Shape, Places
  <2> QED
    BY <1>1, <1>2, <1>4, <2>1, <2>2, <2>3, <2>4, <2>5, GoesOn
<1> QED
  BY <1>1, <1>3, <1>4 DEF Update

-----------------------------------------------------------------------------
(* A set is committed *)

\* Nothing a client was told is undone by a new set: a revision that was stale stays
\* stale, so it is never the one that comes.
LEMMA TruthGrows ==
  ASSUME SetsKept, NEW r, NEW row, Joins(r, row), row.digest = SetDigest(r),
         sets' = sets \cup {row}, rules' = rules,
         NEW q, Based(q), NEW kind, IsTrue(q, kind)
  PROVE  IsTrue(q, kind)'
<1>1. \A m : SetsOf(m) \subseteq SetsOf(m)'
  BY DEF SetsOf
<1>2. Ids(Open(rules))' = Ids(Open(rules))
  BY DEF Ids, Open
<1>3. CASE q.op = "create_rule"
  <2>1. RowsWithKey(q)' = RowsWithKey(q)
    BY <1>3 DEF RowsWithKey
  <2> QED
    BY <1>3, <2>1 DEF IsTrue
<1>4. CASE q.op = "classify"
  <2> DEFINE held == RowsWithKey(q)
  <2>1. held \subseteq held'
    BY <1>4 DEF RowsWithKey
  <2>2. ASSUME Status(q, kind) = 409, held # {}
        PROVE  held' = held
    BY <1>4, <2>2 DEF RowsWithKey, Joins
  <2>3. ASSUME Current(q.movement) # Expected(q)
        PROVE  Current(q.movement)' # Expected(q)'
    <3>1. CASE q.movement = r.movement
      BY <3>1, CurrentIsNew
    <3>2. CASE q.movement # r.movement
      BY <2>3, <3>2, CurrentElsewhere, BaseStays DEF Based
    <3> QED
      BY <3>1, <3>2
  <2>4. ASSUME Current(q.movement) # Expected(q), row.digest = SetDigest(q)
        PROVE  FALSE
    <3>1. q.movement = r.movement /\ q.supersedes = r.supersedes
      BY <2>4 DEF SetDigest
    <3>2. Expected(q) = Expected(r)
      BY <3>1 DEF Expected
    <3> QED
      BY <2>4, <3>1, <3>2 DEF Joins
  <2>5. held' \subseteq held \cup {row} /\ DigestOf(q) = SetDigest(q)
    BY <1>4 DEF RowsWithKey, DigestOf
  <2>6. Status(q, kind) = 201 => \E t \in held' : t.digest = DigestOf(q)
    BY <1>4, <2>1 DEF IsTrue
  <2>7. ASSUME Status(q, kind) = 409
        PROVE  /\ \A t \in held' : t.digest # DigestOf(q)
               /\ held' # {} \/ Current(q.movement)' # Expected(q)'
    <3>1. /\ \A t \in held : t.digest # DigestOf(q)
          /\ held # {} \/ Current(q.movement) # Expected(q)
      BY <1>4, <2>7 DEF IsTrue
    <3>2. CASE held # {}
      BY <2>2, <2>7, <3>1, <3>2
    <3>3. CASE Current(q.movement) # Expected(q)
      BY <2>3, <2>4, <2>5, <3>1, <3>3
    <3> QED
      BY <3>1, <3>2, <3>3
  <2> QED
    BY <1>4, <2>6, <2>7 DEF IsTrue, Status
<1>5. CASE q.op \notin {"classify", "create_rule"}
  <2>1. q.op = "apply" /\ kind = "classified" =>
          \E s \in SetsOf(q.movement)' : s.rule = q.rule /\ s.revision = 1
    BY <1>1 DEF IsTrue
  <2>2. q.op = "apply" /\ kind = "already" => SetsOf(q.movement)' # {}
    BY <1>1 DEF IsTrue
  <2>3. q.op = "disable" /\ Status(q, kind) = 200 => q.rule \notin Ids(Open(rules))'
    BY <1>2 DEF IsTrue
  <2> QED
    BY <1>5, <2>1, <2>2, <2>3 DEF IsTrue, Status
<1> QED
  BY <1>3, <1>4, <1>5

\* Of a page nothing is told that the tables could undo.
LEMMA PagesAreTrue ==
  ASSUME NEW r, r.op = "page", NEW kind
  PROVE  IsTrue(r, kind) /\ IsTrue(r, kind)'
BY DEF IsTrue

\* Another call goes on.
LEMMA OthersStay ==
  ASSUME NEW d \in Callers, Same(d), Caller(d), Asked(d)', Written(d)', Stage(d)',
         NEW q, q = req[d], NEW kind, kind = answer[d], kind # "none" => IsTrue(q, kind)'
  PROVE  Caller(d)'
<1>1. Holding(d)'
  BY DEF Caller, Holding, Same, Classifying, Asked
<1>2. Told(d)'
  BY DEF Caller, Told, Same
<1> QED
  BY <1>1, <1>2 DEF Caller

LEMMA SetCommitted ==
  ASSUME IInv, NEW c \in Callers, NEW r, r = req[c], NEW row, Joins(r, row),
         row.digest = SetDigest(r), row \in work[c].sets, rowLock[r.movement] = c,
         sets' = sets \cup {row}, rules' = rules,
         NEW d \in Callers \ {c}, Same(d)
  PROVE  Caller(d)'
<1>1. PICK q, kind : q = req[d] /\ kind = answer[d]
  OBVIOUS
<1>2. /\ Caller(d) /\ Asked(d) /\ Holding(d) /\ Written(d) /\ Stage(d) /\ Told(d) /\ SetsKept
      /\ pc'[d] = pc[d] /\ req'[d] = q /\ work'[d] = work[d] /\ answer'[d] = kind
  BY <1>1 DEF IInv, Caller, Same
<1>3. q.op \in Ops => Based(q)
  BY <1>1, <1>2, AskedBased
<1>4. q.op \in Ops =>
        Based(q)' /\ Expected(q)' = Expected(q) /\ NextRevision(q)' = NextRevision(q)
  BY <1>2, <1>3, BaseStays
<1>5. Asked(d)'
  <2>1. Ids(rules)' = Ids(rules)
    BY DEF Ids
  <2>2. (\E s \in SetsOf(q.movement) : s.id = q.supersedes) =>
          \E s \in SetsOf(q.movement)' : s.id = q.supersedes
    BY DEF SetsOf
  <2> QED
    BY <1>1, <1>2, <2>1, <2>2 DEF Asked, Ops
<1>6. Written(d)'
  <2>1. ASSUME NEW t \in work[d].sets, IsNewSet(d, t), q.op \in Ops
        PROVE  IsNewSet(d, t)'
    <3>1. t.id # row.id /\ t.key # row.key
      BY DEF IInv, Apart
    <3> QED
      BY <1>1, <1>2, <1>4, <2>1, <3>1 DEF IsNewSet
  <2>2. Ids(Open(rules))' = Ids(Open(rules)) /\ \A t : IsNewRule(d, t)' <=> IsNewRule(d, t)
    BY <1>1, <1>2 DEF Ids, Open, IsNewRule
  <2> QED
    BY <1>1, <1>2, <2>1, <2>2 DEF Written, Classifying, Ops
<1>7. ASSUME Classifying(d), pc[d] \in {"current", "evaluate", "insert", "origin", "commit"}
      PROVE  q.movement \in Movements /\ q.movement # r.movement
  BY <1>1, <1>2, <1>3, <1>7 DEF Holding, Based, Classifying, Ops
<1>8. Stage(d)'
  <2>1. ASSUME Classifying(d), pc[d] \in {"evaluate", "insert", "origin", "commit"}
        PROVE  Current(q.movement)' = Expected(q)'
    <3>1. Current(q.movement)' = Current(q.movement)
      BY <1>2, <1>7, <2>1, CurrentElsewhere
    <3> QED
      BY <1>1, <1>2, <1>4, <2>1, <3>1 DEF Stage, Classifying, Ops
  <2>2. ASSUME q.op = "classify", pc[d] = "current"
        PROVE  \A t \in RowsWithKey(q)' : t.digest # DigestOf(q)
    <3>1. RowsWithKey(q)' \subseteq RowsWithKey(q) \cup {row}
      BY <2>2 DEF RowsWithKey
    <3>2. row.digest # DigestOf(q)
      BY <1>1, <1>7, <2>2 DEF Classifying, DigestOf, SetDigest
    <3>3. \A t \in RowsWithKey(q) : t.digest # DigestOf(q)
      BY <1>1, <1>2, <2>2 DEF Stage
    <3> QED
      BY <3>1, <3>2, <3>3
  <2>3. Winners(q.movement, Open(rules))' = Winners(q.movement, Open(rules))
    BY DEF Winners, Matching, Applies, Open
  <2> QED
    BY <1>1, <1>2, <2>1, <2>2, <2>3 DEF Stage, Classifying
<1>9. kind # "none" => IsTrue(q, kind)'
  <2>1. kind # "none" => q.op \in Ops \cup {"page"} /\ IsTrue(q, kind)
    BY <1>1, <1>2 DEF Told, Asked, Kinds
  <2>2. q.op = "page" => IsTrue(q, kind)'
    BY PagesAreTrue
  <2> QED
    BY <1>2, <1>3, <2>1, <2>2, TruthGrows DEF Ops
<1> QED
  BY <1>1, <1>2, <1>5, <1>6, <1>8, <1>9, OthersStay

-----------------------------------------------------------------------------
(* A change of the rules is committed *)

\* A rule that changes rules leaves those that others use alone.
LEMMA RulesCommitted ==
  ASSUME IInv, NEW c \in Callers, req[c].op \in {"create_rule", "disable"}, pc[c] = "commit",
         sets' = sets, Ids(rules) \subseteq Ids(rules)',
         \A q, kind : q.op = "create_rule" /\ IsTrue(q, kind) => IsTrue(q, kind)',
         \A id \in Ids(rules) : id \notin Ids(Open(rules)) => id \notin Ids(Open(rules))',
         NEW d \in Callers \ {c}, Same(d)
  PROVE  Caller(d)'
<1>1. PICK q, kind : q = req[d] /\ kind = answer[d]
  OBVIOUS
<1>2. /\ Caller(d) /\ Asked(d) /\ Holding(d) /\ Written(d) /\ Stage(d) /\ Told(d)
      /\ pc'[d] = pc[d] /\ req'[d] = q /\ work'[d] = work[d] /\ answer'[d] = kind
  BY <1>1 DEF IInv, Caller, Same
<1>3. ruleLock = c /\ ruleLock # d
  BY DEF IInv, Caller, Holding
<1>4. q.op \in {"apply", "create_rule", "disable"} => pc[d] \in {"idle", "pair", "rulelock"}
  BY <1>1, <1>2, <1>3 DEF Holding
<1>5. /\ SetsOf(q.movement)' = SetsOf(q.movement) /\ Current(q.movement)' = Current(q.movement)
      /\ Expected(q)' = Expected(q) /\ NextRevision(q)' = NextRevision(q)
  BY DEF SetsOf, Current, Expected, NextRevision
<1>6. Asked(d)'
  BY <1>1, <1>2, <1>5 DEF Asked
<1>7. Written(d)'
  <2>1. \A t : IsNewSet(d, t) => IsNewSet(d, t)'
    BY <1>1, <1>2, <1>5 DEF IsNewSet
  <2> QED
    BY <1>1, <1>2, <1>4, <2>1 DEF Written, Classifying
<1>8. Stage(d)'
  <2>1. q.op = "classify" => RowsWithKey(q)' = RowsWithKey(q)
    BY DEF RowsWithKey
  <2> QED
    BY <1>1, <1>2, <1>4, <1>5, <2>1 DEF Stage, Classifying
<1>9. kind # "none" => IsTrue(q, kind)'
  <2> SUFFICES ASSUME kind # "none" PROVE IsTrue(q, kind)'
    OBVIOUS
  <2>1. IsTrue(q, kind) /\ q.op \in Ops \cup {"page"}
    BY <1>1, <1>2 DEF Told, Kinds, Asked
  <2>2. CASE q.op = "create_rule"
    BY <2>1, <2>2
  <2>3. CASE q.op = "classify"
    <3>1. RowsWithKey(q)' = RowsWithKey(q)
      BY <2>3 DEF RowsWithKey
    <3> QED
      BY <1>5, <2>1, <2>3, <3>1 DEF IsTrue
  <2>4. CASE q.op = "apply"
    BY <1>5, <2>1, <2>4 DEF IsTrue
  <2>5. CASE q.op = "disable"
    <3>1. q.rule \in Ids(rules)
      BY <1>1, <1>2, <2>5 DEF Asked
    <3> QED
      BY <2>1, <2>5, <3>1 DEF IsTrue
  <2>6. q.op = "page" => IsTrue(q, kind)'
    BY PagesAreTrue
  <2> QED
    BY <2>1, <2>2, <2>3, <2>4, <2>5, <2>6 DEF Ops
<1> QED
  BY <1>1, <1>2, <1>6, <1>7, <1>8, <1>9, OthersStay

LEMMA RuleAdded ==
  ASSUME RulesKept, NEW row, IsRule(row), \A r \in rules : r.id # row.id /\ r.key # row.key,
         rules' = rules \cup {row}
  PROVE  /\ RulesKept' /\ Ids(rules) \subseteq Ids(rules)'
         /\ \A q, kind : q.op = "create_rule" /\ IsTrue(q, kind) => IsTrue(q, kind)'
         /\ \A id \in Ids(rules) : id \notin Ids(Open(rules)) => id \notin Ids(Open(rules))'
<1>1. RulesKept'
  BY FS_AddElement DEF RulesKept, IsRule
<1>2. Ids(rules) \subseteq Ids(rules)'
  BY DEF Ids
<1>3. ASSUME NEW q, NEW kind, q.op = "create_rule", IsTrue(q, kind)
      PROVE  IsTrue(q, kind)'
  <2>1. /\ RowsWithKey(q) \subseteq RowsWithKey(q)'
        /\ RowsWithKey(q)' \subseteq RowsWithKey(q) \cup {row}
    BY <1>3 DEF RowsWithKey
  <2>2. RowsWithKey(q) # {} => RowsWithKey(q)' = RowsWithKey(q)
    BY <1>3 DEF RowsWithKey
  <2> QED
    BY <1>3, <2>1, <2>2 DEF IsTrue
<1>4. ASSUME NEW id \in Ids(rules), id \notin Ids(Open(rules))
      PROVE  id \notin Ids(Open(rules))'
  BY <1>4 DEF Ids, Open
<1> QED
  BY <1>1, <1>2, <1>3, <1>4

\* A rule after the update of those in off.
Updated(r, off) == [r EXCEPT !.status = IF r.id \in off THEN "DISABLED" ELSE r.status]

LEMMA UpdatedIs ==
  ASSUME NEW r, IsRule(r), NEW off
  PROVE  /\ IsRule(Updated(r, off)) /\ Updated(r, off).id = r.id /\ Updated(r, off).key = r.key
         /\ Updated(r, off).digest = r.digest /\ Updated(r, off).draft = r.draft
         /\ Updated(r, off).status = IF r.id \in off THEN "DISABLED" ELSE r.status
         /\ r.id \notin off => Updated(r, off) = r
BY DEF IsRule, Updated, Rule

LEMMA AfterNothing ==
  ASSUME RulesKept
  PROVE  AfterUpdate({}) = rules
<1>1. AfterUpdate({}) = {Updated(r, {}) : r \in rules}
  BY DEF AfterUpdate, Updated
<1>2. \A r \in rules : Updated(r, {}) = r
  BY UpdatedIs DEF RulesKept
<1> QED
  BY <1>1, <1>2

LEMMA RuleDisabled ==
  ASSUME RulesKept, NEW off, rules' = AfterUpdate(off)
  PROVE  /\ RulesKept' /\ Ids(rules) \subseteq Ids(rules)'
         /\ \A q, kind : q.op = "create_rule" /\ IsTrue(q, kind) => IsTrue(q, kind)'
         /\ \A id \in Ids(rules) : id \notin Ids(Open(rules)) => id \notin Ids(Open(rules))'
         /\ \A id \in off : id \notin Ids(Open(rules))'
         /\ Open(rules)' = {r \in Open(rules) : r.id \notin off}
<1> DEFINE U(r) == Updated(r, off)
<1>1. rules' = {U(r) : r \in rules}
  BY DEF AfterUpdate, Updated
<1>2. \A r \in rules :
        /\ IsRule(r) /\ IsRule(U(r)) /\ U(r).id = r.id /\ U(r).key = r.key
        /\ U(r).digest = r.digest
        /\ U(r).status = IF r.id \in off THEN "DISABLED" ELSE r.status
        /\ r.id \notin off => U(r) = r
  BY UpdatedIs DEF RulesKept
<1> HIDE DEF U
<1>3. IsFiniteSet(rules')
  <2> DEFINE f == [r \in rules |-> U(r)]
  <2>1. f \in Surjection(rules, rules')
    BY <1>1 DEF Surjection
  <2> HIDE DEF f
  <2> QED
    BY <2>1, FS_Surjection DEF RulesKept
<1>4. \A r, s \in rules' : r.id = s.id \/ r.key = s.key => r = s
  BY <1>1, <1>2 DEF RulesKept
<1>5. RulesKept'
  BY <1>1, <1>2, <1>3, <1>4 DEF RulesKept
<1>6. Ids(rules) = Ids(rules)'
  BY <1>1, <1>2 DEF Ids
<1>7. Open(rules)' = {r \in Open(rules) : r.id \notin off}
  BY <1>1, <1>2 DEF Open
<1>8. \A id \in Ids(rules) : id \notin Ids(Open(rules)) => id \notin Ids(Open(rules))'
  BY <1>7 DEF Ids
<1>9. \A id \in off : id \notin Ids(Open(rules))'
  BY <1>7 DEF Ids
<1>10. ASSUME NEW q, NEW kind, q.op = "create_rule", IsTrue(q, kind)
       PROVE  IsTrue(q, kind)'
  <2>1. RowsWithKey(q)' = {U(r) : r \in RowsWithKey(q)} /\ RowsWithKey(q) \subseteq rules
    BY <1>1, <1>2, <1>10 DEF RowsWithKey
  <2>2. /\ (\E t \in RowsWithKey(q)' : t.digest = DigestOf(q)) <=>
             \E t \in RowsWithKey(q) : t.digest = DigestOf(q)
        /\ RowsWithKey(q)' # {} <=> RowsWithKey(q) # {}
    BY <1>2, <2>1
  <2> QED
    BY <1>10, <2>2 DEF IsTrue
<1> QED
  BY <1>5, <1>6, <1>7, <1>8, <1>9, <1>10

-----------------------------------------------------------------------------
(* The end of a transaction *)

LEMMA NewSetFits ==
  ASSUME IInv, NEW c \in Callers, NEW r, r = req[c], pc[c] \in {"origin", "commit"},
         r.op \in {"classify", "apply"}, NEW row, IsNewSet(c, row)
  PROVE  Joins(r, row) /\ row.digest = SetDigest(r) /\ Integral(r, row)
<1>1. /\ Based(r) /\ r.movement \in Eligible /\ r.fits /\ Current(r.movement) = Expected(r)
      /\ KeyOf(r) \in DerivedKeys => KeyOf(r)[2] = r.movement
  BY BeforeInsert
<1>2. Joins(r, row) /\ row.digest = SetDigest(r)
  BY <1>1 DEF Joins, IsNewSet, DigestOf
<1>3. Integral(r, row)
  <2>1. CASE r.supersedes = None
    BY <1>1, <1>2, <2>1, ExpectedIs DEF IInv, Integral, Fits, Joins
  <2>2. CASE r.supersedes # None
    <3>1. PICK s \in SetsOf(r.movement) : s.id = r.supersedes /\ NextRevision(r) = s.revision + 1
      BY <1>1, <2>2, ExpectedIs DEF IInv
    <3>2. s.revision \in Nat /\ s.revision # 0
      BY <1>1, <3>1, DepthIsNat DEF IInv, SetsKept, Chained, Based
    <3>3. row.revision # 1 /\ s \in sets /\ s.movement = row.movement
      BY <1>2, <3>1, <3>2 DEF Joins, SetsOf
    <3> QED
      BY <1>1, <1>2, <3>1, <3>3 DEF Integral, Fits, Joins
  <2> QED
    BY <2>1, <2>2
<1> QED
  BY <1>2, <1>3

\* What a commit does: one set, one rule, or one rule disabled.
LEMMA CommitIs ==
  ASSUME IInv, NEW c \in Callers, Commit(c), NEW r, r = req[c]
  PROVE  /\ pc[c] = "commit"
         /\ \E kind \in {IF r.op = "apply" THEN "classified" ELSE "ok", "lost"} : Return(c, kind)
         /\ \/ /\ r.op \in {"classify", "apply"} /\ rules' = rules
               /\ \E row : /\ work[c].sets = {row} /\ IsNewSet(c, row) /\ Joins(r, row)
                           /\ row.digest = SetDigest(r) /\ sets' = sets \cup {row}
            \/ /\ r.op = "create_rule" /\ sets' = sets
               /\ \E row : IsNewRule(c, row) /\ rules' = rules \cup {row}
            \/ /\ r.op = "disable" /\ sets' = sets
               /\ r.rule \in Ids(Open(rules)) /\ rules' = AfterUpdate({r.rule})
<1>1. /\ pc[c] = "commit" /\ r.op \in Ops /\ Written(c) /\ RulesKept
  BY DEF Commit, IInv, Caller, Asked, Places
<1>2. \A row \in work[c].sets : Integral(r, row)
  BY <1>1, NewSetFits DEF Written, Classifying, Ops
<1>3. /\ sets' = sets \cup work[c].sets
      /\ rules' = AfterUpdate(work[c].off) \cup work[c].rules
      /\ \/ Return(c, IF r.op = "apply" THEN "classified" ELSE "ok")
         \/ Return(c, "lost")
  BY <1>2 DEF Commit
<1>4. CASE r.op \in {"classify", "apply"}
  <2>1. PICK row : work[c].sets = {row} /\ IsNewSet(c, row)
    BY <1>1, <1>4 DEF Written, Classifying
  <2>2. rules' = rules
    BY <1>1, <1>3, <1>4, AfterNothing DEF Written
  <2> QED
    BY <1>1, <1>3, <1>4, <2>1, <2>2, NewSetFits
<1>5. CASE r.op = "create_rule"
  <2>1. PICK row : work[c].rules = {row} /\ IsNewRule(c, row)
    BY <1>1, <1>5 DEF Written
  <2>2. sets' = sets /\ rules' = rules \cup {row}
    BY <1>1, <1>3, <1>5, <2>1, AfterNothing DEF Written, Classifying
  <2> QED
    BY <1>1, <1>3, <1>5, <2>1, <2>2
<1>6. CASE r.op = "disable"
  <2>1. /\ work[c].off = {r.rule} /\ r.rule \in Ids(Open(rules))
        /\ work[c].sets = {} /\ work[c].rules = {}
    BY <1>1, <1>6 DEF Written, Classifying
  <2> QED
    BY <1>1, <1>3, <1>6, <2>1
<1> QED
  BY <1>1, <1>4, <1>5, <1>6 DEF Ops

LEMMA CommitKeeps ==
  ASSUME IInv, NEW c \in Callers, Commit(c)
  PROVE  IInv'
<1>1. PICK r : r = req[c]
  OBVIOUS
<1>2. PICK kind \in {IF r.op = "apply" THEN "classified" ELSE "ok", "lost"} : Return(c, kind)
  BY <1>1, CommitIs
<1> DEFINE label == IF r.items = <<>> THEN "idle" ELSE "pair"
<1>3. End(c, kind, label)
  BY <1>1, <1>2 DEF Return
<1>4. label \in {"idle", "pair"} /\ (label = "pair" => r.items # <<>>)
  OBVIOUS
<1> HIDE DEF label
<1>5. /\ pc'[c] = label /\ req' = req /\ work'[c] = NoWork /\ answer'[c] = kind
      /\ Shape' /\ \A d \in Callers \ {c} : Same(d)
  BY <1>3, EndIs
<1>6. pc[c] = "commit" /\ Asked(c) /\ Holding(c) /\ r.op \in Ops /\ SetsKept /\ RulesKept
  BY <1>1, CommitIs DEF IInv, Caller, Asked, Places
<1>7. kind \in Kinds(r.op)
  BY <1>2, <1>6 DEF Kinds, Ops
<1>8. kind = "lost" => IsTrue(r, kind)'
  BY <1>6 DEF IsTrue, Status, AllocationStatus, CategorizationStatus, Ops
<1>9. ASSUME SetsKept', RulesKept', \A d \in Callers \ {c} : Caller(d)',
             sets \subseteq sets', Ids(rules) \subseteq Ids(rules)',
             kind # "lost" => IsTrue(r, kind)'
      PROVE  IInv'
  <2>1. Caller(c)'
    BY <1>1, <1>4, <1>5, <1>6, <1>7, <1>8, <1>9, EndedCaller
  <2>2. \A d, e \in Callers : d # e => Apart(d, e)'
    BY <1>5 DEF IInv, Apart, NoWork, Same
  <2> QED
    BY <1>5, <1>9, <2>1, <2>2 DEF IInv
<1>10. CASE /\ r.op \in {"classify", "apply"} /\ rules' = rules
            /\ \E row : /\ work[c].sets = {row} /\ IsNewSet(c, row) /\ Joins(r, row)
                        /\ row.digest = SetDigest(r) /\ sets' = sets \cup {row}
  <2>1. PICK row : /\ work[c].sets = {row} /\ IsNewSet(c, row) /\ Joins(r, row)
                   /\ row.digest = SetDigest(r) /\ sets' = sets \cup {row}
    BY <1>10
  <2>2. SetsKept'
    BY <1>6, <2>1, AddSet
  <2>3. RulesKept' /\ Ids(rules) \subseteq Ids(rules)'
    BY <1>6, <1>10 DEF RulesKept, Ids
  <2>4. rowLock[r.movement] = c
    BY <1>1, <1>6, <1>10 DEF Holding, Classifying
  <2>5. \A d \in Callers \ {c} : Caller(d)'
    BY <1>1, <1>5, <1>10, <2>1, <2>4, SetCommitted
  <2>6. ASSUME kind # "lost"
        PROVE  IsTrue(r, kind)'
    <3>1. CASE r.op = "apply"
      <4>1. kind = "classified" /\ r.supersedes = None
        BY <1>1, <1>2, <1>6, <2>6, <3>1 DEF Asked
      <4>2. row \in SetsOf(r.movement)' /\ row.rule = r.rule /\ row.revision = 1
        BY <1>1, <1>6, <2>1, <3>1, <4>1 DEF SetsOf, IsNewSet, NextRevision
      <4> QED
        BY <3>1, <4>1, <4>2 DEF IsTrue
    <3>2. CASE r.op = "classify"
      <4>1. kind = "ok"
        BY <1>2, <2>6, <3>2
      <4>2. row \in RowsWithKey(r)' /\ row.digest = DigestOf(r)
        BY <1>1, <2>1, <3>2 DEF RowsWithKey, IsNewSet
      <4> QED
        BY <3>2, <4>1, <4>2 DEF IsTrue, Status, AllocationStatus
    <3> QED
      BY <1>10, <3>1, <3>2
  <2> QED
    BY <1>9, <2>1, <2>2, <2>3, <2>5, <2>6
<1>11. CASE /\ r.op = "create_rule" /\ sets' = sets
            /\ \E row : IsNewRule(c, row) /\ rules' = rules \cup {row}
  <2>1. PICK row : IsNewRule(c, row) /\ rules' = rules \cup {row}
    BY <1>11
  <2>2. IsRule(row) /\ (\A s \in rules : s.id # row.id /\ s.key # row.key)
        /\ row.key = KeyOf(r) /\ row.digest = DigestOf(r)
    <3>1. PICK draft, key, digest :
            /\ draft = r.draft /\ key = KeyOf(r) /\ digest = DigestOf(r)
            /\ row = Rule(row.id, draft, "ACTIVE", key, digest)
      BY <1>1, <2>1 DEF IsNewRule
    <3> QED
      BY <2>1, <3>1 DEF IsNewRule, IsRule, Rule
  <2>3. /\ RulesKept' /\ Ids(rules) \subseteq Ids(rules)'
        /\ \A q, k : q.op = "create_rule" /\ IsTrue(q, k) => IsTrue(q, k)'
        /\ \A id \in Ids(rules) : id \notin Ids(Open(rules)) => id \notin Ids(Open(rules))'
    BY <1>6, <2>1, <2>2, RuleAdded
  <2>4. SetsKept'
    BY <1>6, <1>11 DEF SetsKept, Chained, Depth, SetsOf
  <2>5. \A d \in Callers \ {c} : Caller(d)'
    BY <1>1, <1>5, <1>6, <1>11, <2>3, RulesCommitted
  <2>6. kind # "lost" => IsTrue(r, kind)'
    <3>1. row \in RowsWithKey(r)'
      BY <1>11, <2>1, <2>2 DEF RowsWithKey
    <3>2. kind # "lost" => kind = "ok"
      BY <1>2, <1>11
    <3> QED
      BY <1>11, <2>2, <3>1, <3>2 DEF IsTrue, Status, CategorizationStatus
  <2> QED
    BY <1>9, <1>11, <2>3, <2>4, <2>5, <2>6
<1>12. CASE /\ r.op = "disable" /\ sets' = sets
            /\ r.rule \in Ids(Open(rules)) /\ rules' = AfterUpdate({r.rule})
  <2>1. /\ RulesKept' /\ Ids(rules) \subseteq Ids(rules)'
        /\ \A q, k : q.op = "create_rule" /\ IsTrue(q, k) => IsTrue(q, k)'
        /\ \A id \in Ids(rules) : id \notin Ids(Open(rules)) => id \notin Ids(Open(rules))'
        /\ r.rule \notin Ids(Open(rules))'
    BY <1>6, <1>12, RuleDisabled
  <2>2. SetsKept'
    BY <1>6, <1>12 DEF SetsKept, Chained, Depth, SetsOf
  <2>3. \A d \in Callers \ {c} : Caller(d)'
    BY <1>1, <1>5, <1>6, <1>12, <2>1, RulesCommitted
  <2>4. IsTrue(r, kind)'
    BY <1>12, <2>1 DEF IsTrue
  <2> QED
    BY <1>9, <1>12, <2>1, <2>2, <2>3, <2>4
<1> QED
  BY <1>1, <1>10, <1>11, <1>12, CommitIs

-----------------------------------------------------------------------------
(* The invariant *)

LEMMA InitHolds ==
  ASSUME Init
  PROVE  IInv
<1>1. Shape
  BY DEF Init, Shape, NoWork, WorkFields
<1>2. SetsKept
  <2>1. IsFiniteSet({}) /\ Cardinality({}) = 0
    BY FS_EmptySet
  <2>2. \A m : SetsOf(m) = {} /\ Depth(m) = 0
    BY <2>1 DEF Init, SetsOf, Depth
  <2> QED
    BY <2>1, <2>2 DEF Init, SetsKept, Chained
<1>3. RulesKept
  BY FirstRulesAssumption DEF Init, RulesKept, IsRule
<1>4. ASSUME NEW c \in Callers
      PROVE  Caller(c)
  <2>1. /\ pc[c] = "idle" /\ req[c].op = "none" /\ req[c].items = <<>>
        /\ work[c].sets = {} /\ work[c].rules = {} /\ work[c].off = {} /\ answer[c] = "none"
    BY DEF Init, NoWork
  <2>2. Asked(c)
    BY <2>1 DEF Asked, Places, Ops
  <2>3. Holding(c) /\ Written(c) /\ Stage(c) /\ Told(c)
    BY <2>1 DEF Holding, Written, Stage, Told, Classifying
  <2> QED
    BY <2>2, <2>3 DEF Caller
<1>5. \A c, d \in Callers : Apart(c, d)
  BY DEF Init, NoWork, Apart
<1> QED
  BY <1>1, <1>2, <1>3, <1>4, <1>5 DEF IInv

LEMMA NothingChanges ==
  ASSUME IInv, UNCHANGED vars
  PROVE  IInv'
<1>1. /\ sets' = sets /\ rules' = rules /\ pc' = pc /\ req' = req /\ work' = work
      /\ rowLock' = rowLock /\ ruleLock' = ruleLock /\ answer' = answer
  BY DEF vars, tables, locks
<1>2. Shape' /\ UNCHANGED tables
  BY <1>1 DEF IInv, Shape, tables
<1>3. SetsKept' /\ RulesKept'
  BY <1>1 DEF IInv, SetsKept, RulesKept, Chained, Depth, SetsOf
<1>4. \A d \in Callers : Caller(d)'
  BY <1>1, <1>2, SameKeeps DEF IInv, Same
<1>5. \A d, e \in Callers : d # e => Apart(d, e)'
  BY <1>1 DEF IInv, Apart
<1> QED
  BY <1>2, <1>3, <1>4, <1>5 DEF IInv

LEMMA NextKeeps ==
  ASSUME IInv, [Next]_vars
  PROVE  IInv'
<1>1. CASE UNCHANGED vars
  BY <1>1, NothingChanges
<1>2. CASE Done
  BY <1>2, NothingChanges DEF Done
<1>3. ASSUME NEW c \in Callers, Ask(c) \/ Statement(c) \/ Cut(c)
      PROVE  IInv'
  <2>1. CASE Ask(c)
    BY <2>1, AskKeeps
  <2>2. CASE Cut(c)
    BY <2>2, CutKeeps
  <2>3. CASE NextPair(c)
    BY <2>3, NextPairKeeps
  <2>4. CASE Lookup(c)
    BY <2>4, LookupKeeps
  <2>5. CASE TakeRuleLock(c)
    BY <2>5, TakeRuleLockKeeps
  <2>6. CASE LockMovement(c)
    BY <2>6, LockMovementKeeps
  <2>7. CASE Recheck(c)
    BY <2>7, RecheckKeeps
  <2>8. CASE ReadCurrent(c)
    BY <2>8, ReadCurrentKeeps
  <2>9. CASE Evaluate(c)
    BY <2>9, EvaluateKeeps
  <2>10. CASE Insert(c)
    BY <2>10, InsertKeeps
  <2>11. CASE Origin(c)
    BY <2>11, OriginKeeps
  <2>12. CASE RuleKey(c)
    BY <2>12, RuleKeyKeeps
  <2>13. CASE InsertRule(c)
    BY <2>13, InsertRuleKeeps
  <2>14. CASE Update(c)
    BY <2>14, UpdateKeeps
  <2>15. CASE Commit(c)
    BY <2>15, CommitKeeps
  <2> QED
    BY <1>3, <2>1, <2>2, <2>3, <2>4, <2>5, <2>6, <2>7, <2>8, <2>9, <2>10, <2>11, <2>12,
       <2>13, <2>14, <2>15 DEF Statement
<1> QED
  BY <1>1, <1>2, <1>3 DEF Next

\* IInv holds in every reachable state: what the tables hold, what each call has read
\* and written, and that the locks keep these true until it ends.
THEOREM Invariance == Spec => []IInv
<1>1. Init => IInv
  BY InitHolds
<1>2. IInv /\ [Next]_vars => IInv'
  BY NextKeeps
<1> QED
  BY <1>1, <1>2, PTL DEF Spec

\* A key names one set or one rule, and what a client was told of its call stays true,
\* whatever calls follow (AnswersAreTrue).
THEOREM AnswersAreTrueHolds == Spec => []AnswersAreTrue
<1>1. IInv => AnswersAreTrue
  BY DEF IInv, SetsKept, RulesKept, Caller, Told, AnswersAreTrue
<1> QED
  BY <1>1, Invariance, PTL

-----------------------------------------------------------------------------
(* The verdicts *)

\* The chain of m in the contract.
Link(m, n) == [shares |-> Revision(m, n).shares, rule |-> Revision(m, n).rule]
Chain(m) == [n \in 1..Depth(m) |-> Link(m, n)]

LEMMA ChainIs ==
  ASSUME SetsKept, NEW m \in Movements
  PROVE  /\ Chain(m) \in Seq({Link(m, n) : n \in 1..Depth(m)}) /\ Len(Chain(m)) = Depth(m)
         /\ Chain(m) # <<>> <=> SetsOf(m) # {}
<1>1. PICK k \in Nat : k = Depth(m) /\ (k = 0 <=> SetsOf(m) = {})
  BY DepthIsNat
<1>2. Chain(m) \in Seq({Link(m, n) : n \in 1..k}) /\ Len(Chain(m)) = k
  BY <1>1 DEF Chain
<1>3. ASSUME NEW T, NEW q \in Seq(T), Len(q) = k
      PROVE  q # <<>> <=> k # 0
  BY <1>3
<1>4. Chain(m) # <<>> <=> k # 0
  BY <1>2, <1>3
<1> QED
  BY <1>1, <1>2, <1>4

LEMMA TopIs ==
  ASSUME NEW m
  PROVE  Contract!Top(m) = Winners(m, Open(rules))
BY DEF Contract!Top, Contract!Candidates, Winners, Matching, Applies

\* The contract's verdict, said of the tables.
LEMMA VerdictIs ==
  ASSUME SetsKept, NEW m \in Movements, NEW id, NEW winners, winners = Winners(m, Open(rules))
  PROVE  Contract!Verdict(m, id) =
           IF SetsOf(m) # {} THEN "already"
           ELSE IF winners = {} THEN "no_match"
           ELSE IF \E r, s \in winners : r # s THEN "ambiguous"
           ELSE IF id \in Ids(winners) THEN "classified"
           ELSE "conflict"
<1>1. Contract!Verdict(m, id) =
        IF Chain(m) # <<>> THEN "already"
        ELSE IF winners = {} THEN "no_match"
        ELSE IF \E r, s \in winners : r # s THEN "ambiguous"
        ELSE IF \E r \in winners : r.id = id THEN "classified"
        ELSE "conflict"
  BY TopIs DEF Contract!Verdict, Chain, Link, Depth
<1>2. (\E r \in winners : r.id = id) <=> id \in Ids(winners)
  BY DEF Ids
<1> QED
  BY <1>1, <1>2, ChainIs

\* What other callers do leaves the answer of c alone.
LEMMA AnswerStays ==
  ASSUME IInv, NEW c \in Callers, NEW d \in Callers, c # d, Ask(d) \/ Statement(d) \/ Cut(d)
  PROVE  answer'[c] = answer[c]
<1>1. DOMAIN answer = Callers
  BY DEF IInv, Shape
<1>2. ASSUME NEW kind, NEW label, End(d, kind, label)
      PROVE  answer'[c] = answer[c]
  BY <1>1, <1>2 DEF End
<1>3. ASSUME NEW kind, Refuse(d, kind) \/ Return(d, kind)
      PROVE  answer'[c] = answer[c]
  BY <1>2, <1>3 DEF Refuse, Return
<1>4. CASE Ask(d) \/ NextPair(d)
  BY <1>1, <1>4 DEF Ask, NextPair
<1>5. CASE Cut(d) \/ Commit(d)
  BY <1>2, <1>3, <1>5 DEF Cut, Commit
<1>6. CASE Lookup(d) \/ TakeRuleLock(d) \/ LockMovement(d) \/ Recheck(d) \/ ReadCurrent(d)
  BY <1>3, <1>6 DEF Lookup, TakeRuleLock, LockMovement, Recheck, ReadCurrent, Read, Goto
<1>7. CASE Evaluate(d) \/ Insert(d) \/ Origin(d)
  BY <1>3, <1>7 DEF Evaluate, Insert, Origin, Goto
<1>8. CASE RuleKey(d) \/ InsertRule(d) \/ Update(d)
  BY <1>3, <1>8 DEF RuleKey, InsertRule, Update, Read, Goto
<1> QED
  BY <1>4, <1>5, <1>6, <1>7, <1>8 DEF Statement

\* Two rules that win a movement, or one.
LEMMA ManyWin ==
  ASSUME NEW S, IsFiniteSet(S)
  PROVE  /\ Cardinality(S) > 1 => \E r, s \in S : r # s
         /\ S # {} /\ ~(Cardinality(S) > 1) => ~ \E r, s \in S : r # s
<1>1. ASSUME Cardinality(S) > 1, ~ \E r, s \in S : r # s
      PROVE  FALSE
  <2>1. S # {}
    BY <1>1, FS_EmptySet
  <2>2. PICK w : S = {w}
    BY <1>1, <2>1
  <2>3. Cardinality(S) = 1
    BY <2>2, FS_Singleton
  <2> QED
    BY <1>1, <2>3
<1> QED
  BY <1>1, SoleWinner

\* The answer of an application when its transaction ends: the verdict of the moment.
LEMMA EvaluatedAs ==
  ASSUME IInv, NEW c \in Callers, Evaluate(c), NEW r, r = req[c], answer'[c] # "none",
         answer[c] = "none"
  PROVE  answer'[c] = Contract!Verdict(r.movement, r.rule)
<1>1. PICK winners : winners = Winners(r.movement, Open(rules))
  OBVIOUS
<1>2. /\ pc[c] = "evaluate" /\ r.op = "apply" /\ r.movement \in Movements
      /\ Current(r.movement) = Expected(r) /\ r.supersedes = None
  BY DEF Evaluate, IInv, Caller, Asked, Places, Ops, Stage, Classifying
<1>3. SetsOf(r.movement) = {}
  BY <1>2, CurrentIsThere DEF IInv, Expected
<1>4. IsFiniteSet(winners)
  BY <1>1, WinnersFinite DEF IInv
<1>5. \/ winners = {} /\ Refuse(c, "no_match")
      \/ winners # {} /\ Cardinality(winners) > 1 /\ Refuse(c, "ambiguous")
      \/ /\ winners # {} /\ ~(Cardinality(winners) > 1) /\ r.rule \notin Ids(winners)
         /\ Refuse(c, "conflict")
  BY <1>1 DEF Evaluate
<1>6. ASSUME NEW kind, Refuse(c, kind)
      PROVE  answer'[c] = kind
  BY <1>6 DEF Refuse, Return, End, IInv, Shape
<1>7. Contract!Verdict(r.movement, r.rule) =
        IF winners = {} THEN "no_match"
        ELSE IF \E s, t \in winners : s # t THEN "ambiguous"
        ELSE IF r.rule \in Ids(winners) THEN "classified"
        ELSE "conflict"
  BY <1>1, <1>2, <1>3, VerdictIs DEF IInv
<1> QED
  BY <1>4, <1>5, <1>6, <1>7, ManyWin

LEMMA EndsAsJudged ==
  ASSUME IInv, NEW c \in Callers, Statement(c), NEW r, r = req[c], r.op = "apply",
         answer[c] = "none", answer'[c] \notin {"none", "lost", "ineligible"}
  PROVE  answer'[c] = Contract!Verdict(r.movement, r.rule)
<1>1. ASSUME NEW kind, Refuse(c, kind) \/ Return(c, kind)
      PROVE  answer'[c] = kind
  BY <1>1 DEF Refuse, Return, End, IInv, Shape
<1>2. /\ Asked(c) /\ Stage(c) /\ SetsKept
      /\ pc[c] \notin {"lookup", "recheck", "rulekey", "rule", "update"}
  BY DEF IInv, Caller, Asked, Places
<1>3. ASSUME r.movement \in Movements, SetsOf(r.movement) # {}
      PROVE  Contract!Verdict(r.movement, r.rule) = "already"
  BY <1>2, <1>3, VerdictIs
<1>4. pc[c] # "idle" => r.movement \in Movements
  BY <1>2 DEF Asked
<1>5. CASE NextPair(c)
  BY <1>5 DEF NextPair, IInv, Shape
<1>6. CASE TakeRuleLock(c)
  BY <1>6 DEF TakeRuleLock, Goto
<1>7. CASE LockMovement(c)
  BY <1>1, <1>7 DEF LockMovement, Goto
<1>8. CASE ReadCurrent(c)
  <2>1. pc[c] = "current" /\ Current(r.movement) # {} /\ Refuse(c, "already")
    BY <1>8 DEF ReadCurrent, Read, Goto
  <2> QED
    BY <1>1, <1>3, <1>4, <2>1 DEF Current
<1>9. CASE Evaluate(c)
  BY <1>9, EvaluatedAs
<1>10. CASE Insert(c)
  <2>1. /\ pc[c] = "insert" /\ \A row \in sets : ~SamePlace(r, row)
        /\ KeyOf(r) \in DerivedKeys => KeyOf(r)[2] = r.movement
    BY <1>10, BeforeInsert DEF Insert
  <2>2. (\E row \in sets : SameKey(r, row)) /\ Refuse(c, "already")
    BY <1>10, <2>1 DEF Insert, Goto
  <2>3. PICK row \in sets : row.key = KeyOf(r)
    BY <2>2 DEF SameKey
  <2>4. KeyOf(r) \in DerivedKeys
    BY <1>2, <1>4, <2>1 DEF KeyOf, DerivedKeys, Asked
  <2>5. SetsOf(r.movement) # {}
    BY <1>2, <2>1, <2>3, <2>4 DEF SetsKept, SetsOf
  <2> QED
    BY <1>1, <1>3, <1>4, <2>1, <2>2, <2>5
<1>11. CASE Origin(c)
  <2>1. pc[c] = "origin"
    BY <1>11 DEF Origin
  <2>2. PICK w : Winners(r.movement, Open(rules)) = {w} /\ w.id = r.rule
    BY <1>2, <2>1 DEF Stage
  <2>3. r.rule \in Ids(Open(rules))
    BY <2>2 DEF Winners, Matching, Ids
  <2> QED
    BY <1>11, <2>3 DEF Origin, Goto
<1>12. CASE Commit(c)
  <2>1. pc[c] = "commit" /\ answer'[c] = "classified"
    BY <1>1, <1>12, CommitIs
  <2>2. Current(r.movement) = {}
    BY <1>2, <2>1, BeforeInsert DEF Asked, Expected
  <2>3. SetsOf(r.movement) = {}
    BY <1>2, <1>4, <2>1, <2>2, CurrentIsThere
  <2>4. PICK w : Winners(r.movement, Open(rules)) = {w} /\ w.id = r.rule
    BY <1>2, <2>1 DEF Stage
  <2>5. r.rule \in Ids({w})
    BY <2>4 DEF Ids
  <2>6. Contract!Verdict(r.movement, r.rule) = "classified"
    BY <1>2, <1>4, <2>1, <2>3, <2>4, <2>5, VerdictIs
  <2> QED
    BY <2>1, <2>6
<1> QED
  BY <1>2, <1>5, <1>6, <1>7, <1>8, <1>9, <1>10, <1>11, <1>12
     DEF Statement, Lookup, Recheck, RuleKey, InsertRule, Update

\* Every application that ends in this step is answered its verdict.
Judged ==
  \A c \in Callers :
    req[c].op = "apply" /\ answer[c] = "none"
      /\ answer'[c] \notin {"none", "lost", "ineligible"}
      => answer'[c] = Contract!Verdict(req[c].movement, req[c].rule)

LEMMA NextJudged ==
  ASSUME IInv, [Next]_vars
  PROVE  [Judged]_vars
<1> SUFFICES ASSUME Next, NEW c \in Callers, req[c].op = "apply", answer[c] = "none",
                    answer'[c] \notin {"none", "lost", "ineligible"}
             PROVE  \/ UNCHANGED vars
                    \/ answer'[c] = Contract!Verdict(req[c].movement, req[c].rule)
  BY DEF Judged
<1>1. PICK d \in Callers : Ask(d) \/ Statement(d) \/ Cut(d)
  BY DEF Next, Done, vars
<1>2. d = c
  BY <1>1, AnswerStays
<1>3. CASE Ask(c)
  BY <1>3 DEF Ask, IInv, Shape
<1>4. CASE Cut(c)
  BY <1>4 DEF Cut, Refuse, Return, End, IInv, Shape
<1>5. CASE Statement(c)
  <2>1. PICK r : r = req[c]
    OBVIOUS
  <2> QED
    BY <1>5, <2>1, EndsAsJudged
<1> QED
  BY <1>1, <1>2, <1>3, <1>4, <1>5

\* An application is answered what the rules and the chain say when it ends
\* (VerdictsAreCurrent): the locks it holds keep what it read until then.
THEOREM VerdictsAreCurrentHolds == Spec => VerdictsAreCurrent
<1>1. IInv /\ [Next]_vars => [Judged]_vars
  BY NextJudged
<1> QED
  BY Invariance, <1>1, PTL DEF Spec, VerdictsAreCurrent, Judged

-----------------------------------------------------------------------------
(* The contract *)

LEMMA RevisionIs ==
  ASSUME SetsKept, NEW m \in Movements, NEW s \in SetsOf(m)
  PROVE  Revision(m, s.revision) = s
<1>1. \A t \in SetsOf(m) : t.revision = s.revision => t = s
  BY DEF SetsKept, Chained
<1> QED
  BY <1>1 DEF Revision

LEMMA LinksGrow ==
  ASSUME SetsKept, NEW r, NEW row, Joins(r, row), sets' = sets \cup {row},
         NEW m, m = r.movement, NEW k, k = Depth(m)
  PROVE  /\ \A n \in 1..k : Link(m, n)' = Link(m, n)
         /\ Link(m, k + 1)' = [shares |-> row.shares, rule |-> row.rule]
<1>1. k \in Nat
  BY DepthIsNat
<1>2. m \in Movements /\ SetsKept' /\ SetsOf(m)' = SetsOf(m) \cup {row} /\ row.revision = k + 1
  BY <1>1, AddSet, AddedIs, NextIs DEF Joins, Based
<1>3. ASSUME NEW s \in SetsOf(m)'
      PROVE  Revision(m, s.revision)' = s
  <2>1. \A t \in SetsOf(m)' : t.revision = s.revision => t = s
    BY <1>2 DEF SetsKept, Chained
  <2> QED
    BY <2>1 DEF Revision
<1>4. ASSUME NEW n \in 1..k
      PROVE  Revision(m, n)' = Revision(m, n)
  <2>1. PICK s \in SetsOf(m) : s.revision = n
    BY <1>1, <1>2 DEF SetsKept, Chained
  <2>2. Revision(m, n) = s
    BY <1>2, <2>1, RevisionIs
  <2>3. Revision(m, n)' = s
    BY <1>2, <1>3, <2>1
  <2> QED
    BY <2>2, <2>3
<1>5. Revision(m, k + 1)' = row
  BY <1>2, <1>3
<1> QED
  BY <1>1, <1>4, <1>5 DEF Link

LEMMA ChainAppended ==
  ASSUME SetsKept, NEW r, NEW row, Joins(r, row), sets' = sets \cup {row},
         NEW m, m = r.movement, NEW new, new = [shares |-> row.shares, rule |-> row.rule]
  PROVE  /\ Chain(m)' = Append(Chain(m), new) /\ Len(Chain(m)') = Len(Chain(m)) + 1
         /\ Chain(m)'[Len(Chain(m)')] = new
<1>1. PICK k \in Nat : k = Depth(m)
  BY DepthIsNat
<1>2. Depth(m)' = k + 1
  BY <1>1, AddedIs
<1>3. /\ \A n \in 1..k : Link(m, n)' = Link(m, n)
      /\ Link(m, k + 1)' = new
  BY <1>1, LinksGrow
<1>4. Chain(m)' = [n \in 1..(k + 1) |-> IF n = k + 1 THEN new ELSE Link(m, n)]
  BY <1>2, <1>3 DEF Chain
<1>5. Chain(m) = [n \in 1..k |-> Link(m, n)] /\ Len(Chain(m)) = k
  BY <1>1 DEF Chain
<1>6. PICK f : f = [n \in 1..k |-> Link(m, n)]
  OBVIOUS
<1>7. Append(f, new) = [n \in 1..(k + 1) |-> IF n = k + 1 THEN new ELSE Link(m, n)]
  BY <1>6
<1>8. Len(Chain(m)') = k + 1 /\ Chain(m)'[k + 1] = new
  BY <1>4
<1> QED
  BY <1>4, <1>5, <1>6, <1>7, <1>8

\* What the contract speaks of.
Chains == [m \in Movements |-> Chain(m)]
ContractStep == Contract!Next \/ UNCHANGED <<Chains, Open(rules)>>

LEMMA SameTables ==
  ASSUME UNCHANGED tables
  PROVE  ContractStep
<1>1. sets' = sets /\ rules' = rules
  BY DEF tables
<1>2. Chains' = Chains
  BY <1>1 DEF Chains, Chain, Link, Revision, Depth, SetsOf
<1> QED
  BY <1>1, <1>2 DEF ContractStep, Open

\* One chain grows.
LEMMA ChainsGrow ==
  ASSUME SetsKept, NEW r, NEW row, Joins(r, row), sets' = sets \cup {row},
         NEW m, m = r.movement, NEW new, new = [shares |-> row.shares, rule |-> row.rule]
  PROVE  Chains' = [Chains EXCEPT ![m] = Append(Chains[m], new)]
<1>1. m \in Movements
  BY DEF Joins, Based
<1>2. Chain(m)' = Append(Chain(m), new)
  BY ChainAppended
<1>3. ASSUME NEW q \in Movements \ {m}
      PROVE  Chain(q)' = Chain(q)
  <2>1. SetsOf(q)' = SetsOf(q) /\ Depth(q)' = Depth(q)
    BY AddedIs
  <2>2. \A n : Link(q, n)' = Link(q, n)
    BY <2>1 DEF Link, Revision
  <2> QED
    BY <2>1, <2>2 DEF Chain
<1> QED
  BY <1>1, <1>2, <1>3 DEF Chains

LEMMA ReviseRefines ==
  ASSUME SetsKept, NEW r, NEW row, Joins(r, row), sets' = sets \cup {row}, rules' = rules,
         NEW m, m = r.movement, row.rule = None
  PROVE  Contract!Revise(m)
<1>1. PICK new : new = [shares |-> row.shares, rule |-> row.rule]
  OBVIOUS
<1>2. m \in Movements
  BY DEF Joins, Based
<1>3. /\ Chain(m)' = Append(Chain(m), new) /\ Len(Chain(m)') = Len(Chain(m)) + 1
      /\ Chain(m)'[Len(Chain(m)')] = new
  BY <1>1, ChainAppended
<1>4. Chains[m] = Chain(m) /\ Chains'[m] = Chain(m)'
  BY <1>2 DEF Chains
<1>5. Chains' = [Chains EXCEPT ![m] = Append(Chains[m], new)]
  BY <1>1, ChainsGrow
<1>6. Len(Chains'[m]) = Len(Chains[m]) + 1 /\ Chains'[m][Len(Chains'[m])] = new
  BY <1>3, <1>4
<1>7. new.rule = 0
  BY <1>1 DEF None
<1>8. Open(rules)' = Open(rules)
  BY DEF Open
<1>9. Chains' = [Chains EXCEPT ![m] = Append(Chains[m], Chains'[m][Len(Chains'[m])])]
  BY <1>5, <1>6
<1> QED
  BY <1>6, <1>7, <1>8, <1>9 DEF Contract!Revise, Contract!Manual, Chains, Chain, Link, Depth

LEMMA ApplyRefines ==
  ASSUME SetsKept, NEW r, NEW row, Joins(r, row), sets' = sets \cup {row}, rules' = rules,
         NEW m, m = r.movement, SetsOf(m) = {}, NEW w, Winners(m, Open(rules)) = {w},
         row.rule = w.id, row.shares = w.draft.target
  PROVE  w \in Open(rules) /\ Contract!ApplyRule(m, w)
<1>1. PICK new : new = [shares |-> row.shares, rule |-> row.rule]
  OBVIOUS
<1>2. m \in Movements /\ w \in Open(rules)
  BY DEF Joins, Based, Winners, Matching
<1>3. PICK id : id = w.id /\ id \in Ids({w})
  BY DEF Ids
<1>4. Contract!Verdict(m, id) = "classified"
  BY <1>2, <1>3, VerdictIs
<1>5. Chains[m] = <<>>
  BY <1>2, ChainIs DEF Chains
<1>6. Append(Chains[m], new) = <<new>>
  BY <1>5
<1>7. Chains' = [Chains EXCEPT ![m] = <<[shares |-> w.draft.target, rule |-> w.id]>>]
  <2>1. Chains' = [Chains EXCEPT ![m] = Append(Chains[m], new)]
    BY <1>1, ChainsGrow
  <2>2. new = [shares |-> w.draft.target, rule |-> w.id]
    BY <1>1
  <2> QED
    BY <1>6, <2>1, <2>2
<1>8. Open(rules)' = Open(rules)
  BY DEF Open
<1>9. Contract!ApplyRule(m, w)
  BY <1>3, <1>4, <1>7, <1>8 DEF Contract!ApplyRule, Chains, Chain, Link, Depth
<1> QED
  BY <1>2, <1>9

LEMMA ChangeRefines ==
  ASSUME sets' = sets,
         \/ \E r \in Open(rules)' \ Open(rules) : Open(rules)' = Open(rules) \cup {r}
         \/ \E r \in Open(rules) \ Open(rules)' : Open(rules)' = Open(rules) \ {r}
  PROVE  ContractStep
<1>1. Chains' = Chains
  BY DEF Chains, Chain, Link, Revision, Depth, SetsOf
<1>2. Contract!ChangeRules
  BY <1>1 DEF Contract!ChangeRules, Chains, Chain, Link, Depth
<1> QED
  BY <1>2 DEF ContractStep, Contract!Next

LEMMA CommitRefines ==
  ASSUME IInv, NEW c \in Callers, Commit(c)
  PROVE  ContractStep
<1>1. PICK r, m : r = req[c] /\ m = r.movement
  OBVIOUS
<1>2. pc[c] = "commit" /\ Asked(c) /\ Stage(c) /\ SetsKept /\ RulesKept
  BY CommitIs DEF IInv, Caller
<1>3. CASE /\ r.op \in {"classify", "apply"} /\ rules' = rules
           /\ \E row : /\ work[c].sets = {row} /\ IsNewSet(c, row) /\ Joins(r, row)
                       /\ row.digest = SetDigest(r) /\ sets' = sets \cup {row}
  <2>1. PICK row : IsNewSet(c, row) /\ Joins(r, row) /\ sets' = sets \cup {row}
    BY <1>3
  <2>2. m \in Movements
    BY <1>1, <2>1 DEF Joins, Based
  <2>3. CASE r.op = "classify"
    <3>1. row.rule = None
      BY <1>1, <2>1, <2>3 DEF IsNewSet
    <3> QED
      BY <1>1, <1>2, <1>3, <2>1, <2>2, <3>1, ReviseRefines DEF ContractStep, Contract!Next
  <2>4. CASE r.op = "apply"
    <3>1. row.rule = r.rule /\ row.shares = r.shares
      BY <1>1, <1>2, <2>1, <2>4 DEF IsNewSet
    <3>2. PICK w : /\ Winners(m, Open(rules)) = {w}
                   /\ w.id = r.rule /\ r.shares = w.draft.target
      BY <1>1, <1>2, <2>4 DEF Stage
    <3>3. SetsOf(m) = {}
      BY <1>1, <1>2, <2>1, <2>2, <2>4, CurrentIsThere DEF Asked, Joins, Expected
    <3>4. w \in Open(rules) /\ Contract!ApplyRule(m, w)
      BY <1>1, <1>2, <1>3, <2>1, <3>1, <3>2, <3>3, ApplyRefines
    <3> QED
      BY <2>2, <3>4 DEF ContractStep, Contract!Next
  <2> QED
    BY <1>3, <2>3, <2>4
<1>4. CASE /\ r.op = "create_rule" /\ sets' = sets
           /\ \E row : IsNewRule(c, row) /\ rules' = rules \cup {row}
  <2>1. PICK row : IsNewRule(c, row) /\ rules' = rules \cup {row}
    BY <1>4
  <2>2. row.status = "ACTIVE" /\ row \notin rules
    <3>1. PICK draft, key, digest : row = Rule(row.id, draft, "ACTIVE", key, digest)
      BY <2>1 DEF IsNewRule
    <3>2. row.status = "ACTIVE"
      BY <3>1 DEF Rule
    <3> QED
      BY <2>1, <3>2 DEF IsNewRule
  <2>3. Open(rules)' = Open(rules) \cup {row} /\ row \in Open(rules)' \ Open(rules)
    BY <2>1, <2>2 DEF Open
  <2> QED
    BY <1>4, <2>3, ChangeRefines
<1>5. CASE /\ r.op = "disable" /\ sets' = sets
           /\ r.rule \in Ids(Open(rules)) /\ rules' = AfterUpdate({r.rule})
  <2>1. Open(rules)' = {s \in Open(rules) : s.id # r.rule}
    BY <1>2, <1>5, RuleDisabled
  <2>2. PICK s \in Open(rules) : s.id = r.rule
    BY <1>5 DEF Ids
  <2>3. \A t \in Open(rules) : t.id = r.rule => t = s
    BY <1>2, <2>2 DEF RulesKept, Open
  <2>4. Open(rules)' = Open(rules) \ {s} /\ s \in Open(rules) \ Open(rules)'
    BY <2>1, <2>2, <2>3
  <2> QED
    BY <1>5, <2>4, ChangeRefines
<1> QED
  BY <1>1, <1>3, <1>4, <1>5, CommitIs

LEMMA NextRefines ==
  ASSUME IInv, [Next]_vars
  PROVE  ContractStep
<1>1. CASE UNCHANGED vars
  BY <1>1, SameTables DEF vars
<1>2. CASE Done
  BY <1>2, SameTables DEF Done, vars
<1>3. ASSUME NEW c \in Callers, Ask(c) \/ Statement(c) \/ Cut(c)
      PROVE  ContractStep
  <2>1. ASSUME NEW kind, Refuse(c, kind)
        PROVE  UNCHANGED tables
    BY <2>1 DEF Refuse
  <2>2. CASE Commit(c)
    BY <2>2, CommitRefines
  <2>3. CASE Ask(c) \/ Cut(c) \/ NextPair(c) \/ Lookup(c) \/ TakeRuleLock(c)
    <3>1. UNCHANGED tables
      BY <2>1, <2>3 DEF Ask, Cut, NextPair, Lookup, TakeRuleLock, Read, Goto
    <3> QED
      BY <3>1, SameTables
  <2>4. CASE LockMovement(c) \/ Recheck(c) \/ ReadCurrent(c) \/ Evaluate(c)
    <3>1. UNCHANGED tables
      BY <2>1, <2>4 DEF LockMovement, Recheck, ReadCurrent, Evaluate, Read, Goto
    <3> QED
      BY <3>1, SameTables
  <2>5. CASE Insert(c) \/ Origin(c) \/ RuleKey(c) \/ InsertRule(c) \/ Update(c)
    <3>1. UNCHANGED tables
      BY <2>1, <2>5 DEF Insert, Origin, RuleKey, InsertRule, Update, Read, Goto
    <3> QED
      BY <3>1, SameTables
  <2> QED
    BY <1>3, <2>2, <2>3, <2>4, <2>5 DEF Statement
<1> QED
  BY <1>1, <1>2, <1>3 DEF Next

LEMMA InitRefines ==
  ASSUME Init
  PROVE  Contract!Init
<1>1. SetsKept /\ RulesKept
  BY InitHolds DEF IInv
<1>2. ASSUME NEW m \in Movements
      PROVE  Chain(m) = <<>>
  <2>1. SetsOf(m) = {}
    BY DEF Init, SetsOf
  <2> QED
    BY <1>1, <2>1, ChainIs
<1>3. Chains = [m \in Movements |-> <<>>]
  BY <1>2 DEF Chains
<1>4. \A r \in Open(rules) : r.id # 0
  BY <1>1 DEF RulesKept, IsRule, Open, None
<1> QED
  BY <1>3, <1>4 DEF Contract!Init, Contract!Manual, Chains, Chain, Link, Depth

\* Classification is linearizable: a chain grows one revision at a time and never forks,
\* and a rule starts one only while it is the single winner (KeepsContract).
THEOREM KeepsContractHolds == Spec => KeepsContract
<1>1. IInv /\ [Next]_vars => [Contract!Next]_(Contract!vars)
  BY NextRefines DEF ContractStep, Contract!vars, Chains, Chain, Link, Depth
<1> QED
  BY <1>1, InitRefines, Invariance, PTL DEF Spec, KeepsContract, Contract!Spec
-----------------------------------------------------------------------------
(* Walks through the inbox *)

\* What the walk of c was shown is what it has passed, and of what it has to show
\* it has left out nothing that it has passed.
Walk(c) ==
  LET w == walk[c]
  IN /\ w = [filter |-> w.filter, at |-> w.at, shown |-> w.shown, steady |-> w.steady]
     /\ w.at \in Nat
     /\ w.steady \subseteq Fitting(Pending(posted, sets), w.filter, Open(rules))
     /\ \A m \in w.shown : m \in Movements /\ Rank[m] <= w.at
     /\ \A m \in w.steady : Rank[m] <= w.at => m \in w.shown

\* A request goes on where the walk is.
Resuming(c) ==
  pc[c] \in {"rules", "scan"} =>
    /\ req[c].at = walk[c].at
    /\ walk[c].at = Start => req[c].filter = walk[c].filter

\* The same of a request that scans: what it has collected is what fitted between
\* the walk's position and its own, by the rules that it read.
Scanning(c) ==
  pc[c] = "scan" =>
    LET w == walk[c]
        p == page[c]
    IN /\ p = [rules |-> p.rules, at |-> p.at, batches |-> p.batches, items |-> p.items]
       /\ req[c].filter = w.filter
       /\ p.at \in Nat /\ w.at <= p.at
       /\ Cardinality(p.items) < PageLimit
       /\ \A m \in p.items : m \in Movements /\ w.at < Rank[m] /\ Rank[m] <= p.at
       /\ \A m \in w.steady : Rank[m] <= p.at => m \in w.shown \cup p.items
       /\ w.steady \subseteq Fitting(w.steady, w.filter, p.rules)

InboxInv ==
  /\ DOMAIN walk = Callers /\ DOMAIN page = Callers
  /\ \A c \in Callers : Walk(c) /\ Resuming(c) /\ Scanning(c)

\* A set of movements has a first one and a last one.
LEMMA EndsOf ==
  ASSUME NEW S \in SUBSET Movements, S # {}
  PROVE  /\ \E first \in S : \A m \in S : Rank[first] <= Rank[m]
         /\ \E last \in S : \A m \in S : Rank[m] <= Rank[last]
<1> DEFINE Before(m) == {o \in S : Rank[o] < Rank[m]}
           After(m) == {o \in S : Rank[o] > Rank[m]}
<1>1. IsFiniteSet(S) /\ \A m \in S : Rank[m] \in Nat
  BY MovementsAssumption, RankAssumption, FS_Subset
<1>2. IsWellFoundedOn(StrictSubsetOrdering(S), SUBSET S)
  BY <1>1, FS_StrictSubsetOrderingWellFounded, FS_FiniteSubsetsOfFinite
<1>3. \E first \in S : \A m \in S : Rank[first] <= Rank[m]
  <2>1. {Before(m) : m \in S} \subseteq SUBSET S /\ {Before(m) : m \in S} # {}
    OBVIOUS
  <2>2. \E U \in {Before(m) : m \in S} :
          \A V \in {Before(m) : m \in S} : <<V, U>> \notin StrictSubsetOrdering(S)
    BY <1>2, <2>1, WFMin
  <2>3. PICK f \in S : \A m \in S : <<Before(m), Before(f)>> \notin StrictSubsetOrdering(S)
    BY <2>2
  <2>4. ASSUME NEW m \in S, Rank[m] < Rank[f]
        PROVE  FALSE
    <3>1. Before(m) \subseteq Before(f) /\ m \in Before(f) /\ m \notin Before(m)
      BY <1>1, <2>4
    <3>2. Before(m) \in SUBSET S /\ Before(f) \in SUBSET S /\ Before(m) # Before(f)
      BY <3>1
    <3> HIDE DEF Before
    <3> QED
      BY <2>3, <3>1, <3>2 DEF StrictSubsetOrdering
  <2> QED
    BY <1>1, <2>4
<1>4. \E last \in S : \A m \in S : Rank[m] <= Rank[last]
  <2>1. {After(m) : m \in S} \subseteq SUBSET S /\ {After(m) : m \in S} # {}
    OBVIOUS
  <2>2. \E U \in {After(m) : m \in S} :
          \A V \in {After(m) : m \in S} : <<V, U>> \notin StrictSubsetOrdering(S)
    BY <1>2, <2>1, WFMin
  <2>3. PICK l \in S : \A m \in S : <<After(m), After(l)>> \notin StrictSubsetOrdering(S)
    BY <2>2
  <2>4. ASSUME NEW m \in S, Rank[m] > Rank[l]
        PROVE  FALSE
    <3>1. After(m) \subseteq After(l) /\ m \in After(l) /\ m \notin After(m)
      BY <1>1, <2>4
    <3>2. After(m) \in SUBSET S /\ After(l) \in SUBSET S /\ After(m) # After(l)
      BY <3>1
    <3> HIDE DEF After
    <3> QED
      BY <2>3, <3>1, <3>2 DEF StrictSubsetOrdering
  <2> QED
    BY <1>1, <2>4
<1> QED
  BY <1>3, <1>4

LEMMA LastOfIs ==
  ASSUME NEW S \in SUBSET Movements, S # {}
  PROVE  /\ LastOf(S) \in Nat \ {0} /\ \A m \in S : Rank[m] <= LastOf(S)
         /\ \E m \in S : Rank[m] = LastOf(S)
<1>1. PICK l \in S : \A m \in S : Rank[m] <= Rank[l]
  BY EndsOf
<1>2. PICK x : x = Rank[l] /\ x \in Nat \ {0} /\ \A m \in S : Rank[m] \in Nat
  BY RankAssumption
<1>3. \E y \in {Rank[m] : m \in S} : \A z \in {Rank[m] : m \in S} : y >= z
  BY <1>1, <1>2
<1>4. /\ LastOf(S) \in {Rank[m] : m \in S}
      /\ \A z \in {Rank[m] : m \in S} : LastOf(S) >= z
  BY <1>3 DEF LastOf, Max
<1> QED
  BY <1>2, <1>4, RankAssumption

\* The first n of S are an initial part of S, and all of it when they are fewer.
LEMMA FirstOfIs ==
  ASSUME NEW S \in SUBSET Movements, NEW n \in Nat, NEW F, F = FirstOf(S, n)
  PROVE  /\ F \subseteq S /\ IsFiniteSet(F) /\ Cardinality(F) \in Nat
         /\ \A f \in F : \A m \in S : Rank[m] <= Rank[f] => m \in F
         /\ Cardinality(F) <= n
         /\ Cardinality(F) < n => F = S
<1> DEFINE Before(m) == {o \in S : Rank[o] < Rank[m]}
<1>1. /\ IsFiniteSet(S) /\ \A m \in S : Rank[m] \in Nat
      /\ \A m, o \in S : Rank[m] = Rank[o] => m = o
  BY MovementsAssumption, RankAssumption, FS_Subset
<1>2. F = {m \in S : Cardinality(Before(m)) < n}
  BY DEF FirstOf
<1>3. F \subseteq S /\ IsFiniteSet(F) /\ Cardinality(F) \in Nat
  BY <1>1, <1>2, FS_Subset, FS_CardinalityType
<1>4. \A m \in S : IsFiniteSet(Before(m)) /\ Cardinality(Before(m)) \in Nat
  <2> TAKE m \in S
  <2>1. Before(m) \in SUBSET S
    OBVIOUS
  <2> QED
    BY <1>1, <2>1, FS_Subset, FS_CardinalityType
<1>5. ASSUME NEW f \in F, NEW m \in S, Rank[m] <= Rank[f]
      PROVE  m \in F
  <2>1. Before(m) \in SUBSET Before(f) /\ f \in S
    BY <1>1, <1>3, <1>5
  <2>2. Cardinality(Before(m)) <= Cardinality(Before(f))
    BY <1>4, <2>1, FS_Subset
  <2>3. Cardinality(Before(f)) < n
    BY <1>2
  <2> HIDE DEF Before
  <2> QED
    BY <1>2, <1>4, <2>1, <2>2, <2>3
<1>6. Cardinality(F) <= n
  <2>1. CASE F = {}
    BY <2>1, FS_EmptySet
  <2>2. CASE F # {}
    <3>1. PICK l \in F : \A m \in F : Rank[m] <= Rank[l]
      BY <1>3, <2>2, EndsOf
    <3>2. F \ {l} \in SUBSET Before(l)
      BY <1>1, <1>3, <3>1
    <3>3. Cardinality(F \ {l}) <= Cardinality(Before(l)) /\ Cardinality(Before(l)) < n
      BY <1>2, <1>3, <1>4, <3>2, FS_Subset
    <3>4. Cardinality(F \ {l}) = Cardinality(F) - 1
      BY <1>3, FS_RemoveElement
    <3>5. Cardinality(Before(l)) \in Nat
      BY <1>3, <1>4
    <3> HIDE DEF Before
    <3> QED
      BY <1>3, <3>3, <3>4, <3>5
  <2> QED
    BY <2>1, <2>2
<1>7. ASSUME Cardinality(F) < n, F # S
      PROVE  FALSE
  <2>1. S \ F \in SUBSET Movements /\ S \ F # {}
    BY <1>3, <1>7
  <2>2. PICK m \in S \ F : \A o \in S \ F : Rank[m] <= Rank[o]
    BY <2>1, EndsOf
  <2>3. Before(m) \in SUBSET F
    BY <1>1, <2>2
  <2>4. Cardinality(Before(m)) <= Cardinality(F) /\ Cardinality(Before(m)) \in Nat
    BY <1>3, <1>4, <2>3, FS_Subset
  <2> HIDE DEF Before
  <2> QED
    BY <1>2, <1>3, <1>7, <2>2, <2>4
<1> QED
  BY <1>3, <1>5, <1>6, <1>7

-----------------------------------------------------------------------------
(* A batch *)

\* Up to at, everything that the walk of c has to show is shown or collected, and
\* nothing behind it.
Covered(c, at) ==
  /\ \A m \in walk[c].steady : Rank[m] <= at => m \in walk[c].shown \cup Items(c)
  /\ \A m \in walk[c].shown \cup Items(c) : m \in Movements /\ Rank[m] <= at

AllCovered(c) == walk[c].steady \subseteq walk[c].shown \cup Items(c)

\* What a batch and its findings are.
LEMMA BatchIs ==
  ASSUME InboxInv, NEW c \in Callers, pc[c] = "scan",
         NEW R, R = Rest(page[c].at), NEW B, B = Batch(c), NEW F, F = Found(c),
         NEW G, G = Fitting(B, req[c].filter, page[c].rules),
         NEW k, k = PageLimit - Cardinality(page[c].items)
  PROVE  /\ R \subseteq Movements /\ B \subseteq R /\ F \subseteq G /\ G \subseteq B
         /\ \A m \in R : Rank[m] \in Nat \ {0} /\ Rank[m] > page[c].at
         /\ \A b \in B : \A m \in R : Rank[m] <= Rank[b] => m \in B
         /\ B = {} => R = {}
         /\ k \in Nat \ {0} /\ F = FirstOf(G, k)
         /\ \A f \in F : \A m \in G : Rank[m] <= Rank[f] => m \in F
         /\ IsFiniteSet(F) /\ Cardinality(F) <= k /\ (Cardinality(F) < k => F = G)
<1>1. /\ R \subseteq Movements
      /\ \A m \in R : Rank[m] \in Nat \ {0} /\ Rank[m] > page[c].at
  BY EligibleAssumption, RankAssumption DEF Rest, Pending
<1>2. PICK n : n = BatchSize(req[c].filter) /\ n \in Nat \ {0}
  BY LimitsAssumption DEF BatchSize
<1>3. B = FirstOf(R, n)
  BY <1>2 DEF Batch
<1>4. /\ B \subseteq R /\ \A b \in B : \A m \in R : Rank[m] <= Rank[b] => m \in B
      /\ Cardinality(B) < n => B = R
  BY <1>1, <1>2, <1>3, FirstOfIs
<1>5. B = {} => R = {}
  BY <1>2, <1>4, FS_EmptySet
<1>6. k \in Nat \ {0}
  <2>1. page[c].items \in SUBSET Movements /\ Cardinality(page[c].items) < PageLimit
    BY DEF InboxInv, Scanning
  <2>2. Cardinality(page[c].items) \in Nat
    BY <2>1, MovementsAssumption, FS_Subset, FS_CardinalityType
  <2> QED
    BY <2>1, <2>2, LimitsAssumption
<1>7. G \subseteq B /\ F = FirstOf(G, k)
  BY DEF Found, Fitting
<1>8. /\ F \subseteq G /\ \A f \in F : \A m \in G : Rank[m] <= Rank[f] => m \in F
      /\ IsFiniteSet(F) /\ Cardinality(F) <= k /\ (Cardinality(F) < k => F = G)
  <2>1. G \in SUBSET Movements
    BY <1>1, <1>4, <1>7
  <2> QED
    BY <1>6, <1>7, <2>1, FirstOfIs
<1> QED
  BY <1>1, <1>4, <1>5, <1>6, <1>7, <1>8

\* What has to be shown and was not collected before fits by the rules of the page.
LEMMA SteadyFits ==
  ASSUME InboxInv, NEW c \in Callers, pc[c] = "scan", NEW m \in walk[c].steady
  PROVE  /\ Rank[m] \in Nat
         /\ m \notin walk[c].shown \cup page[c].items => m \in Rest(page[c].at)
         /\ m \in Batch(c) => m \in Fitting(Batch(c), req[c].filter, page[c].rules)
<1>1. /\ Walk(c) /\ Scanning(c)
  BY DEF InboxInv
<1>2. /\ m \in Pending(posted, sets) /\ m \in Movements
      /\ Rank[m] \in Nat /\ page[c].at \in Nat
  BY <1>1, EligibleAssumption, RankAssumption DEF Walk, Scanning, Fitting, Pending
<1>3. m \notin walk[c].shown \cup page[c].items => m \in Rest(page[c].at)
  BY <1>1, <1>2 DEF Scanning, Rest
<1>4. m \in Fitting(walk[c].steady, req[c].filter, page[c].rules)
  BY <1>1 DEF Scanning
<1>5. m \in Batch(c) => m \in Fitting(Batch(c), req[c].filter, page[c].rules)
  BY <1>4 DEF Fitting
<1> QED
  BY <1>2, <1>3, <1>5

LEMMA NothingTwice ==
  ASSUME InboxInv, NEW c \in Callers, pc[c] = "scan"
  PROVE  Items(c) \cap walk[c].shown = {}
<1>1. /\ Found(c) \subseteq Rest(page[c].at) /\ \A m \in Rest(page[c].at) : Rank[m] > page[c].at
      /\ \A m \in Rest(page[c].at) : Rank[m] \in Nat
  BY BatchIs
<1>2. Walk(c) /\ Scanning(c)
  BY DEF InboxInv
<1>3. \A m \in walk[c].shown : Rank[m] \in Nat /\ Rank[m] <= walk[c].at
  BY <1>2, RankAssumption DEF Walk
<1>4. \A m \in page[c].items : Rank[m] \in Nat /\ Rank[m] > walk[c].at
  BY <1>2, RankAssumption DEF Scanning
<1>5. walk[c].at \in Nat /\ page[c].at \in Nat /\ walk[c].at <= page[c].at
  BY <1>2 DEF Walk, Scanning
<1> QED
  BY <1>1, <1>3, <1>4, <1>5 DEF Items

\* How many a page holds when a batch is added.
LEMMA ItemsCount ==
  ASSUME InboxInv, NEW c \in Callers, pc[c] = "scan",
         NEW G, G = Fitting(Batch(c), req[c].filter, page[c].rules)
  PROVE  /\ Cardinality(Items(c)) = PageLimit => Found(c) # {}
         /\ Cardinality(Items(c)) # PageLimit
              => Cardinality(Items(c)) < PageLimit /\ Found(c) = G
<1>1. PICK k : k = PageLimit - Cardinality(page[c].items)
  OBVIOUS
<1>2. /\ IsFiniteSet(Found(c)) /\ Cardinality(Found(c)) <= k /\ k \in Nat \ {0}
      /\ Cardinality(Found(c)) < k => Found(c) = G
      /\ Found(c) \subseteq Rest(page[c].at)
      /\ \A m \in Rest(page[c].at) : Rank[m] \in Nat /\ Rank[m] > page[c].at
  BY <1>1, BatchIs
<1>3. /\ page[c].items \in SUBSET Movements /\ Cardinality(page[c].items) < PageLimit
      /\ page[c].at \in Nat /\ \A m \in page[c].items : Rank[m] <= page[c].at
  BY DEF InboxInv, Scanning
<1>4. IsFiniteSet(page[c].items) /\ Cardinality(page[c].items) \in Nat
  BY <1>3, MovementsAssumption, FS_Subset, FS_CardinalityType
<1>5. page[c].items \cap Found(c) = {}
  BY <1>2, <1>3
<1>6. Cardinality(Items(c)) = Cardinality(page[c].items) + Cardinality(Found(c))
  <2>1. Cardinality(page[c].items \cap Found(c)) = 0
    BY <1>5, FS_EmptySet
  <2>2. Cardinality(Found(c)) \in Nat
    BY <1>2, FS_CardinalityType
  <2>3. Cardinality(page[c].items \cup Found(c))
          = Cardinality(page[c].items) + Cardinality(Found(c))
              - Cardinality(page[c].items \cap Found(c))
    BY <1>2, <1>4, FS_Union
  <2>4. Cardinality(Items(c)) = Cardinality(page[c].items \cup Found(c))
    BY DEF Items
  <2> QED
    BY <1>4, <2>1, <2>2, <2>3, <2>4
<1>7. Cardinality(Found(c)) \in Nat /\ (Found(c) = {} => Cardinality(Found(c)) = 0)
  BY <1>2, FS_CardinalityType, FS_EmptySet
<1>8. PageLimit \in Nat
  BY LimitsAssumption
<1> QED
  BY <1>1, <1>2, <1>3, <1>4, <1>6, <1>7, <1>8

\* Up to a movement that was found, and up to the end of a batch that did not fill
\* the page, nothing is left out.
LEMMA CoveredUpTo ==
  ASSUME InboxInv, NEW c \in Callers, pc[c] = "scan", NEW b \in Batch(c),
         b \in Found(c) \/ Cardinality(Items(c)) # PageLimit
  PROVE  \A m \in walk[c].steady : Rank[m] <= Rank[b] => m \in walk[c].shown \cup Items(c)
<1> SUFFICES ASSUME NEW m \in walk[c].steady, Rank[m] <= Rank[b],
                    m \notin walk[c].shown \cup Items(c)
             PROVE  FALSE
  OBVIOUS
<1> DEFINE G == Fitting(Batch(c), req[c].filter, page[c].rules)
<1>1. m \in Rest(page[c].at) /\ m \notin Found(c)
  BY SteadyFits DEF Items
<1>2. m \in Batch(c)
  BY <1>1, BatchIs
<1>3. m \in G
  BY <1>2, SteadyFits
<1>4. CASE b \in Found(c)
  <2>1. \A f \in Found(c) : \A o \in G : Rank[o] <= Rank[f] => o \in Found(c)
    BY BatchIs
  <2> QED
    BY <1>1, <1>3, <1>4, <2>1
<1>5. CASE Cardinality(Items(c)) # PageLimit
  BY <1>1, <1>3, <1>5, ItemsCount
<1> QED
  BY <1>4, <1>5

\* A position up to which all is covered is one to go on from.
LEMMA CoveredAt ==
  ASSUME InboxInv, NEW c \in Callers, pc[c] = "scan", NEW b \in Batch(c),
         b \in Found(c) \/ Cardinality(Items(c)) # PageLimit,
         NEW at \in Nat, at = Rank[b], \A f \in Found(c) : Rank[f] <= at
  PROVE  Covered(c, at) /\ page[c].at < at /\ at # Start
<1>1. b \in Rest(page[c].at) /\ Found(c) \subseteq Movements
  BY BatchIs
<1>2. at \in Nat \ {0} /\ page[c].at < at
  BY <1>1, BatchIs
<1>3. Walk(c) /\ Scanning(c)
  BY DEF InboxInv
<1>4. walk[c].at \in Nat /\ page[c].at \in Nat /\ walk[c].at <= page[c].at
  BY <1>3 DEF Walk, Scanning
<1>5. \A m \in walk[c].shown : m \in Movements /\ Rank[m] <= walk[c].at /\ Rank[m] \in Nat
  BY <1>3, RankAssumption DEF Walk
<1>6. \A m \in page[c].items : m \in Movements /\ Rank[m] <= page[c].at /\ Rank[m] \in Nat
  BY <1>3, RankAssumption DEF Scanning
<1>7. \A m \in walk[c].shown \cup Items(c) : m \in Movements /\ Rank[m] <= at
  BY <1>1, <1>2, <1>4, <1>5, <1>6 DEF Items
<1>8. \A m \in walk[c].steady : Rank[m] <= at => m \in walk[c].shown \cup Items(c)
  BY CoveredUpTo
<1> QED
  BY <1>2, <1>7, <1>8 DEF Covered, Start

\* What a scan leads to: the last page, when nothing is left out; a page with a
\* position up to which nothing is; or the next batch, from such a position.
LEMMA ScanIs ==
  ASSUME InboxInv, NEW c \in Callers, Scan(c)
  PROVE  /\ posted' = posted
         /\ \/ Deliver(c, Items(c), Start) /\ AllCovered(c)
            \/ \E at \in Nat \ {Start} : Deliver(c, Items(c), at) /\ Covered(c, at)
            \/ /\ \E at \in Nat : /\ page' = [page EXCEPT ![c].at = at, ![c].batches = @ + 1,
                                                       ![c].items = Items(c)]
                                  /\ Covered(c, at) /\ page[c].at < at
               /\ Cardinality(Items(c)) < PageLimit /\ UNCHANGED <<vars, walk>>
<1> DEFINE R == Rest(page[c].at)
           B == Batch(c)
           F == Found(c)
<1>1. pc[c] = "scan" /\ posted' = posted
  BY DEF Scan
<1>2. /\ R \subseteq Movements /\ B \subseteq R /\ F \subseteq B
      /\ \A m \in R : Rank[m] \in Nat
      /\ B = {} => R = {}
  BY <1>1, BatchIs
<1>3. ASSUME Cardinality(Items(c)) = PageLimit
      PROVE  /\ LastOf(F) \in Nat \ {Start} /\ Covered(c, LastOf(F))
             /\ ~(LastOf(F) < LastOf(R)) => AllCovered(c)
  <2>1. F \in SUBSET Movements /\ F # {} /\ R \in SUBSET Movements /\ R # {}
    BY <1>1, <1>2, <1>3, ItemsCount
  <2>2. PICK f \in F : Rank[f] = LastOf(F) /\ \A m \in F : Rank[m] <= LastOf(F)
    BY <2>1, LastOfIs
  <2>3. PICK at \in Nat : at = LastOf(F) /\ at = Rank[f]
    BY <2>1, <2>2, LastOfIs
  <2>4. Covered(c, at) /\ at # Start
    BY <1>1, <1>2, <2>2, <2>3, CoveredAt
  <2>5. ASSUME ~(LastOf(F) < LastOf(R)), NEW m \in walk[c].steady,
               m \notin walk[c].shown \cup Items(c)
        PROVE  FALSE
    <3>1. m \in R
      BY <1>1, <2>5, SteadyFits DEF Items
    <3>2. Rank[m] <= LastOf(R) /\ LastOf(R) \in Nat /\ Rank[m] \in Nat
      BY <1>2, <2>1, <3>1, LastOfIs
    <3>3. Rank[m] <= at
      BY <2>3, <2>5, <3>2
    <3> QED
      BY <2>4, <2>5, <3>3 DEF Covered
  <2> QED
    BY <2>3, <2>4, <2>5 DEF AllCovered
<1>4. ASSUME Cardinality(Items(c)) # PageLimit, B = R
      PROVE  AllCovered(c)
  <2> SUFFICES ASSUME NEW m \in walk[c].steady, m \notin walk[c].shown \cup Items(c)
               PROVE  FALSE
    BY DEF AllCovered
  <2>1. m \in B /\ Rank[m] \in Nat
    BY <1>1, <1>4, SteadyFits DEF Items
  <2> QED
    BY <1>1, <1>4, <2>1, CoveredUpTo
<1>5. ASSUME Cardinality(Items(c)) # PageLimit, B # R
      PROVE  /\ LastOf(B) \in Nat \ {Start} /\ Covered(c, LastOf(B))
             /\ page[c].at < LastOf(B) /\ Cardinality(Items(c)) < PageLimit
  <2>1. B \in SUBSET Movements /\ B # {}
    BY <1>2, <1>5
  <2>2. PICK b \in B : Rank[b] = LastOf(B) /\ \A m \in B : Rank[m] <= LastOf(B)
    BY <2>1, LastOfIs
  <2>3. PICK at \in Nat : at = LastOf(B) /\ at = Rank[b]
    BY <2>1, <2>2, LastOfIs
  <2>4. Covered(c, at) /\ page[c].at < at /\ at # Start
    BY <1>1, <1>2, <1>5, <2>2, <2>3, CoveredAt
  <2>5. Cardinality(Items(c)) < PageLimit
    BY <1>1, <1>5, ItemsCount
  <2> QED
    BY <2>3, <2>4, <2>5
<1> HIDE DEF R, B, F
<1>6. CASE Cardinality(Items(c)) = PageLimit
  <2>1. Deliver(c, Items(c), IF LastOf(F) < LastOf(R) THEN LastOf(F) ELSE Start)
    BY <1>6 DEF Scan, ResumeAt, R, B, F
  <2> QED
    BY <1>1, <1>3, <1>6, <2>1
<1>7. CASE Cardinality(Items(c)) # PageLimit /\ B = R
  <2>1. Deliver(c, Items(c), Start)
    BY <1>7 DEF Scan, R, B
  <2> QED
    BY <1>1, <1>4, <1>7, <2>1
<1>8. CASE Cardinality(Items(c)) # PageLimit /\ B # R
  <2>1. \/ Deliver(c, Items(c), LastOf(B))
        \/ /\ page' = [page EXCEPT ![c].at = LastOf(B), ![c].batches = @ + 1,
                                   ![c].items = Items(c)]
           /\ UNCHANGED <<vars, walk>>
    BY <1>8 DEF Scan, R, B
  <2> QED
    BY <1>1, <1>5, <1>8, <2>1 DEF Start
<1> QED
  BY <1>6, <1>7, <1>8

-----------------------------------------------------------------------------
(* Classification below the inbox *)

\* A step of Classification moves one call, and none to a place of the inbox.
LEMMA CallMoves ==
  ASSUME IInv, NEW c \in Callers, Ask(c) \/ Statement(c) \/ Cut(c)
  PROVE  /\ pc'[c] \notin {"rules", "scan"}
         /\ \A d \in Callers \ {c} : pc'[d] = pc[d] /\ req'[d] = req[d]
<1>1. DOMAIN pc = Callers /\ DOMAIN req = Callers
  BY DEF IInv, Shape
<1> DEFINE good == /\ pc'[c] \notin {"rules", "scan"}
                   /\ \A d \in Callers \ {c} : pc'[d] = pc[d] /\ req'[d] = req[d]
<1>2. ASSUME NEW kind, NEW label \in {"idle", "pair"}, End(c, kind, label)
      PROVE  good
  BY <1>1, <1>2 DEF End
<1>3. ASSUME NEW kind, Refuse(c, kind) \/ Return(c, kind)
      PROVE  good
  BY <1>2, <1>3 DEF Refuse, Return
<1>4. ASSUME NEW label, label \notin {"rules", "scan"}, Goto(c, label) \/ Read(c, label)
      PROVE  good
  BY <1>1, <1>4 DEF Goto, Read
<1>5. CASE Ask(c) \/ NextPair(c)
  BY <1>1, <1>5 DEF Ask, NextPair, FirstStatement
<1>6. CASE Cut(c) \/ Commit(c)
  BY <1>2, <1>3, <1>6 DEF Cut, Commit
<1>7. CASE TakeRuleLock(c)
  <2>1. req[c].op \in {"apply", "create_rule", "disable"}
    BY <1>7 DEF TakeRuleLock, IInv, Caller, Asked, Places, Ops
  <2> QED
    BY <1>1, <1>7, <2>1 DEF TakeRuleLock, Goto
<1>8. CASE Lookup(c) \/ LockMovement(c) \/ Recheck(c) \/ ReadCurrent(c)
  BY <1>3, <1>4, <1>8 DEF Lookup, LockMovement, Recheck, ReadCurrent
<1>9. CASE Evaluate(c)
  <2>1. CASE \E kind : Refuse(c, kind)
    BY <1>3, <2>1
  <2>2. CASE ~ \E kind : Refuse(c, kind)
    <3>1. /\ pc' = [pc EXCEPT ![c] = "insert"]
          /\ \E shares : req' = [req EXCEPT ![c].shares = shares]
      BY <1>9, <2>2 DEF Evaluate
    <3> QED
      BY <1>1, <3>1
  <2> QED
    BY <2>1, <2>2
<1>10. CASE Insert(c) \/ Origin(c)
  BY <1>3, <1>4, <1>10 DEF Insert, Origin
<1>11. CASE RuleKey(c) \/ InsertRule(c) \/ Update(c)
  BY <1>3, <1>4, <1>11 DEF RuleKey, InsertRule, Update
<1> QED
  BY <1>5, <1>6, <1>7, <1>8, <1>9, <1>10, <1>11 DEF Statement

\* A request for a page is a call that writes nothing and holds nothing.
LEMMA PageIs ==
  ASSUME IInv, NEW c \in Callers, pc[c] \in {"rules", "scan"}
  PROVE  req[c].op = "page" /\ req[c].items = <<>> /\ answer[c] = "none"
BY DEF IInv, Caller, Asked, Told, Places, Ops

LEMMA PageRefused ==
  ASSUME IInv, NEW c \in Callers, pc[c] \in {"rules", "scan"},
         NEW kind \in {"page", "last", "invalid", "lost"}, Refuse(c, kind)
  PROVE  IInv' /\ sets' = sets /\ rules' = rules /\ req' = req /\ answer'[c] = kind
         /\ pc' = [pc EXCEPT ![c] = "idle"]
<1>1. PICK r : r = req[c] /\ r.op = "page" /\ r.items = <<>>
  BY PageIs
<1>2. kind \in Kinds(r.op) /\ IsTrue(r, kind)
  BY <1>1, PagesAreTrue DEF Kinds
<1>3. IInv'
  BY <1>1, <1>2, RefuseKeeps
<1>4. sets' = sets /\ rules' = rules /\ req' = req /\ pc' = [pc EXCEPT ![c] = "idle"]
  BY <1>1 DEF Refuse, Return, End, tables
<1>5. answer'[c] = kind
  BY DEF Refuse, Return, End, IInv, Shape
<1> QED
  BY <1>3, <1>4, <1>5

LEMMA AskPageKeeps ==
  ASSUME IInv, NEW c \in Callers, AskPage(c)
  PROVE  IInv'
<1>1. PICK filter, at :
        req' = [req EXCEPT ![c] =
                 [op |-> "page", filter |-> filter, at |-> at, items |-> <<>>]]
  BY DEF AskPage
<1>2. /\ pc[c] = "idle" /\ pc' = [pc EXCEPT ![c] = "rules"]
      /\ answer' = [answer EXCEPT ![c] = "none"]
      /\ work' = work /\ rowLock' = rowLock /\ ruleLock' = ruleLock /\ UNCHANGED tables
  BY DEF AskPage, locks
<1>3. /\ req'[c] = [op |-> "page", filter |-> filter, at |-> at, items |-> <<>>]
      /\ pc'[c] = "rules" /\ answer'[c] = "none" /\ work'[c] = work[c]
      /\ Shape' /\ \A d \in Callers \ {c} : Same(d)
  BY <1>1, <1>2 DEF IInv, Shape, Same
<1>4. PICK q : q = req'[c] /\ q.op = "page" /\ q.items = <<>>
  BY <1>3
<1>5. Asked(c)'
  BY <1>3, <1>4 DEF Asked, Places, Ops
<1>6. Holding(c)' /\ Stage(c)' /\ Told(c)'
  BY <1>3, <1>4 DEF Holding, Stage, Told, Classifying
<1>7. Written(c)' /\ work[c].sets = {}
  BY <1>2, <1>3, <1>4 DEF IInv, Caller, Written, Classifying
<1> QED
  BY <1>2, <1>3, <1>5, <1>6, <1>7, OneCaller DEF Caller

LEMMA ReadRulesKeeps ==
  ASSUME IInv, NEW c \in Callers, ReadRules(c)
  PROVE  IInv'
<1>1. pc[c] = "rules"
  BY DEF ReadRules
<1>2. CASE Refuse(c, "invalid")
  BY <1>1, <1>2, PageRefused
<1>3. CASE Read(c, "scan")
  <2>1. req[c].op = "page"
    BY <1>1, PageIs
  <2>2. pc'[c] = "scan" /\ req' = req
    BY <1>3 DEF Read, Goto, IInv, Shape
  <2>3. Holding(c)' /\ Stage(c)'
    BY <2>1, <2>2 DEF Holding, Stage, Classifying
  <2>4. "scan" \in Places(req[c].op)
    BY <2>1 DEF Places
  <2> QED
    BY <1>1, <1>3, <2>3, <2>4, ReadKeeps
<1> QED
  BY <1>2, <1>3 DEF ReadRules

LEMMA ClassifyKeeps ==
  ASSUME IInv, Classify
  PROVE  IInv'
<1>1. CASE Done
  BY <1>1, NextKeeps DEF Next
<1>2. CASE \E c \in Callers : Ask(c) \/ Statement(c) \/ Cut(c)
  BY <1>2, NextKeeps DEF Next
<1> QED
  BY <1>1, <1>2 DEF Classify

\* What Classification keeps is kept by the inbox too, which writes nothing.
LEMMA InboxKeeps ==
  ASSUME IInv, [InboxNext]_allVars
  PROVE  IInv'
<1>1. CASE UNCHANGED vars
  BY <1>1, NothingChanges
<1>2. ASSUME NEW c \in Callers, Scan(c)
      PROVE  IInv'
  <2>1. pc[c] = "scan"
    BY <1>2 DEF Scan
  <2>2. CASE UNCHANGED vars
    BY <2>2, NothingChanges
  <2>3. CASE Refuse(c, "last") \/ Refuse(c, "page")
    BY <2>1, <2>3, PageRefused
  <2> QED
    BY <1>2, <2>2, <2>3 DEF Scan, Deliver
<1>3. ASSUME NEW c \in Callers, CutPage(c)
      PROVE  IInv'
  BY <1>3, PageRefused DEF CutPage
<1> QED
  BY <1>1, <1>2, <1>3, ClassifyKeeps, AskPageKeeps, ReadRulesKeeps
     DEF InboxNext, Post, allVars

-----------------------------------------------------------------------------
(* The walks *)

\* A walk stays as it is while the tables do.
LEMMA OtherWalks ==
  ASSUME InboxInv, UNCHANGED <<posted, sets, rules>>, NEW d \in Callers,
         walk'[d] = walk[d], page'[d] = page[d], pc'[d] = pc[d], req'[d] = req[d]
  PROVE  Walk(d)' /\ Resuming(d)' /\ Scanning(d)'
<1>1. PICK w, p, r, at : w = walk[d] /\ p = page[d] /\ r = req[d] /\ at = pc[d]
  OBVIOUS
<1>2. Walk(d) /\ Resuming(d) /\ Scanning(d)
  BY DEF InboxInv
<1>3. Walk(d)'
  <2>1. Fitting(Pending(posted, sets), w.filter, Open(rules))'
          = Fitting(Pending(posted, sets), w.filter, Open(rules))
    BY DEF Fitting, Pending, Open
  <2> QED
    BY <1>1, <1>2, <2>1 DEF Walk
<1>4. Resuming(d)'
  BY <1>1, <1>2 DEF Resuming
<1>5. Scanning(d)'
  BY <1>1, <1>2 DEF Scanning
<1> QED
  BY <1>3, <1>4, <1>5

\* What changes meanwhile only takes away from what has to be shown.
LEMMA WatchedKeeps ==
  ASSUME InboxInv, walk' = Watched, page' = page, NEW d \in Callers,
         pc'[d] \in {"rules", "scan"} => pc'[d] = pc[d] /\ req'[d] = req[d]
  PROVE  Walk(d)' /\ Resuming(d)' /\ Scanning(d)'
<1>1. PICK w, v : w = walk[d] /\ v = walk'[d]
  OBVIOUS
<1>2. Walk(d) /\ Resuming(d) /\ Scanning(d)
  BY DEF InboxInv
<1>3. v = [w EXCEPT !.steady = Fitting(w.steady \cap Pending(posted', sets'),
                                       w.filter, Open(rules'))]
  BY <1>1 DEF Watched
<1>4. /\ v = [filter |-> v.filter, at |-> v.at, shown |-> v.shown, steady |-> v.steady]
      /\ v.filter = w.filter /\ v.at = w.at /\ v.shown = w.shown
      /\ v.steady = Fitting(w.steady \cap Pending(posted', sets'), v.filter, Open(rules'))
  BY <1>1, <1>2, <1>3 DEF Walk
<1>5. /\ v.steady \subseteq w.steady
      /\ v.steady \subseteq Fitting(Pending(posted', sets'), v.filter, Open(rules'))
  BY <1>4 DEF Fitting
<1>6. Walk(d)'
  <2>1. Open(rules') = Open(rules)' /\ Pending(posted', sets') = Pending(posted, sets)'
    BY DEF Open, Pending
  <2>2. v.steady \subseteq Fitting(Pending(posted, sets)', v.filter, Open(rules)')
    BY <1>5, <2>1
  <2> QED
    BY <1>1, <1>2, <1>4, <1>5, <2>2 DEF Walk, Fitting
<1>7. Resuming(d)'
  BY <1>1, <1>2, <1>4 DEF Resuming
<1>8. Scanning(d)'
  <2> SUFFICES ASSUME pc'[d] = "scan"
               PROVE  Scanning(d)'
    BY DEF Scanning
  <2>1. PICK p : p = page[d] /\ p = page'[d]
    OBVIOUS
  <2>2. w.steady \subseteq Fitting(w.steady, w.filter, p.rules)
    BY <1>1, <1>2, <2>1 DEF Scanning
  <2>3. v.steady \subseteq Fitting(v.steady, v.filter, p.rules)
    BY <1>4, <1>5, <2>2 DEF Fitting
  <2> QED
    BY <1>1, <1>2, <1>4, <1>5, <2>1, <2>3 DEF Scanning
<1> QED
  BY <1>6, <1>7, <1>8

\* A step of one request leaves the walks of others alone.
LEMMA OneWalk ==
  ASSUME InboxInv, UNCHANGED <<posted, sets, rules>>, NEW c \in Callers,
         DOMAIN walk' = Callers, DOMAIN page' = Callers,
         \A d \in Callers \ {c} :
           walk'[d] = walk[d] /\ page'[d] = page[d] /\ pc'[d] = pc[d] /\ req'[d] = req[d],
         Walk(c)', Resuming(c)', Scanning(c)'
  PROVE  InboxInv'
<1>1. ASSUME NEW d \in Callers
      PROVE  Walk(d)' /\ Resuming(d)' /\ Scanning(d)'
  BY OtherWalks
<1> QED
  BY <1>1 DEF InboxInv

LEMMA AskPageWalks ==
  ASSUME IInv, InboxInv, NEW c \in Callers, AskPage(c)
  PROVE  InboxInv'
<1>1. PICK filter \in Filters, at \in {Start, walk[c].at} :
        /\ req' = [req EXCEPT ![c] =
                    [op |-> "page", filter |-> filter, at |-> at, items |-> <<>>]]
        /\ walk' = [walk EXCEPT ![c] =
             IF at # Start THEN @
             ELSE [NoWalk EXCEPT !.filter = filter,
                     !.steady = Fitting(Pending(posted, sets), filter, Open(rules))]]
  BY DEF AskPage
<1>2. /\ pc' = [pc EXCEPT ![c] = "rules"] /\ page' = page
      /\ UNCHANGED <<posted, sets, rules>>
  BY DEF AskPage, tables
<1>3. /\ DOMAIN walk' = Callers /\ DOMAIN page' = Callers
      /\ pc'[c] = "rules" /\ req'[c].at = at /\ req'[c].filter = filter
      /\ \A d \in Callers \ {c} :
           walk'[d] = walk[d] /\ page'[d] = page[d] /\ pc'[d] = pc[d] /\ req'[d] = req[d]
  BY <1>1, <1>2 DEF IInv, Shape, InboxInv
<1>4. Walk(c) /\ Scanning(c)'
  BY <1>3 DEF InboxInv, Scanning
<1>5. PICK S : S = Fitting(Pending(posted, sets), filter, Open(rules))
  OBVIOUS
<1>6. S = Fitting(Pending(posted, sets), filter, Open(rules))' /\ S \subseteq Movements
  BY <1>2, <1>5, EligibleAssumption DEF Fitting, Pending, Open
<1>7. Walk(c)' /\ Resuming(c)'
  <2>1. CASE at = Start
    <3>1. walk'[c] = [filter |-> filter, at |-> Start, shown |-> {}, steady |-> S]
      BY <1>1, <1>5, <2>1 DEF NoWalk, InboxInv
    <3>2. \A m \in S : Rank[m] \in Nat \ {0}
      BY <1>6, RankAssumption
    <3>3. \A m \in S : ~(Rank[m] <= Start)
      BY <3>2 DEF Start
    <3>4. PICK v : v = walk'[c]
      OBVIOUS
    <3>5. v.filter = filter /\ v.at = Start /\ v.shown = {} /\ v.steady = S
      BY <3>1, <3>4
    <3>6. Walk(c)'
      BY <1>6, <3>1, <3>3, <3>4, <3>5 DEF Walk, Start
    <3> QED
      BY <1>3, <2>1, <3>4, <3>5, <3>6 DEF Resuming
  <2>2. CASE at # Start
    <3>1. walk'[c] = walk[c] /\ at = walk[c].at
      BY <1>1, <2>2 DEF InboxInv
    <3>2. PICK w : w = walk[c]
      OBVIOUS
    <3>3. Fitting(Pending(posted, sets), w.filter, Open(rules))'
            = Fitting(Pending(posted, sets), w.filter, Open(rules))
      BY <1>2 DEF Fitting, Pending, Open
    <3>4. Walk(c)'
      BY <1>4, <3>1, <3>2, <3>3 DEF Walk
    <3> QED
      BY <1>3, <2>2, <3>1, <3>4 DEF Resuming
  <2> QED
    BY <2>1, <2>2
<1> QED
  BY <1>2, <1>3, <1>4, <1>7, OneWalk

LEMMA ReadRulesWalks ==
  ASSUME IInv, InboxInv, NEW c \in Callers, ReadRules(c)
  PROVE  InboxInv'
<1>1. /\ pc[c] = "rules" /\ posted' = posted /\ walk' = walk
      /\ Walk(c) /\ Resuming(c)
  BY DEF ReadRules, InboxInv
<1>2. CASE Refuse(c, "invalid") /\ page' = page
  <2>1. sets' = sets /\ rules' = rules /\ req' = req /\ pc' = [pc EXCEPT ![c] = "idle"]
    BY <1>1, <1>2, PageRefused
  <2>2. pc'[c] = "idle" /\ \A d \in Callers \ {c} : pc'[d] = pc[d]
    BY <2>1 DEF IInv, Shape
  <2>3. Resuming(c)' /\ Scanning(c)'
    BY <2>2 DEF Resuming, Scanning
  <2>4. Walk(c)'
    BY <1>1, <2>1 DEF Walk, Fitting, Pending, Open
  <2> QED
    BY <1>1, <1>2, <2>1, <2>2, <2>3, <2>4, OneWalk DEF InboxInv
<1>3. CASE /\ CursorAccepted(c) /\ Read(c, "scan")
           /\ page' = [page EXCEPT ![c] = [NoPage EXCEPT !.rules = ListedRules,
                                                         !.at = req[c].at]]
  <2>1. PICK w, p, r : w = walk[c] /\ p = page'[c] /\ r = req[c]
    OBVIOUS
  <2>2. /\ sets' = sets /\ rules' = rules /\ req' = req /\ pc'[c] = "scan"
        /\ DOMAIN page' = Callers
        /\ \A d \in Callers \ {c} : pc'[d] = pc[d] /\ page'[d] = page[d]
    BY <1>3 DEF Read, Goto, tables, IInv, Shape, InboxInv
  <2>3. p = [rules |-> Open(rules), at |-> r.at, batches |-> 0, items |-> {}]
    BY <1>3, <2>1 DEF NoPage, ListedRules, InboxInv
  <2>4. r.at = w.at /\ r.filter = w.filter
    BY <1>1, <1>3, <2>1 DEF Resuming, CursorAccepted
  <2>5. /\ w.at \in Nat /\ \A m \in w.steady : Rank[m] <= w.at => m \in w.shown
        /\ w.steady \subseteq Fitting(w.steady, w.filter, Open(rules))
    BY <1>1, <2>1 DEF Walk, Fitting
  <2>6. Walk(c)'
    BY <1>1, <2>2 DEF Walk, Fitting, Pending, Open
  <2>7. Resuming(c)'
    BY <1>1, <2>1, <2>2, <2>4 DEF Resuming
  <2>8. Cardinality({}) < PageLimit
    BY FS_EmptySet, LimitsAssumption
  <2>9. /\ p.rules = Open(rules) /\ p.at = w.at /\ p.items = {}
        /\ p = [rules |-> p.rules, at |-> p.at, batches |-> p.batches, items |-> p.items]
    BY <2>3, <2>4
  <2>10. Scanning(c)'
    BY <1>1, <2>1, <2>2, <2>4, <2>5, <2>8, <2>9 DEF Scanning
  <2> QED
    BY <1>1, <2>2, <2>6, <2>7, <2>10, OneWalk DEF InboxInv
<1> QED
  BY <1>2, <1>3 DEF ReadRules

\* An empty walk.
LEMMA NoWalkIs ==
  ASSUME NEW c \in Callers, walk'[c] = NoWalk
  PROVE  Walk(c)'
<1>1. walk'[c] = [filter |-> AnyStatus, at |-> 0, shown |-> {}, steady |-> {}]
  BY DEF NoWalk, Start
<1> QED
  BY <1>1 DEF Walk

\* A page that reaches the client moves its walk to where all is covered.
LEMMA DeliverWalks ==
  ASSUME IInv, InboxInv, NEW c \in Callers, pc[c] = "scan", posted' = posted,
         NEW at \in Nat, Deliver(c, Items(c), at), at # Start => Covered(c, at)
  PROVE  InboxInv'
<1>1. PICK w, v, I : w = walk[c] /\ v = walk'[c] /\ I = Items(c)
  OBVIOUS
<1>2. Refuse(c, IF at = Start THEN "last" ELSE "page")
  BY DEF Deliver
<1>3. sets' = sets /\ rules' = rules /\ req' = req /\ pc' = [pc EXCEPT ![c] = "idle"]
  BY <1>2, PageRefused
<1>4. /\ pc'[c] = "idle" /\ DOMAIN walk' = Callers /\ DOMAIN page' = Callers
      /\ \A d \in Callers \ {c} :
           walk'[d] = walk[d] /\ page'[d] = page[d] /\ pc'[d] = pc[d] /\ req'[d] = req[d]
  BY <1>3 DEF Deliver, IInv, Shape, InboxInv
<1>5. Resuming(c)' /\ Scanning(c)'
  BY <1>4 DEF Resuming, Scanning
<1>6. Walk(c)'
  <2>1. CASE at = Start
    <3>1. walk'[c] = NoWalk
      BY <2>1 DEF Deliver, InboxInv
    <3> QED
      BY <3>1, NoWalkIs
  <2>2. CASE at # Start
    <3>1. Walk(c)
      BY DEF InboxInv
    <3>2. /\ v = [filter |-> w.filter, at |-> at, shown |-> w.shown \cup I,
                  steady |-> w.steady]
      <4>1. walk' = [walk EXCEPT ![c] = [walk[c] EXCEPT !.at = at, !.shown = @ \cup Items(c)]]
        BY <2>2 DEF Deliver
      <4>2. v = [w EXCEPT !.at = at, !.shown = w.shown \cup I]
        BY <1>1, <4>1 DEF InboxInv
      <4> QED
        BY <1>1, <3>1, <4>2 DEF Walk
    <3>3. /\ \A m \in w.steady : Rank[m] <= at => m \in w.shown \cup I
          /\ \A m \in w.shown \cup I : m \in Movements /\ Rank[m] <= at
      BY <1>1, <2>2 DEF Covered
    <3>4. w.steady \subseteq Fitting(Pending(posted, sets), w.filter, Open(rules))'
      BY <1>1, <1>3, <3>1 DEF Walk, Fitting, Pending, Open
    <3>5. /\ v.filter = w.filter /\ v.at = at /\ v.shown = w.shown \cup I
          /\ v.steady = w.steady
          /\ v = [filter |-> v.filter, at |-> v.at, shown |-> v.shown, steady |-> v.steady]
      BY <3>2
    <3> QED
      BY <1>1, <3>3, <3>4, <3>5 DEF Walk
  <2> QED
    BY <2>1, <2>2
<1> QED
  BY <1>3, <1>4, <1>5, <1>6, OneWalk

\* A scan that goes on.
LEMMA NextBatchWalks ==
  ASSUME IInv, InboxInv, NEW c \in Callers, pc[c] = "scan", posted' = posted,
         NEW at \in Nat, Covered(c, at), page[c].at < at,
         page' = [page EXCEPT ![c].at = at, ![c].batches = @ + 1, ![c].items = Items(c)],
         Cardinality(Items(c)) < PageLimit, UNCHANGED <<vars, walk>>
  PROVE  InboxInv'
<1>1. PICK w, p, q, I : w = walk[c] /\ p = page[c] /\ q = page'[c] /\ I = Items(c)
  OBVIOUS
<1>2. /\ sets' = sets /\ rules' = rules /\ req' = req /\ pc' = pc /\ walk' = walk
      /\ DOMAIN page' = Callers /\ \A d \in Callers \ {c} : page'[d] = page[d]
  BY DEF vars, tables, InboxInv
<1>3. Walk(c) /\ Resuming(c) /\ Scanning(c)
  BY DEF InboxInv
<1>4. /\ q = [rules |-> p.rules, at |-> at, batches |-> p.batches + 1, items |-> I]
      /\ w.at \in Nat /\ p.at \in Nat /\ w.at <= p.at
  <2>1. q = [p EXCEPT !.at = at, !.batches = p.batches + 1, !.items = I]
    BY <1>1 DEF InboxInv
  <2> QED
    BY <1>1, <1>3, <2>1 DEF Walk, Scanning
<1>5. /\ q.rules = p.rules /\ q.at = at /\ q.items = I
      /\ q = [rules |-> q.rules, at |-> q.at, batches |-> q.batches, items |-> q.items]
  BY <1>4
<1>6. ASSUME NEW m \in I
      PROVE  m \in Movements /\ w.at < Rank[m] /\ Rank[m] <= at
  <2>1. m \in Movements /\ Rank[m] <= at /\ Rank[m] \in Nat
    BY <1>1, RankAssumption DEF Covered
  <2>2. m \in p.items => w.at < Rank[m]
    BY <1>1, <1>3 DEF Scanning
  <2>3. Found(c) \subseteq Rest(p.at) /\ \A n \in Rest(p.at) : Rank[n] > p.at
    BY <1>1, BatchIs
  <2>4. m \in Found(c) => w.at < Rank[m]
    BY <1>4, <2>1, <2>3
  <2> QED
    BY <1>1, <2>1, <2>2, <2>4 DEF Items
<1>7. \A m \in w.steady : Rank[m] <= at => m \in w.shown \cup I
  BY <1>1 DEF Covered
<1>8. Scanning(c)'
  <2>1. /\ req[c].filter = w.filter /\ w.steady \subseteq Fitting(w.steady, w.filter, q.rules)
        /\ w.at <= at
    BY <1>1, <1>3, <1>4, <1>5 DEF Scanning
  <2>2. Cardinality(I) < PageLimit
    BY <1>1
  <2> QED
    BY <1>1, <1>2, <1>5, <1>6, <1>7, <2>1, <2>2 DEF Scanning
<1>9. Walk(c)' /\ Resuming(c)'
  BY <1>2, <1>3 DEF Walk, Resuming, Fitting, Pending, Open
<1> QED
  BY <1>2, <1>8, <1>9, OneWalk DEF InboxInv

LEMMA ScanWalks ==
  ASSUME IInv, InboxInv, NEW c \in Callers, Scan(c)
  PROVE  InboxInv'
<1>1. pc[c] = "scan" /\ posted' = posted
  BY DEF Scan
<1>2. CASE Deliver(c, Items(c), Start)
  BY <1>1, <1>2, DeliverWalks DEF Start
<1>3. CASE \E at \in Nat \ {Start} : Deliver(c, Items(c), at) /\ Covered(c, at)
  BY <1>1, <1>3, DeliverWalks
<1>4. CASE /\ \E at \in Nat : /\ page' = [page EXCEPT ![c].at = at, ![c].batches = @ + 1,
                                                     ![c].items = Items(c)]
                              /\ Covered(c, at) /\ page[c].at < at
           /\ Cardinality(Items(c)) < PageLimit /\ UNCHANGED <<vars, walk>>
  BY <1>1, <1>4, NextBatchWalks
<1> QED
  BY <1>2, <1>3, <1>4, ScanIs

LEMMA CutPageWalks ==
  ASSUME IInv, InboxInv, NEW c \in Callers, CutPage(c)
  PROVE  InboxInv'
<1>1. /\ posted' = posted /\ sets' = sets /\ rules' = rules /\ req' = req
      /\ walk' = walk /\ pc' = [pc EXCEPT ![c] = "idle"]
  BY PageRefused DEF CutPage
<1>2. /\ pc'[c] = "idle" /\ DOMAIN walk' = Callers /\ DOMAIN page' = Callers
      /\ \A d \in Callers \ {c} :
           walk'[d] = walk[d] /\ page'[d] = page[d] /\ pc'[d] = pc[d] /\ req'[d] = req[d]
  BY <1>1 DEF CutPage, IInv, Shape, InboxInv
<1>3. Resuming(c)' /\ Scanning(c)'
  BY <1>2 DEF Resuming, Scanning
<1>4. Walk(c)'
  BY <1>1 DEF InboxInv, Walk, Fitting, Pending, Open
<1> QED
  BY <1>1, <1>2, <1>3, <1>4, OneWalk

LEMMA ClassifyWalks ==
  ASSUME IInv, InboxInv, Classify
  PROVE  InboxInv'
<1>1. walk' = Watched /\ page' = page
  BY DEF Classify
<1>2. DOMAIN walk' = Callers /\ DOMAIN page' = Callers
  BY <1>1 DEF Watched, InboxInv
<1>3. ASSUME NEW d \in Callers, pc'[d] \in {"rules", "scan"}
      PROVE  pc'[d] = pc[d] /\ req'[d] = req[d]
  <2>1. CASE Done
    BY <2>1 DEF Done, vars
  <2>2. ASSUME NEW c \in Callers, Ask(c) \/ Statement(c) \/ Cut(c)
        PROVE  pc'[d] = pc[d] /\ req'[d] = req[d]
    BY <1>3, <2>2, CallMoves
  <2> QED
    BY <2>1, <2>2 DEF Classify
<1>4. ASSUME NEW d \in Callers
      PROVE  Walk(d)' /\ Resuming(d)' /\ Scanning(d)'
  BY <1>1, <1>3, <1>4, WatchedKeeps
<1> QED
  BY <1>2, <1>4 DEF InboxInv

LEMMA PostWalks ==
  ASSUME InboxInv, NEW m \in PostedLater, Post(m)
  PROVE  InboxInv'
<1>1. walk' = Watched /\ page' = page /\ pc' = pc /\ req' = req
  BY DEF Post, vars
<1>2. DOMAIN walk' = Callers /\ DOMAIN page' = Callers
  BY <1>1 DEF Watched, InboxInv
<1>3. ASSUME NEW d \in Callers
      PROVE  Walk(d)' /\ Resuming(d)' /\ Scanning(d)'
  BY <1>1, <1>3, WatchedKeeps
<1> QED
  BY <1>2, <1>3 DEF InboxInv

\* The invariant of the inbox holds at first and every step of it keeps it.
LEMMA InboxInitHolds == InboxInit => IInv /\ InboxInv
<1> SUFFICES ASSUME InboxInit
             PROVE  IInv /\ InboxInv
  OBVIOUS
<1>1. IInv
  BY InitHolds DEF InboxInit
<1>2. DOMAIN walk = Callers /\ DOMAIN page = Callers
  BY DEF InboxInit
<1>3. ASSUME NEW c \in Callers
      PROVE  Walk(c) /\ Resuming(c) /\ Scanning(c)
  <2>1. pc[c] = "idle"
    BY DEF InboxInit, Init
  <2>2. walk[c] = [filter |-> AnyStatus, at |-> 0, shown |-> {}, steady |-> {}]
    BY DEF InboxInit, NoWalk, Start
  <2> QED
    BY <2>1, <2>2 DEF Walk, Resuming, Scanning
<1> QED
  BY <1>1, <1>2, <1>3 DEF InboxInv

LEMMA InboxNextKeeps ==
  ASSUME IInv, InboxInv, [InboxNext]_allVars
  PROVE  IInv' /\ InboxInv'
<1> SUFFICES InboxInv'
  BY InboxKeeps
<1>1. CASE UNCHANGED allVars
  <2>1. UNCHANGED <<posted, sets, rules, walk, page, pc, req>>
    BY <1>1 DEF allVars, vars, inbox, tables
  <2>2. ASSUME NEW d \in Callers
        PROVE  Walk(d)' /\ Resuming(d)' /\ Scanning(d)'
    <3>1. walk'[d] = walk[d] /\ page'[d] = page[d] /\ pc'[d] = pc[d] /\ req'[d] = req[d]
      BY <2>1
    <3>2. UNCHANGED <<posted, sets, rules>>
      BY <2>1
    <3> QED
      BY <3>1, <3>2, OtherWalks
  <2>3. DOMAIN walk' = Callers /\ DOMAIN page' = Callers
    BY <2>1 DEF InboxInv
  <2> QED
    BY <2>2, <2>3 DEF InboxInv
<1>2. CASE InboxNext
  BY <1>2, ClassifyWalks, PostWalks, AskPageWalks, ReadRulesWalks, ScanWalks, CutPageWalks
     DEF InboxNext
<1> QED
  BY <1>1, <1>2

\* IInv and the invariant of the walks hold in every reachable state of the inbox: what
\* a walk was shown is what it has passed, and it passed nothing that it had to show.
THEOREM InboxInvariance == InboxSpec => [](IInv /\ InboxInv)
<1>1. IInv /\ InboxInv /\ [InboxNext]_allVars => (IInv /\ InboxInv)'
  BY InboxNextKeeps
<1> QED
  BY <1>1, InboxInitHolds, PTL DEF InboxSpec

\* What Classification promises it promises below the inbox too (AnswersAreTrue).
THEOREM InboxAnswersAreTrue == InboxSpec => []AnswersAreTrue
<1>1. IInv => AnswersAreTrue
  BY DEF IInv, SetsKept, RulesKept, Caller, Told, AnswersAreTrue
<1> QED
  BY <1>1, InboxInvariance, PTL

\* A request for a page leaves the tables and the answers of other callers alone.
LEMMA PageStepIs ==
  ASSUME IInv, NEW c \in Callers,
         AskPage(c) \/ ReadRules(c) \/ Scan(c) \/ CutPage(c)
  PROVE  /\ UNCHANGED tables
         /\ \A d \in Callers \ {c} : answer'[d] = answer[d]
<1> DEFINE good == /\ UNCHANGED tables
                   /\ \A d \in Callers \ {c} : answer'[d] = answer[d]
<1>1. DOMAIN answer = Callers
  BY DEF IInv, Shape
<1>2. ASSUME NEW kind, pc[c] \in {"rules", "scan"}, Refuse(c, kind)
      PROVE  good
  <2>1. req[c].items = <<>>
    BY <1>2, PageIs
  <2> QED
    BY <1>1, <1>2, <2>1 DEF Refuse, Return, End
<1>3. CASE AskPage(c)
  BY <1>1, <1>3 DEF AskPage
<1>4. CASE ReadRules(c)
  BY <1>1, <1>2, <1>4 DEF ReadRules, Read, Goto
<1>5. CASE Scan(c)
  BY <1>1, <1>2, <1>5 DEF Scan, Deliver, vars
<1>6. CASE CutPage(c)
  BY <1>2, <1>6 DEF CutPage
<1> QED
  BY <1>3, <1>4, <1>5, <1>6

\* A step of the inbox is one of Classification, or one that writes nothing and ends
\* no application.
LEMMA StepIs ==
  ASSUME IInv, [InboxNext]_allVars
  PROVE  \/ [Next]_vars
         \/ \E c \in Callers : AskPage(c) \/ ReadRules(c) \/ Scan(c) \/ CutPage(c)
BY DEF InboxNext, Classify, Next, Post, allVars

\* Pages are read while applications go on, and those are answered as before
\* (VerdictsAreCurrent).
THEOREM InboxVerdictsAreCurrent == InboxSpec => VerdictsAreCurrent
<1>1. ASSUME IInv, [InboxNext]_allVars
      PROVE  [Judged]_vars
  <2>1. CASE [Next]_vars
    BY <1>1, <2>1, NextJudged
  <2>2. ASSUME NEW d \in Callers, AskPage(d) \/ ReadRules(d) \/ Scan(d) \/ CutPage(d)
        PROVE  Judged
    <3> SUFFICES ASSUME NEW c \in Callers, req[c].op = "apply", answer[c] = "none",
                        answer'[c] # "none"
                 PROVE  FALSE
      BY DEF Judged
    <3>1. c = d
      BY <1>1, <2>2, PageStepIs
    <3>2. CASE AskPage(c)
      BY <1>1, <3>2 DEF AskPage, IInv, Shape
    <3>3. CASE ReadRules(c) \/ Scan(c) \/ CutPage(c)
      <4>1. req[c].op = "page"
        BY <1>1, <3>3, PageIs DEF ReadRules, Scan, CutPage
      <4> QED
        BY <4>1
    <3> QED
      BY <2>2, <3>1, <3>2, <3>3
  <2> QED
    BY <1>1, <2>1, <2>2, StepIs
<1>2. IInv /\ [InboxNext]_allVars => [Judged]_vars
  BY <1>1
<1> QED
  BY InboxInvariance, <1>2, PTL DEF InboxSpec, VerdictsAreCurrent, Judged

\* The inbox writes nothing: with it, too, a chain grows one revision at a time
\* (KeepsContract).
THEOREM InboxKeepsContract == InboxSpec => KeepsContract
<1>1. ASSUME IInv, [InboxNext]_allVars
      PROVE  ContractStep
  <2>1. ASSUME NEW c \in Callers, AskPage(c) \/ ReadRules(c) \/ Scan(c) \/ CutPage(c)
        PROVE  ContractStep
    BY <1>1, <2>1, PageStepIs, SameTables
  <2> QED
    BY <1>1, <2>1, StepIs, NextRefines
<1>2. IInv /\ [InboxNext]_allVars => [Contract!Next]_(Contract!vars)
  BY <1>1 DEF ContractStep, Contract!vars, Chains, Chain, Link, Depth
<1>3. InboxInit => Contract!Init
  BY InitRefines DEF InboxInit
<1> QED
  BY <1>2, <1>3, InboxInvariance, PTL DEF InboxSpec, KeepsContract, Contract!Spec

\* Only a scan answers a request that scans with a page.
LEMMA PageFromScan ==
  ASSUME IInv, [InboxNext]_allVars, NEW c \in Callers, pc[c] = "scan",
         answer'[c] \in {"page", "last"}
  PROVE  Scan(c)
<1>1. answer[c] = "none"
  BY PageIs
<1>2. ASSUME NEW d \in Callers, Ask(d) \/ Statement(d) \/ (req[d].op # "page" /\ Cut(d)),
             d = c
      PROVE  FALSE
  <2>1. req[c].op = "page"
    BY PageIs
  <2>2. Ask(c) \/ Statement(c)
    BY <1>2, <2>1
  <2> QED
    BY <2>2 DEF Ask, Statement, NextPair, Lookup, TakeRuleLock, LockMovement, Recheck,
                ReadCurrent, Evaluate, Insert, Origin, RuleKey, InsertRule, Update, Commit
<1>3. ASSUME NEW d \in Callers, Ask(d) \/ Statement(d) \/ Cut(d), d # c
      PROVE  FALSE
  BY <1>1, <1>3, AnswerStays
<1>4. ASSUME NEW d \in Callers, AskPage(d) \/ ReadRules(d) \/ Scan(d) \/ CutPage(d)
      PROVE  Scan(c)
  <2>1. d = c
    BY <1>1, <1>4, PageStepIs
  <2>2. CASE CutPage(c)
    <3>1. answer'[c] = "lost"
      BY <2>2, PageRefused DEF CutPage
    <3> QED
      BY <3>1
  <2>3. ~AskPage(c) /\ ~ReadRules(c)
    BY DEF AskPage, ReadRules
  <2> QED
    BY <1>4, <2>1, <2>2, <2>3
<1>5. CASE UNCHANGED vars
  BY <1>1, <1>5 DEF vars
<1> QED
  BY <1>2, <1>3, <1>4, <1>5 DEF InboxNext, Classify, Post, Done, allVars

\* Delivered with a position or without: a page or the last one.
LEMMA DeliverIs ==
  ASSUME IInv, NEW c \in Callers, pc[c] = "scan", NEW at, Deliver(c, Items(c), at)
  PROVE  answer'[c] = IF at = Start THEN "last" ELSE "page"
<1>1. Refuse(c, IF at = Start THEN "last" ELSE "page")
  BY DEF Deliver
<1> QED
  BY <1>1, PageRefused

\* However rules change and movements are posted and classified between its pages, a
\* walk is shown nothing twice, and at its end everything that fitted all the while
\* (InboxMissesNothing).
THEOREM InboxMissesNothingHolds == InboxSpec => InboxMissesNothing
<1> DEFINE whole ==
      \A c \in Callers :
        pc[c] = "scan" /\ answer'[c] \in {"page", "last"} =>
          /\ Items(c) \cap walk[c].shown = {}
          /\ answer'[c] = "last" => walk[c].steady \subseteq walk[c].shown \cup Items(c)
<1>1. ASSUME IInv, InboxInv, [InboxNext]_allVars
      PROVE  whole
  <2> SUFFICES ASSUME NEW c \in Callers, pc[c] = "scan", answer'[c] \in {"page", "last"}
               PROVE  /\ Items(c) \cap walk[c].shown = {}
                      /\ answer'[c] = "last" => AllCovered(c)
    BY DEF AllCovered
  <2>1. Scan(c)
    BY <1>1, PageFromScan
  <2>2. Items(c) \cap walk[c].shown = {}
    BY <1>1, NothingTwice
  <2>3. ASSUME answer'[c] = "last"
        PROVE  AllCovered(c)
    <3>1. ASSUME NEW at \in Nat \ {Start}, Deliver(c, Items(c), at)
          PROVE  FALSE
      BY <1>1, <2>3, <3>1, DeliverIs
    <3>2. ASSUME UNCHANGED vars
          PROVE  FALSE
      BY <1>1, <2>3, <3>2, PageIs DEF vars
    <3> QED
      BY <1>1, <2>1, <3>1, <3>2, ScanIs
  <2> QED
    BY <2>2, <2>3
<1>2. IInv /\ InboxInv /\ [InboxNext]_allVars => [whole]_allVars
  BY <1>1
<1> QED
  BY InboxInvariance, <1>2, PTL DEF InboxSpec, InboxMissesNothing
=============================================================================
