--------------------------- MODULE IngestStoreProofs ---------------------------
(***************************************************************************)
(* Theorems about IngestStore, for any processes and events, any number of *)
(* resends and any size of the idempotency cache.                          *)
(*                                                                         *)
(* None of the properties is inductive alone.  Each is strengthened by     *)
(* what a transaction carries between its unlocked reading and its commit: *)
(*   - AcceptedInv: a cached acceptance is stored, undone, or the one the  *)
(*     process is about to commit;                                         *)
(*   - OnceInv: a stored event is remembered or forgotten by its process,  *)
(*     so a transaction about it starts only if it is forgotten;           *)
(*   - LinkInv, ForkInv: every reading of the session is at a committed    *)
(*     row, and the current one while nobody else has written an action;   *)
(*   - QuietInv: who still works on a closed session found it running and  *)
(*     did not close it.                                                   *)
(***************************************************************************)
EXTENDS IngestStore, FiniteSetTheorems, SequenceTheorems, TLAPS

Busy(c) == pc[c] \in {"execute", "commit"}

Sessions == [status : {"none", "running", "closed"}, count : Nat, tail : Nat, decisions : Nat]

Types ==
    /\ session \in Sessions
    /\ rows \subseteq [id : Nat, event : Event, seq : Nat, prev : Nat]
    /\ IsFiniteSet(rows)
    /\ lock \in Client \cup {None}
    /\ pc \in [Client -> {"start", "select", "idle", "execute", "commit"}]
    /\ current \in [Client -> Event \cup {None}]
    /\ seen \in [Client -> Sessions]
    /\ cache \in [Client -> Seq([event : Event, response : {"accepted", "rejected"}])]
    /\ answer \in [Event -> {"new", "accepted", "rejected", "raised"}]
    /\ resends \in Nat
    /\ agents \subseteq Client
    /\ agentOf \in [Client -> Client \cup {None}]
    /\ undone \subseteq Event
    /\ forgotten \subseteq Event

(* A transaction is about an event of its own process, the holder of the     *)
(* row lock is at its commit, and it opens only a session there is none of.  *)
LockInv ==
    /\ \A c \in Client : Busy(c) => current[c] \in Event /\ ClientOf[current[c]] = c
    /\ \A c \in Client : pc[c] = "commit" => lock = c
    /\ \A c \in Client : pc[c] = "commit" /\ TypeOf[current[c]] = "open" => session.status = "none"

AcceptedInv ==
    /\ AcceptedOrUndone
    /\ \A c \in Client : \A i \in DOMAIN cache[c] :
          cache[c][i].response = "accepted" =>
              \/ Stored(cache[c][i].event)
              \/ cache[c][i].event \in undone
              \/ pc[c] = "commit" /\ current[c] = cache[c][i].event

OnceInv ==
    /\ OneRowPerEvent
    /\ \A r \in rows : Remembered(ClientOf[r.event], r.event) \/ r.event \in forgotten
    /\ \A c \in Client : pc[c] = "commit" => Remembered(c, current[c]) \/ current[c] \in forgotten
    /\ \A c \in Client : \A r \in rows : Busy(c) /\ r.event = current[c] => r.event \in forgotten

(* A session row s, read now or earlier, is at a committed action. *)
AtRow(s) ==
    \/ s.count = 0 /\ s.tail = 0
    \/ \E q \in Chained : q.id = s.tail /\ q.seq = s.count

(* Only c has written actions. *)
Alone(c) == \A r \in Chained : ClientOf[r.event] = c

LinkInv ==
    /\ AtRow(session)
    /\ \A c \in Client : AtRow(seen[c])
    /\ \A r \in Chained : IF r.seq = 1 THEN r.prev = 0
                          ELSE \E q \in Chained : q.id = r.prev /\ q.seq = r.seq - 1

ForkInv ==
    \A c \in Client : Alone(c) =>
        /\ \A r, q \in Chained : r.seq = q.seq => r = q
        /\ \A r \in Chained : r.seq <= session.count
        /\ Busy(c) => seen[c].count = session.count

ClosedByOther(c) == \E k \in Event : TypeOf[k] = "close" /\ ClientOf[k] # c

QuietInv ==
    \A c \in Client :
        Busy(c) /\ TypeOf[current[c]] # "open" =>
            /\ seen[c].status = "running"
            /\ session.status = "closed" => ClosedByOther(c)

AgentInv ==
    /\ \A a, b \in agents : a = b
    /\ \A c \in Client : agentOf[c] \in agents \cup {None}

IInv ==
    /\ Types
    /\ LockInv
    /\ AcceptedInv
    /\ OnceInv
    /\ LinkInv
    /\ ForkInv
    /\ QuietInv
    /\ AgentInv

-------------------------------------------------------------------------------
(* The cache *)

CacheEntry == [event : Event, response : {"accepted", "rejected"}]

(* Removing one position keeps every other element, in order. *)
LEMMA RemoveAtKeeps ==
    ASSUME NEW S, NEW q \in Seq(S), NEW i \in DOMAIN q
    PROVE  /\ RemoveAt(q, i) \in Seq(S)
           /\ Len(RemoveAt(q, i)) = Len(q) - 1
           /\ \A j \in DOMAIN RemoveAt(q, i) :
                 RemoveAt(q, i)[j] = IF j < i THEN q[j] ELSE q[j + 1]
<1> DEFINE a == SubSeq(q, 1, i - 1)
           b == SubSeq(q, i + 1, Len(q))
<1>1. i \in 1 .. Len(q) /\ Len(q) \in Nat
  OBVIOUS
<1>2. /\ a \in Seq(S) /\ Len(a) = i - 1
      /\ \A j \in 1 .. i - 1 : a[j] = q[j]
  BY <1>1
<1>3. /\ b \in Seq(S) /\ Len(b) = Len(q) - i
      /\ \A j \in 1 .. Len(q) - i : b[j] = q[i + j]
  BY <1>1
<1> HIDE DEF a, b
<1> DEFINE ab == a \o b
<1>4. /\ ab \in Seq(S)
      /\ Len(ab) = Len(a) + Len(b)
      /\ \A j \in 1 .. Len(a) + Len(b) : ab[j] = IF j <= Len(a) THEN a[j] ELSE b[j - Len(a)]
  BY <1>2, <1>3, ConcatProperties
<1>5. RemoveAt(q, i) = ab
  BY DEF RemoveAt, a, b
<1> HIDE DEF ab
<1>6. /\ Len(ab) = Len(q) - 1
      /\ \A j \in 1 .. Len(q) - 1 : ab[j] = IF j <= i - 1 THEN a[j] ELSE b[j - (i - 1)]
  <2>1. Len(a) + Len(b) = Len(q) - 1
    BY <1>1, <1>2, <1>3
  <2> QED
    BY <1>2, <1>4, <2>1
<1>7. ASSUME NEW j \in 1 .. Len(q) - 1
      PROVE  ab[j] = IF j < i THEN q[j] ELSE q[j + 1]
  <2>1. CASE j < i
    BY <1>1, <1>2, <1>6, <2>1
  <2>2. CASE j >= i
    <3>1. j - (i - 1) \in 1 .. Len(q) - i /\ i + (j - (i - 1)) = j + 1
      BY <1>1, <2>2
    <3>2. ab[j] = b[j - (i - 1)]
      BY <1>1, <1>6, <2>2
    <3>3. b[j - (i - 1)] = q[j + 1]
      BY <1>3, <3>1
    <3> QED
      BY <1>1, <2>2, <3>2, <3>3
  <2> QED
    BY <1>1, <2>1, <2>2
<1>8. DOMAIN ab = 1 .. Len(q) - 1
  BY <1>1, <1>4, <1>6
<1> QED
  BY <1>4, <1>5, <1>6, <1>7, <1>8

(* What removing a position does to the elements. *)
LEMMA RemoveAtElements ==
    ASSUME NEW S, NEW q \in Seq(S), NEW i \in DOMAIN q
    PROVE  /\ \A j \in DOMAIN RemoveAt(q, i) : \E k \in DOMAIN q : RemoveAt(q, i)[j] = q[k]
           /\ \A k \in DOMAIN q : k # i => \E j \in DOMAIN RemoveAt(q, i) : RemoveAt(q, i)[j] = q[k]
<1> DEFINE r == RemoveAt(q, i)
<1>1. /\ r \in Seq(S)
      /\ Len(r) = Len(q) - 1
      /\ \A j \in DOMAIN r : r[j] = IF j < i THEN q[j] ELSE q[j + 1]
  BY RemoveAtKeeps
<1> HIDE DEF r
<1>2. i \in 1 .. Len(q) /\ Len(q) \in Nat /\ DOMAIN q = 1 .. Len(q) /\ DOMAIN r = 1 .. Len(q) - 1
  BY <1>1
<1>3. ASSUME NEW j \in DOMAIN r PROVE \E k \in DOMAIN q : r[j] = q[k]
  BY <1>1, <1>2
<1>4. ASSUME NEW k \in DOMAIN q, k # i PROVE \E j \in DOMAIN r : r[j] = q[k]
  <2>1. CASE k < i
    <3>1. k \in DOMAIN r /\ r[k] = q[k]
      BY <1>1, <1>2, <2>1
    <3> QED
      BY <3>1
  <2>2. CASE k > i
    <3>1. k - 1 \in DOMAIN r /\ r[k - 1] = q[k]
      BY <1>1, <1>2, <2>2
    <3> QED
      BY <3>1
  <2> QED
    BY <1>2, <1>4, <2>1, <2>2
<1> QED
  BY <1>3, <1>4 DEF r

(* What any step does to the caches: no process forgets an event without it  *)
(* being in forgotten, and an entry is old or the one of the answer.         *)
CacheStep(c, e, response) ==
    /\ cache' \in [Client -> Seq(CacheEntry)]
    /\ forgotten \subseteq forgotten' /\ forgotten' \subseteq Event
    /\ \A d \in Client, x \in Event : Remembered(d, x) => Remembered(d, x)' \/ x \in forgotten'
    /\ \A d \in Client : \A i \in DOMAIN cache'[d] :
          \/ \E j \in DOMAIN cache[d] : cache'[d][i] = cache[d][j]
          \/ d = c /\ cache'[d][i] = [event |-> e, response |-> response]

(* IdempotencyStore.set keeps the entry it makes. *)
LEMMA RememberStep ==
    ASSUME Types, NEW c \in Client, NEW e \in Event, NEW response \in {"accepted", "rejected"},
           Remember(c, e, response)
    PROVE  CacheStep(c, e, response) /\ Remembered(c, e)'
<1> DEFINE old == cache[c]
           k == CHOOSE i \in Entry(c, e) : TRUE
           others == IF Remembered(c, e) THEN RemoveAt(old, k) ELSE old
           new == [event |-> e, response |-> response]
           q == Append(others, new)
           from == IF Overflow(q) > 0 THEN Overflow(q) + 1 ELSE 1
           kept == SubSeq(q, from, Len(q))
<1>1. old \in Seq(CacheEntry) /\ new \in CacheEntry
  BY DEF Types, CacheEntry
<1>2. Remembered(c, e) => k \in DOMAIN old /\ old[k].event = e
  BY DEF Remembered, Entry
<1>3. /\ others \in Seq(CacheEntry)
      /\ \A i \in DOMAIN others : \E j \in DOMAIN old : others[i] = old[j]
      /\ \A j \in DOMAIN old : old[j].event # e => \E i \in DOMAIN others : others[i] = old[j]
  <2>1. CASE Remembered(c, e)
    <3>1. k \in DOMAIN old /\ old[k].event = e /\ others = RemoveAt(old, k)
      BY <1>2, <2>1
    <3> HIDE DEF k, others, old
    <3>2. RemoveAt(old, k) \in Seq(CacheEntry)
      BY <1>1, <3>1, RemoveAtKeeps
    <3>3. /\ \A i \in DOMAIN RemoveAt(old, k) : \E j \in DOMAIN old : RemoveAt(old, k)[i] = old[j]
          /\ \A j \in DOMAIN old : j # k => \E i \in DOMAIN RemoveAt(old, k) : RemoveAt(old, k)[i] = old[j]
      BY <1>1, <3>1, RemoveAtElements
    <3> QED
      BY <3>1, <3>2, <3>3
  <2>2. CASE ~Remembered(c, e)
    BY <1>1, <2>2
  <2> QED
    BY <2>1, <2>2
<1>4. /\ cache' = [cache EXCEPT ![c] = kept]
      /\ forgotten' = forgotten \cup ({x.event : x \in ToSet(q)} \ {x.event : x \in ToSet(kept)})
  BY DEF Remember
<1> HIDE DEF others, old, k, new
<1>5. /\ q \in Seq(CacheEntry) /\ Len(q) = Len(others) + 1 /\ Len(others) \in Nat
      /\ q[Len(q)] = new
      /\ \A i \in DOMAIN others : q[i] = others[i]
      /\ \A i \in DOMAIN q : i = Len(q) \/ i \in DOMAIN others
  BY <1>1, <1>3
<1> HIDE DEF q
<1>6. from \in 1 .. Len(q)
  BY <1>5, IngestAssumption DEF Overflow
<1> HIDE DEF from
<1>7. /\ kept \in Seq(CacheEntry) /\ Len(kept) = Len(q) - from + 1
      /\ \A i \in 1 .. Len(q) - from + 1 : kept[i] = q[from + i - 1]
  BY <1>5, <1>6
<1> HIDE DEF kept
<1>8. Len(kept) \in DOMAIN kept /\ kept[Len(kept)] = new
  BY <1>5, <1>6, <1>7
<1>9. \A i \in DOMAIN kept : kept[i] = new \/ \E j \in DOMAIN old : kept[i] = old[j]
  <2>1. ASSUME NEW i \in DOMAIN kept
        PROVE  kept[i] = new \/ \E j \in DOMAIN old : kept[i] = old[j]
    <3>1. from + i - 1 \in DOMAIN q /\ kept[i] = q[from + i - 1]
      BY <1>5, <1>6, <1>7
    <3> QED
      BY <1>3, <1>5, <3>1
  <2> QED
    BY <2>1
<1>10. cache'[c] = kept /\ \A d \in Client : d # c => cache'[d] = cache[d]
  BY <1>4 DEF Types
<1>11. Remembered(c, e)'
  BY <1>8, <1>10 DEF Remembered, Entry, new
<1>12. \A x \in Event : Remembered(c, x) => Remembered(c, x)' \/ x \in forgotten'
  <2>1. ASSUME NEW x \in Event, Remembered(c, x)
        PROVE  Remembered(c, x)' \/ x \in forgotten'
    <3>1. CASE x = e
      BY <1>11, <3>1
    <3>2. CASE x # e
      <4>1. PICK j \in DOMAIN old : old[j].event = x
        BY <2>1 DEF Remembered, Entry, old
      <4>2. PICK i \in DOMAIN others : others[i] = old[j]
        BY <1>3, <3>2, <4>1
      <4>3. i \in DOMAIN q /\ q[i].event = x
        BY <1>3, <1>5, <4>1, <4>2
      <4>4. q[i] \in ToSet(q)
        BY <4>3 DEF ToSet
      <4>5. x \in {y.event : y \in ToSet(q)}
        BY <4>3, <4>4
      <4>6. CASE x \in {y.event : y \in ToSet(kept)}
        <5>1. PICK m \in DOMAIN kept : kept[m].event = x
          BY <4>6 DEF ToSet
        <5> QED
          BY <5>1, <1>10 DEF Remembered, Entry
      <4>7. CASE x \notin {y.event : y \in ToSet(kept)}
        BY <1>4, <4>5, <4>7
      <4> QED
        BY <4>6, <4>7
    <3> QED
      BY <3>1, <3>2
  <2> QED
    BY <2>1
<1>13. cache' \in [Client -> Seq(CacheEntry)]
  BY <1>4, <1>7 DEF Types, CacheEntry
<1>14. forgotten \subseteq forgotten' /\ forgotten' \subseteq Event
  <2>1. \A i \in DOMAIN q : q[i].event \in Event
    <3>1. \A i \in DOMAIN q : q[i] \in CacheEntry
      BY <1>5
    <3> QED
      BY <3>1 DEF CacheEntry
  <2>2. \A x \in ToSet(q) : x.event \in Event
    BY <2>1 DEF ToSet
  <2>3. forgotten \subseteq Event
    BY DEF Types
  <2> QED
    BY <1>4, <2>2, <2>3
<1>15. \A d \in Client, x \in Event : Remembered(d, x) => Remembered(d, x)' \/ x \in forgotten'
  <2>1. \A d \in Client, x \in Event : d # c /\ Remembered(d, x) => Remembered(d, x)'
    BY <1>10 DEF Remembered, Entry
  <2> QED
    BY <1>12, <2>1
<1>16. \A d \in Client : \A i \in DOMAIN cache'[d] :
          \/ \E j \in DOMAIN cache[d] : cache'[d][i] = cache[d][j]
          \/ d = c /\ cache'[d][i] = [event |-> e, response |-> response]
  BY <1>9, <1>10 DEF old, new
<1> QED
  BY <1>11, <1>13, <1>14, <1>15, <1>16 DEF CacheStep

(* _evict_expired_locked forgets only what it drops. *)
LEMMA ExpireStep ==
    ASSUME Types, NEW c \in Client, Expire(c), NEW e, NEW response
    PROVE  /\ CacheStep(c, e, response)
           /\ \A d \in Client : \A j \in DOMAIN cache'[d] :
                 \E k \in DOMAIN cache[d] : cache'[d][j] = cache[d][k]
<1>1. PICK i \in DOMAIN cache[c] :
         /\ cache' = [cache EXCEPT ![c] = RemoveAt(@, i)]
         /\ forgotten' = forgotten \cup {cache[c][i].event}
  BY DEF Expire
<1> DEFINE old == cache[c]
           new == RemoveAt(old, i)
<1>2. old \in Seq(CacheEntry) /\ i \in DOMAIN old
  BY DEF Types, CacheEntry
<1>3. cache'[c] = new /\ \A d \in Client : d # c => cache'[d] = cache[d]
  BY <1>1 DEF Types
<1>4. new \in Seq(CacheEntry)
  BY <1>2, RemoveAtKeeps
<1>5. /\ \A j \in DOMAIN new : \E k \in DOMAIN old : new[j] = old[k]
      /\ \A k \in DOMAIN old : k # i => \E j \in DOMAIN new : new[j] = old[k]
  BY <1>2, RemoveAtElements
<1>6. old[i].event \in Event
  <2>1. old[i] \in CacheEntry
    BY <1>2
  <2> QED
    BY <2>1 DEF CacheEntry
<1>7. cache' \in [Client -> Seq(CacheEntry)]
  <2>1. cache' = [cache EXCEPT ![c] = new]
    BY <1>1
  <2> HIDE DEF new
  <2> QED
    BY <1>4, <2>1 DEF Types, CacheEntry
<1>8. forgotten \subseteq forgotten' /\ forgotten' \subseteq Event
  BY <1>1, <1>6 DEF Types
<1>9. ASSUME NEW d \in Client, NEW x \in Event, Remembered(d, x)
      PROVE  Remembered(d, x)' \/ x \in forgotten'
  <2>1. CASE d # c
    BY <1>3, <1>9, <2>1 DEF Remembered, Entry
  <2>2. CASE d = c
    <3>1. PICK k \in DOMAIN old : old[k].event = x
      BY <1>9, <2>2 DEF Remembered, Entry
    <3>2. CASE k = i
      BY <1>1, <3>1, <3>2
    <3>3. CASE k # i
      <4>1. PICK j \in DOMAIN new : new[j] = old[k]
        BY <1>5, <3>3
      <4> QED
        BY <1>3, <2>2, <3>1, <4>1 DEF Remembered, Entry
    <3> QED
      BY <3>2, <3>3
  <2> QED
    BY <2>1, <2>2
<1>10. \A d \in Client : \A j \in DOMAIN cache'[d] : \E k \in DOMAIN cache[d] : cache'[d][j] = cache[d][k]
  BY <1>3, <1>5
<1> QED
  BY <1>7, <1>8, <1>9, <1>10 DEF CacheStep

-------------------------------------------------------------------------------
(* A commit that takes effect *)

(* What Commit and CommitUnknown have in common. *)
Applies(c) ==
    /\ pc[c] = "commit"
    /\ Apply(c)
    /\ lock' = None
    /\ pc' = [pc EXCEPT ![c] = "idle"]
    /\ current' = [current EXCEPT ![c] = None]
    /\ seen' = [seen EXCEPT ![c] = NoSession]
    /\ \E a \in {"accepted", "raised"} : answer' = [answer EXCEPT ![current[c]] = a]
    /\ UNCHANGED <<resends, cache, agentVars, undone, forgotten>>

LEMMA CommitApplies ==
    ASSUME NEW c \in Client, Commit(c) \/ CommitUnknown(c)
    PROVE  Applies(c)
BY DEF Commit, CommitUnknown, Raise, Applies

NextRow(c) ==
    [id |-> Cardinality(rows) + 1, event |-> current[c],
     seq |-> seen[c].count + 1, prev |-> seen[c].tail]

DecisionRow(c) ==
    [id |-> Cardinality(rows) + 1, event |-> current[c], seq |-> 0, prev |-> 0]

(* The four transactions. *)
LEMMA ApplyCases ==
    ASSUME Types, LockInv, NEW c \in Client, pc[c] = "commit", Apply(c)
    PROVE  \/ /\ TypeOf[current[c]] = "open"
              /\ session' = [session EXCEPT !.status = "running"]
              /\ rows' = rows
           \/ /\ TypeOf[current[c]] = "action"
              /\ session' = [session EXCEPT !.count = seen[c].count + 1, !.tail = Cardinality(rows) + 1]
              /\ rows' = rows \cup {NextRow(c)}
           \/ /\ TypeOf[current[c]] = "decision"
              /\ session' = [session EXCEPT !.decisions = seen[c].decisions + 1]
              /\ rows' = rows \cup {DecisionRow(c)}
           \/ /\ TypeOf[current[c]] = "close"
              /\ session' = [session EXCEPT !.status = "closed"]
              /\ rows' = rows
<1>1. current[c] \in Event
  BY DEF LockInv, Busy
<1>2. TypeOf[current[c]] \in {"open", "action", "decision", "close"}
  BY <1>1, IngestAssumption
<1>3. CASE TypeOf[current[c]] = "open"
  BY <1>3 DEF Apply, Written, Inserted
<1>4. CASE TypeOf[current[c]] = "action"
  BY <1>4 DEF Apply, Written, Inserted, NextRow
<1>5. CASE TypeOf[current[c]] = "decision"
  BY <1>5 DEF Apply, Written, Inserted, DecisionRow
<1>6. CASE TypeOf[current[c]] = "close"
  BY <1>6 DEF Apply, Written, Inserted
<1> QED
  BY <1>2, <1>3, <1>4, <1>5, <1>6

(* The columns it sets. *)
LEMMA StatusUpdate ==
    ASSUME NEW s \in Sessions, NEW st \in {"running", "closed"}
    PROVE  /\ [s EXCEPT !.status = st] \in Sessions
           /\ [s EXCEPT !.status = st].status = st
           /\ [s EXCEPT !.status = st].count = s.count
           /\ [s EXCEPT !.status = st].tail = s.tail
BY DEF Sessions

LEMMA DecisionsUpdate ==
    ASSUME NEW s \in Sessions, NEW n \in Nat
    PROVE  /\ [s EXCEPT !.decisions = n] \in Sessions
           /\ [s EXCEPT !.decisions = n].status = s.status
           /\ [s EXCEPT !.decisions = n].count = s.count
           /\ [s EXCEPT !.decisions = n].tail = s.tail
BY DEF Sessions

(* What they do to the session's columns. *)
LEMMA SessionApplied ==
    ASSUME Types, LockInv, NEW c \in Client, pc[c] = "commit", Apply(c)
    PROVE  /\ session' \in Sessions
           /\ IF TypeOf[current[c]] = "action"
              THEN session'.count = seen[c].count + 1 /\ session'.tail = Cardinality(rows) + 1
              ELSE session'.count = session.count /\ session'.tail = session.tail
           /\ CASE TypeOf[current[c]] = "open"  -> session'.status = "running"
                [] TypeOf[current[c]] = "close" -> session'.status = "closed"
                [] OTHER                        -> session'.status = session.status
<1> DEFINE s == session
           n == seen[c].count + 1
           m == Cardinality(rows) + 1
           k == seen[c].decisions + 1
           ty == TypeOf[current[c]]
<1>1. s \in Sessions /\ n \in Nat /\ m \in Nat /\ k \in Nat
  <2>1. Cardinality(rows) \in Nat
    BY FS_CardinalityType DEF Types
  <2>2. seen[c] \in Sessions
    BY DEF Types
  <2> QED
    BY <2>1, <2>2 DEF Types, Sessions
<1>2. \/ ty = "open" /\ session' = [s EXCEPT !.status = "running"]
      \/ ty = "action" /\ session' = [s EXCEPT !.count = n, !.tail = m]
      \/ ty = "decision" /\ session' = [s EXCEPT !.decisions = k]
      \/ ty = "close" /\ session' = [s EXCEPT !.status = "closed"]
  BY ApplyCases
<1>3. SUFFICES /\ session' \in Sessions
               /\ IF ty = "action" THEN session'.count = n /\ session'.tail = m
                                   ELSE session'.count = s.count /\ session'.tail = s.tail
               /\ CASE ty = "open"  -> session'.status = "running"
                    [] ty = "close" -> session'.status = "closed"
                    [] OTHER        -> session'.status = s.status
  OBVIOUS
<1> HIDE DEF s, n, m, k, ty
<1>4. CASE ty = "open" /\ session' = [s EXCEPT !.status = "running"]
  BY <1>1, <1>4, StatusUpdate
<1>5. CASE ty = "action" /\ session' = [s EXCEPT !.count = n, !.tail = m]
  <2> DEFINE new == [s EXCEPT !.count = n, !.tail = m]
  <2>1. new \in Sessions /\ new.status = s.status /\ new.count = n /\ new.tail = m
    BY <1>1 DEF Sessions
  <2> HIDE DEF new
  <2>2. session' = new
    BY <1>5 DEF new
  <2> QED
    BY <1>5, <2>1, <2>2
<1>6. CASE ty = "decision" /\ session' = [s EXCEPT !.decisions = k]
  BY <1>1, <1>6, DecisionsUpdate
<1>7. CASE ty = "close" /\ session' = [s EXCEPT !.status = "closed"]
  BY <1>1, <1>7, StatusUpdate
<1> QED
  BY <1>2, <1>4, <1>5, <1>6, <1>7

(* What every one of them keeps. *)
LEMMA ApplyKeeps ==
    ASSUME Types, LockInv, NEW c \in Client, pc[c] = "commit", Apply(c)
    PROVE  /\ session' \in Sessions
           /\ rows' \subseteq [id : Nat, event : Event, seq : Nat, prev : Nat]
           /\ IsFiniteSet(rows')
           /\ rows \subseteq rows'
           /\ \A r \in rows' : r \in rows \/ r.event = current[c]
           /\ session.status # "none" => session'.status # "none"
           /\ session.status = "closed" => session'.status = "closed"
<1>1. /\ session \in Sessions /\ seen[c] \in Sessions /\ current[c] \in Event
      /\ Cardinality(rows) \in Nat
  <2>1. Cardinality(rows) \in Nat
    BY FS_CardinalityType DEF Types
  <2> QED
    BY <2>1 DEF Types, LockInv, Busy
<1>2. TypeOf[current[c]] = "open" => session.status = "none"
  BY DEF LockInv
<1>3. /\ session' \in Sessions
      /\ session.status # "none" => session'.status # "none"
      /\ session.status = "closed" => session'.status = "closed"
  BY <1>2, SessionApplied
<1>4. CASE rows' = rows
  BY <1>3, <1>4 DEF Types
<1>5. CASE rows' # rows
  <2>1. PICK r \in {NextRow(c), DecisionRow(c)} : rows' = rows \cup {r}
    BY <1>5, ApplyCases
  <2>2. r \in [id : Nat, event : Event, seq : Nat, prev : Nat] /\ r.event = current[c]
    BY <1>1 DEF NextRow, DecisionRow, Sessions
  <2>3. IsFiniteSet(rows \cup {r})
    BY FS_AddElement DEF Types
  <2>4. /\ rows' \subseteq [id : Nat, event : Event, seq : Nat, prev : Nat]
        /\ rows \subseteq rows'
        /\ \A x \in rows' : x \in rows \/ x.event = current[c]
    BY <2>1, <2>2 DEF Types
  <2> QED
    BY <1>3, <2>1, <2>3, <2>4
<1> QED
  BY <1>4, <1>5

-------------------------------------------------------------------------------
(* Types and the lock *)

LEMMA InitIInv == ASSUME Init PROVE IInv
<1>1. NoSession \in Sessions /\ NoSession.count = 0 /\ NoSession.tail = 0 /\ NoSession.status = "none"
  BY DEF NoSession, Sessions
<1>2. Types
  <2>1. IsFiniteSet(rows) /\ rows = {}
    BY FS_EmptySet DEF Init
  <2>2. cache \in [Client -> Seq([event : Event, response : {"accepted", "rejected"}])]
    BY DEF Init
  <2> QED
    BY <1>1, <2>1, <2>2 DEF Init, Types
<1>3. \A c \in Client : ~Busy(c) /\ pc[c] # "commit"
  BY DEF Init, Busy
<1>4. LockInv /\ QuietInv
  BY <1>3 DEF LockInv, QuietInv
<1>5. AcceptedInv
  BY DEF Init, AcceptedInv, AcceptedOrUndone
<1>6. OnceInv
  BY <1>3 DEF Init, OnceInv, OneRowPerEvent
<1>7. LinkInv
  BY <1>1 DEF Init, LinkInv, AtRow, Chained
<1>8. ForkInv
  BY <1>3 DEF Init, ForkInv, Chained
<1>9. AgentInv
  BY DEF Init, AgentInv
<1> QED
  BY <1>2, <1>4, <1>5, <1>6, <1>7, <1>8, <1>9 DEF IInv

LEMMA NextType == ASSUME IInv, [Next]_vars PROVE Types'
<1> USE DEF IInv
<1>1. CASE UNCHANGED vars
  BY <1>1 DEF vars, callVars, agentVars, Types
<1>2. ASSUME NEW c \in Client, InsertAgent(c) PROVE Types'
  BY <1>2 DEF InsertAgent, Types
<1>3. ASSUME NEW c \in Client, SelectAgent(c) PROVE Types'
  BY <1>3 DEF SelectAgent, Types
<1>4. ASSUME NEW c \in Client, Execute(c) PROVE Types'
  <2>1. current[c] \in Event
    BY <1>4 DEF Execute, LockInv, Busy
  <2>2. CacheStep(c, current[c], "accepted")
    BY <1>4, <2>1, RememberStep DEF Execute
  <2> QED
    BY <1>4, <2>2 DEF Execute, Types, CacheStep, CacheEntry, agentVars
<1>5. ASSUME NEW c \in Client, ExecuteFails(c) PROVE Types'
  <2>1. current[c] \in Event
    BY <1>5 DEF ExecuteFails, LockInv, Busy
  <2>2. NoSession \in Sessions
    BY DEF NoSession, Sessions
  <2> QED
    BY <1>5, <2>1, <2>2 DEF ExecuteFails, Raise, Types, agentVars
<1>6. ASSUME NEW c \in Client, Commit(c) \/ CommitUnknown(c) PROVE Types'
  <2>1. Applies(c) /\ current[c] \in Event
    BY <1>6, CommitApplies DEF Applies, LockInv, Busy
  <2>2. /\ session' \in Sessions
        /\ rows' \subseteq [id : Nat, event : Event, seq : Nat, prev : Nat]
        /\ IsFiniteSet(rows')
    BY <2>1, ApplyKeeps DEF Applies
  <2>3. NoSession \in Sessions
    BY DEF NoSession, Sessions
  <2>4. answer' \in [Event -> {"new", "accepted", "rejected", "raised"}]
    BY <2>1 DEF Applies, Types
  <2> QED
    BY <2>1, <2>2, <2>3, <2>4 DEF Applies, Types, agentVars
<1>7. ASSUME NEW c \in Client, CommitFails(c) PROVE Types'
  <2>1. current[c] \in Event
    BY <1>7 DEF CommitFails, LockInv, Busy
  <2>2. NoSession \in Sessions
    BY DEF NoSession, Sessions
  <2> QED
    BY <1>7, <2>1, <2>2 DEF CommitFails, Raise, Types, agentVars
<1>8. ASSUME NEW c \in Client, Expire(c) PROVE Types'
  <2>1. CacheStep(c, None, None)
    BY <1>8, ExpireStep
  <2> QED
    BY <1>8, <2>1 DEF Expire, Types, CacheStep, CacheEntry, callVars, agentVars
<1>9. ASSUME NEW c \in Client, NEW e \in Event, AnswerCached(c, e) PROVE Types'
  <2>1. PICK i \in DOMAIN cache[c] : Response(c, e) = cache[c][i].response
    BY <1>9 DEF AnswerCached, Remembered, Response, Entry
  <2>2. cache[c] \in Seq(CacheEntry)
    BY DEF Types, CacheEntry
  <2>3. cache[c][i] \in CacheEntry
    BY <2>2
  <2>4. Response(c, e) \in {"accepted", "rejected"}
    BY <2>1, <2>3 DEF CacheEntry
  <2> QED
    BY <1>9, <2>4 DEF AnswerCached, Sends, Types, agentVars
<1>10. ASSUME NEW c \in Client, NEW e \in Event, Refuse(c, e) PROVE Types'
  <2>1. CacheStep(c, e, "rejected")
    BY <1>10, RememberStep DEF Refuse
  <2> QED
    BY <1>10, <2>1 DEF Refuse, Sends, Types, CacheStep, CacheEntry, agentVars
<1>11. ASSUME NEW c \in Client, NEW e \in Event, ReadSession(c, e) PROVE Types'
  <2>1. resends' \in Nat
    BY <1>11 DEF ReadSession, Sends, Types
  <2>2. /\ seen' \in [Client -> Sessions]
        /\ pc' \in [Client -> {"start", "select", "idle", "execute", "commit"}]
        /\ current' \in [Client -> Event \cup {None}]
    BY <1>11 DEF ReadSession, Types
  <2> QED
    BY <1>11, <2>1, <2>2 DEF ReadSession, Types, agentVars
<1> QED
  BY <1>1, <1>2, <1>3, <1>4, <1>5, <1>6, <1>7, <1>8, <1>9, <1>10, <1>11 DEF Next

LEMMA NextLock == ASSUME IInv, [Next]_vars PROVE LockInv'
<1> USE DEF IInv
<1>1. CASE UNCHANGED vars
  BY <1>1 DEF vars, callVars, LockInv, Busy
<1>2. ASSUME NEW c \in Client, InsertAgent(c) PROVE LockInv'
  BY <1>2 DEF InsertAgent, LockInv, Busy, Types
<1>3. ASSUME NEW c \in Client, SelectAgent(c) PROVE LockInv'
  BY <1>3 DEF SelectAgent, LockInv, Busy, Types
<1>4. ASSUME NEW c \in Client, Execute(c) PROVE LockInv'
  <2>1. \A d \in Client : pc[d] # "commit"
    BY <1>4, IngestAssumption DEF Execute, LockInv
  <2> QED
    BY <1>4, <2>1 DEF Execute, LockInv, Busy, Types
<1>5. ASSUME NEW c \in Client, ExecuteFails(c) PROVE LockInv'
  BY <1>5 DEF ExecuteFails, Raise, LockInv, Busy, Types
<1>6. ASSUME NEW c \in Client, Commit(c) \/ CommitUnknown(c) PROVE LockInv'
  <2>1. Applies(c)
    BY <1>6, CommitApplies
  <2>2. \A d \in Client : pc[d] = "commit" => d = c
    BY <2>1 DEF Applies, LockInv
  <2> QED
    BY <2>1, <2>2 DEF Applies, LockInv, Busy, Types
<1>7. ASSUME NEW c \in Client, CommitFails(c) PROVE LockInv'
  <2>1. \A d \in Client : pc[d] = "commit" => d = c
    BY <1>7 DEF CommitFails, LockInv
  <2> QED
    BY <1>7, <2>1 DEF CommitFails, Raise, LockInv, Busy, Types
<1>8. ASSUME NEW c \in Client, Expire(c) PROVE LockInv'
  BY <1>8 DEF Expire, callVars, LockInv, Busy
<1>9. ASSUME NEW c \in Client, NEW e \in Event, AnswerCached(c, e) PROVE LockInv'
  BY <1>9 DEF AnswerCached, LockInv, Busy
<1>10. ASSUME NEW c \in Client, NEW e \in Event, Refuse(c, e) PROVE LockInv'
  BY <1>10 DEF Refuse, LockInv, Busy
<1>11. ASSUME NEW c \in Client, NEW e \in Event, ReadSession(c, e) PROVE LockInv'
  BY <1>11 DEF ReadSession, Sends, LockInv, Busy, Types
<1> QED
  BY <1>1, <1>2, <1>3, <1>4, <1>5, <1>6, <1>7, <1>8, <1>9, <1>10, <1>11 DEF Next

-------------------------------------------------------------------------------
(* An accepted event is stored or undone *)

(* A commit stores its event and unstores none. *)
LEMMA ApplyStores ==
    ASSUME Types, LockInv, NEW c \in Client, pc[c] = "commit", Apply(c)
    PROVE  \A e \in Event : Stored(e) \/ e = current[c] => Stored(e)'
<1>1. ASSUME NEW e \in Event, Stored(e) PROVE Stored(e)'
  <2>1. /\ rows \subseteq rows'
        /\ session.status # "none" => session'.status # "none"
        /\ session.status = "closed" => session'.status = "closed"
    BY ApplyKeeps
  <2> QED
    BY <1>1, <2>1 DEF Stored
<1>2. ASSUME NEW e \in Event, e = current[c] PROVE Stored(e)'
  <2>1. CASE TypeOf[e] \in {"open", "close"}
    BY <1>2, <2>1, SessionApplied DEF Stored
  <2>2. CASE TypeOf[e] \notin {"open", "close"}
    <3>1. PICK r \in {NextRow(c), DecisionRow(c)} : r \in rows'
      BY <1>2, <2>2, ApplyCases
    <3>2. r.event = e
      BY <1>2 DEF NextRow, DecisionRow
    <3> QED
      BY <2>2, <3>1, <3>2 DEF Stored
  <2> QED
    BY <2>1, <2>2
<1> QED
  BY <1>1, <1>2

(* It is enough that an acceptance, answered or cached, is an earlier one,   *)
(* a stored or undone event's, or the one about to be committed.             *)
LEMMA AcceptedStep ==
    ASSUME Types, AcceptedInv, Types',
           \A e \in Event : Stored(e) => Stored(e)',
           undone \subseteq undone',
           \A e \in Event : answer'[e] = "accepted" =>
               \/ answer[e] = "accepted"
               \/ Stored(e)' \/ e \in undone',
           \A d \in Client : \A i \in DOMAIN cache'[d] : cache'[d][i].response = "accepted" =>
               \/ \E j \in DOMAIN cache[d] : cache'[d][i] = cache[d][j]
               \/ pc'[d] = "commit" /\ current'[d] = cache'[d][i].event,
           \A d \in Client : pc[d] = "commit" =>
               \/ pc'[d] = "commit" /\ current'[d] = current[d]
               \/ \A e \in Event : e = current[d] => Stored(e)' \/ e \in undone'
    PROVE  AcceptedInv'
<1>1. AcceptedOrUndone'
  BY DEF AcceptedInv, AcceptedOrUndone
<1>2. ASSUME NEW d \in Client, NEW i \in DOMAIN cache'[d], cache'[d][i].response = "accepted",
             ~(pc'[d] = "commit" /\ current'[d] = cache'[d][i].event)
      PROVE  Stored(cache[d][i].event)' \/ cache'[d][i].event \in undone'
  <2>1. PICK j \in DOMAIN cache[d] : cache'[d][i] = cache[d][j]
    BY <1>2
  <2>2. cache'[d][i].event \in Event
    <3>1. cache'[d] \in Seq(CacheEntry)
      BY DEF Types, CacheEntry
    <3>2. cache'[d][i] \in CacheEntry
      BY <3>1
    <3> QED
      BY <3>2 DEF CacheEntry
  <2>3. PICK e \in Event : e = cache'[d][i].event /\ e = cache[d][j].event
    BY <2>1, <2>2
  <2>4. cache[d][j].response = "accepted"
    BY <1>2, <2>1
  <2>5. \/ Stored(cache[d][j].event)
        \/ cache[d][j].event \in undone
        \/ pc[d] = "commit" /\ current[d] = cache[d][j].event
    BY <2>4 DEF AcceptedInv
  <2>6. Stored(e) \/ e \in undone \/ (pc[d] = "commit" /\ current[d] = e)
    BY <2>3, <2>5
  <2>7. Stored(e)' \/ e \in undone'
    BY <1>2, <2>3, <2>6
  <2> QED
    BY <2>3, <2>7
<1> QED
  BY <1>1, <1>2 DEF AcceptedInv

LEMMA NextAccepted == ASSUME IInv, [Next]_vars, Types' PROVE AcceptedInv'
<1> USE DEF IInv
<1>u. ASSUME UNCHANGED <<session, rows>> PROVE \A e \in Event : Stored(e) => Stored(e)'
  BY <1>u DEF Stored
<1>1. CASE UNCHANGED vars
  <2>1. UNCHANGED <<session, rows, cache, answer, undone, pc, current>>
    BY <1>1 DEF vars, callVars
  <2> QED
    BY <1>u, <2>1, AcceptedStep
<1>2. ASSUME NEW c \in Client, InsertAgent(c) \/ SelectAgent(c) PROVE AcceptedInv'
  <2>1. /\ UNCHANGED <<session, rows, cache, answer, undone, current>>
        /\ \A d \in Client : pc[d] = "commit" => pc'[d] = "commit"
    BY <1>2 DEF InsertAgent, SelectAgent, Types
  <2> QED
    BY <1>u, <2>1, AcceptedStep
<1>3. ASSUME NEW c \in Client, Execute(c) PROVE AcceptedInv'
  <2>1. current[c] \in Event
    BY <1>3 DEF Execute, LockInv, Busy
  <2>2. CacheStep(c, current[c], "accepted")
    BY <1>3, <2>1, RememberStep DEF Execute
  <2>3. /\ UNCHANGED <<session, rows, answer, undone, current>>
        /\ pc'[c] = "commit" /\ \A d \in Client : pc[d] = "commit" => pc'[d] = "commit"
    BY <1>3 DEF Execute, Types
  <2>4. ASSUME NEW d \in Client, NEW i \in DOMAIN cache'[d]
        PROVE  \/ \E j \in DOMAIN cache[d] : cache'[d][i] = cache[d][j]
               \/ pc'[d] = "commit" /\ current'[d] = cache'[d][i].event
    BY <2>2, <2>3 DEF CacheStep
  <2> QED
    BY <1>u, <2>3, <2>4, AcceptedStep
<1>4. ASSUME NEW c \in Client, ExecuteFails(c) PROVE AcceptedInv'
  <2>1. /\ UNCHANGED <<session, rows, cache, undone>>
        /\ \A d \in Client : pc[d] = "commit" => pc'[d] = "commit" /\ current'[d] = current[d]
        /\ \A e \in Event : answer'[e] = "accepted" => answer[e] = "accepted"
    BY <1>4 DEF ExecuteFails, Raise, Types
  <2> QED
    BY <1>u, <2>1, AcceptedStep
<1>5. ASSUME NEW c \in Client, Commit(c) \/ CommitUnknown(c) PROVE AcceptedInv'
  <2>1. Applies(c)
    BY <1>5, CommitApplies
  <2>2. \A e \in Event : Stored(e) \/ e = current[c] => Stored(e)'
    BY <2>1, ApplyStores DEF Applies
  <2>3. /\ UNCHANGED <<cache, undone>>
        /\ \A d \in Client : d # c /\ pc[d] = "commit" => pc'[d] = "commit" /\ current'[d] = current[d]
    BY <2>1 DEF Applies, Types
  <2>4. \A e \in Event : answer'[e] = "accepted" => answer[e] = "accepted" \/ e = current[c]
    BY <2>1 DEF Applies, Types
  <2> QED
    BY <2>2, <2>3, <2>4, AcceptedStep
<1>6. ASSUME NEW c \in Client, CommitFails(c) PROVE AcceptedInv'
  <2>1. /\ UNCHANGED <<session, rows, cache>>
        /\ undone' = undone \cup {current[c]}
        /\ \A d \in Client : d # c /\ pc[d] = "commit" => pc'[d] = "commit" /\ current'[d] = current[d]
        /\ \A e \in Event : answer'[e] = "accepted" => answer[e] = "accepted"
    BY <1>6 DEF CommitFails, Raise, Types
  <2> QED
    BY <1>u, <2>1, AcceptedStep
<1>7. ASSUME NEW c \in Client, Expire(c) PROVE AcceptedInv'
  <2>1. \A d \in Client : \A j \in DOMAIN cache'[d] :
            \E k \in DOMAIN cache[d] : cache'[d][j] = cache[d][k]
    BY <1>7, ExpireStep
  <2>2. UNCHANGED <<session, rows, answer, undone, pc, current>>
    BY <1>7 DEF Expire, callVars
  <2> QED
    BY <1>u, <2>1, <2>2, AcceptedStep
<1>8. ASSUME NEW c \in Client, NEW e \in Event, AnswerCached(c, e) PROVE AcceptedInv'
  <2>1. UNCHANGED <<session, rows, cache, undone, pc, current>> /\ pc[c] = "idle"
    BY <1>8 DEF AnswerCached, Sends
  <2>2. PICK j \in DOMAIN cache[c] : cache[c][j].event = e /\ Response(c, e) = cache[c][j].response
    BY <1>8 DEF AnswerCached, Remembered, Response, Entry
  <2>3. Response(c, e) = "accepted" => Stored(e) \/ e \in undone
    BY <2>1, <2>2 DEF AcceptedInv
  <2>4. \A x \in Event : answer'[x] = "accepted" =>
            answer[x] = "accepted" \/ (x = e /\ Response(c, e) = "accepted")
    <3> DEFINE resp == Response(c, e)
    <3>1. answer' = [answer EXCEPT ![e] = resp]
      BY <1>8 DEF AnswerCached
    <3> HIDE DEF resp
    <3>2. \A x \in Event : answer'[x] = "accepted" => answer[x] = "accepted" \/ (x = e /\ resp = "accepted")
      BY <3>1 DEF Types
    <3> QED
      BY <3>2 DEF resp
  <2> QED
    BY <1>u, <2>1, <2>3, <2>4, AcceptedStep
<1>9. ASSUME NEW c \in Client, NEW e \in Event, Refuse(c, e) PROVE AcceptedInv'
  <2>1. CacheStep(c, e, "rejected")
    BY <1>9, RememberStep DEF Refuse
  <2>2. /\ UNCHANGED <<session, rows, undone, pc, current>>
        /\ \A x \in Event : answer'[x] = "accepted" => answer[x] = "accepted"
    BY <1>9 DEF Refuse, Types
  <2>3. ASSUME NEW d \in Client, NEW i \in DOMAIN cache'[d], cache'[d][i].response = "accepted"
        PROVE  \E j \in DOMAIN cache[d] : cache'[d][i] = cache[d][j]
    BY <2>1, <2>3 DEF CacheStep
  <2> QED
    BY <1>u, <2>2, <2>3, AcceptedStep
<1>10. ASSUME NEW c \in Client, NEW e \in Event, ReadSession(c, e) PROVE AcceptedInv'
  <2>1. /\ UNCHANGED <<session, rows, cache, undone, answer>>
        /\ \A d \in Client : pc[d] = "commit" => pc'[d] = "commit" /\ current'[d] = current[d]
    BY <1>10 DEF ReadSession, Sends, Types
  <2> QED
    BY <1>u, <2>1, AcceptedStep
<1> QED
  BY <1>1, <1>2, <1>3, <1>4, <1>5, <1>6, <1>7, <1>8, <1>9, <1>10 DEF Next

-------------------------------------------------------------------------------
(* One row per event *)

(* It is enough that a new row is that of a commit, and that who starts a    *)
(* transaction does not remember its event.                                  *)
LEMMA OnceStep ==
    ASSUME Types, LockInv, OnceInv,
           rows \subseteq rows',
           forgotten \subseteq forgotten',
           \A d \in Client, x \in Event : Remembered(d, x) => Remembered(d, x)' \/ x \in forgotten',
           \A r \in rows' \ rows : \E c \in Client :
               /\ pc[c] = "commit" /\ r.event = current[c] /\ ~Busy(c)'
               /\ rows' = rows \cup {r},
           \A d \in Client : Busy(d)' =>
               \/ Busy(d) /\ current'[d] = current[d]
               \/ current'[d] \in Event /\ ClientOf[current'[d]] = d /\ ~Remembered(d, current'[d])
                  /\ rows' = rows,
           \A d \in Client : pc'[d] = "commit" =>
               /\ Busy(d) /\ current'[d] = current[d]
               /\ pc[d] = "commit" \/ Remembered(d, current[d])'
    PROVE  OnceInv'
<1>1. \A r \in rows : r.event \in Event /\ ClientOf[r.event] \in Client
  BY IngestAssumption DEF Types
<1>2. ASSUME NEW r \in rows' \ rows
      PROVE  /\ r.event \in Event
             /\ Remembered(ClientOf[r.event], r.event) \/ r.event \in forgotten
             /\ \A q \in rows : q.event = r.event => r.event \in forgotten
             /\ \A d \in Client : Busy(d)' => r.event # current'[d]
             /\ rows' = rows \cup {r}
  <2>1. PICK c \in Client : /\ pc[c] = "commit" /\ r.event = current[c] /\ ~Busy(c)'
                            /\ rows' = rows \cup {r}
    BY <1>2
  <2>2. Busy(c) /\ r.event \in Event /\ ClientOf[r.event] = c
    BY <2>1 DEF LockInv, Busy
  <2>3. Remembered(c, r.event) \/ r.event \in forgotten
    BY <2>1 DEF OnceInv
  <2>4. \A q \in rows : q.event = r.event => r.event \in forgotten
    BY <2>1, <2>2 DEF OnceInv
  <2>5. ASSUME NEW d \in Client, Busy(d)', r.event = current'[d] PROVE FALSE
    <3>1. Busy(d) /\ current'[d] = current[d]
      BY <1>2, <2>1, <2>5
    <3>2. ClientOf[current[d]] = d
      BY <3>1 DEF LockInv
    <3> QED
      BY <2>1, <2>2, <2>5, <3>1, <3>2
  <2> QED
    BY <2>1, <2>2, <2>3, <2>4, <2>5
<1>3. OneRowPerEvent'
  <2>1. ASSUME NEW r \in rows', NEW q \in rows', r # q, r.event = q.event
        PROVE  r.event \in forgotten'
    <3>1. CASE r \in rows /\ q \in rows
      BY <2>1, <3>1 DEF OnceInv, OneRowPerEvent
    <3>2. CASE r \notin rows
      <4>1. q \in rows
        BY <1>2, <2>1, <3>2
      <4> QED
        BY <1>2, <2>1, <3>2, <4>1
    <3>3. CASE q \notin rows
      <4>1. r \in rows
        BY <1>2, <2>1, <3>3
      <4> QED
        BY <1>2, <2>1, <3>3, <4>1
    <3> QED
      BY <3>1, <3>2, <3>3
  <2> QED
    BY <2>1 DEF OneRowPerEvent
<1>4. \A r \in rows' : Remembered(ClientOf[r.event], r.event)' \/ r.event \in forgotten'
  <2>1. ASSUME NEW r \in rows'
        PROVE  Remembered(ClientOf[r.event], r.event)' \/ r.event \in forgotten'
    <3>1. r.event \in Event /\ (Remembered(ClientOf[r.event], r.event) \/ r.event \in forgotten)
      BY <1>1, <1>2 DEF OnceInv
    <3>2. ClientOf[r.event] \in Client
      BY <3>1, IngestAssumption
    <3> QED
      BY <3>1, <3>2
  <2> QED
    BY <2>1
<1>5. ASSUME NEW d \in Client, pc'[d] = "commit"
      PROVE  Remembered(d, current[d])' \/ current'[d] \in forgotten'
  <2>1. PICK e \in Event : e = current[d] /\ e = current'[d]
    BY <1>5 DEF LockInv
  <2>2. pc[d] = "commit" \/ Remembered(d, e)'
    BY <1>5, <2>1
  <2>3. Remembered(d, e)' \/ e \in forgotten'
    <3>1. CASE pc[d] = "commit"
      <4>1. Remembered(d, e) \/ e \in forgotten
        BY <2>1, <3>1 DEF OnceInv
      <4> QED
        BY <4>1
    <3> QED
      BY <2>2, <3>1
  <2> QED
    BY <2>1, <2>3
<1>6. ASSUME NEW d \in Client, NEW r \in rows', Busy(d)', r.event = current'[d]
      PROVE  r.event \in forgotten'
  <2>1. r \in rows
    BY <1>2, <1>6
  <2>2. CASE Busy(d) /\ current'[d] = current[d]
    BY <1>6, <2>1, <2>2 DEF OnceInv
  <2>3. CASE current'[d] \in Event /\ ClientOf[current'[d]] = d /\ ~Remembered(d, current'[d])
    <3>1. PICK e \in Event : e = current'[d]
      BY <2>3
    <3>2. r.event = e /\ ClientOf[e] = d /\ ~Remembered(d, e)
      BY <1>6, <2>3, <3>1
    <3>3. Remembered(ClientOf[r.event], r.event) \/ r.event \in forgotten
      BY <2>1 DEF OnceInv
    <3> QED
      BY <3>2, <3>3
  <2> QED
    BY <1>6, <2>2, <2>3
<1> QED
  BY <1>3, <1>4, <1>5, <1>6 DEF OnceInv

LEMMA NextOnce == ASSUME IInv, [Next]_vars PROVE OnceInv'
<1> USE DEF IInv
<1>u. ASSUME UNCHANGED cache
      PROVE  \A d \in Client, x \in Event : Remembered(d, x) => Remembered(d, x)'
  BY <1>u DEF Remembered, Entry
<1>1. CASE UNCHANGED vars
  <2>1. UNCHANGED <<rows, cache, forgotten, pc, current>>
    BY <1>1 DEF vars, callVars
  <2> QED
    BY <1>u, <2>1, OnceStep DEF Busy
<1>2. ASSUME NEW c \in Client, InsertAgent(c) \/ SelectAgent(c) PROVE OnceInv'
  <2>1. /\ UNCHANGED <<rows, cache, forgotten, current>>
        /\ ~Busy(c)' /\ pc'[c] # "commit" /\ \A d \in Client : d # c => pc'[d] = pc[d]
    BY <1>2 DEF InsertAgent, SelectAgent, Types, Busy
  <2> QED
    BY <1>u, <2>1, OnceStep DEF Busy
<1>3. ASSUME NEW c \in Client, Execute(c) PROVE OnceInv'
  <2>1. PICK e \in Event : e = current[c]
    BY <1>3 DEF Execute, LockInv, Busy
  <2>2. CacheStep(c, e, "accepted") /\ Remembered(c, e)'
    BY <1>3, <2>1, RememberStep DEF Execute
  <2>3. /\ UNCHANGED <<rows, current>>
        /\ Busy(c) /\ \A d \in Client : d # c => pc'[d] = pc[d]
    BY <1>3 DEF Execute, Types, Busy
  <2>4. ASSUME NEW d \in Client, pc'[d] = "commit"
        PROVE  /\ Busy(d) /\ current'[d] = current[d]
               /\ pc[d] = "commit" \/ Remembered(d, current[d])'
    <3>1. CASE d = c
      BY <2>1, <2>2, <2>3, <3>1
    <3>2. CASE d # c
      BY <2>3, <2>4, <3>2 DEF Busy
    <3> QED
      BY <3>1, <3>2
  <2>5. \A d \in Client : Busy(d)' => Busy(d) /\ current'[d] = current[d]
    BY <2>3 DEF Busy
  <2> QED
    BY <2>2, <2>3, <2>4, <2>5, OnceStep DEF CacheStep
<1>4. ASSUME NEW c \in Client, ExecuteFails(c) \/ CommitFails(c) PROVE OnceInv'
  <2>1. /\ UNCHANGED <<rows, cache, forgotten>>
        /\ ~Busy(c)' /\ pc'[c] # "commit"
        /\ \A d \in Client : d # c => pc'[d] = pc[d] /\ current'[d] = current[d]
    BY <1>4 DEF ExecuteFails, CommitFails, Raise, Types, Busy
  <2> QED
    BY <1>u, <2>1, OnceStep DEF Busy
<1>5. ASSUME NEW c \in Client, Commit(c) \/ CommitUnknown(c) PROVE OnceInv'
  <2>1. Applies(c)
    BY <1>5, CommitApplies
  <2>2. /\ UNCHANGED <<cache, forgotten>>
        /\ pc[c] = "commit" /\ ~Busy(c)' /\ pc'[c] # "commit"
        /\ \A d \in Client : d # c => pc'[d] = pc[d] /\ current'[d] = current[d]
    BY <2>1 DEF Applies, Types, Busy
  <2>3. rows \subseteq rows' /\ \A r \in rows' : r \in rows \/ r.event = current[c]
    BY <2>1, ApplyKeeps DEF Applies
  <2>4. ASSUME NEW r \in rows' \ rows PROVE rows' = rows \cup {r}
    <3>1. \E x : rows' = rows \cup {x}
      BY <2>1, <2>4, ApplyCases DEF Applies
    <3> QED
      BY <2>4, <3>1
  <2>5. \A d \in Client : Busy(d)' => Busy(d) /\ current'[d] = current[d]
    BY <2>2 DEF Busy
  <2>6. \A d \in Client : pc'[d] = "commit" => Busy(d) /\ current'[d] = current[d] /\ pc[d] = "commit"
    BY <2>2 DEF Busy
  <2> QED
    BY <1>u, <2>2, <2>3, <2>4, <2>5, <2>6, OnceStep
<1>6. ASSUME NEW c \in Client, Expire(c) PROVE OnceInv'
  <2>1. CacheStep(c, None, None)
    BY <1>6, ExpireStep
  <2>2. UNCHANGED <<rows, pc, current>>
    BY <1>6 DEF Expire, callVars
  <2> QED
    BY <2>1, <2>2, OnceStep DEF CacheStep, Busy
<1>7. ASSUME NEW c \in Client, NEW e \in Event, AnswerCached(c, e) PROVE OnceInv'
  <2>1. UNCHANGED <<rows, cache, forgotten, pc, current>>
    BY <1>7 DEF AnswerCached
  <2> QED
    BY <1>u, <2>1, OnceStep DEF Busy
<1>8. ASSUME NEW c \in Client, NEW e \in Event, Refuse(c, e) PROVE OnceInv'
  <2>1. CacheStep(c, e, "rejected")
    BY <1>8, RememberStep DEF Refuse
  <2>2. UNCHANGED <<rows, pc, current>>
    BY <1>8 DEF Refuse
  <2> QED
    BY <2>1, <2>2, OnceStep DEF CacheStep, Busy
<1>9. ASSUME NEW c \in Client, NEW e \in Event, ReadSession(c, e) PROVE OnceInv'
  <2>1. /\ UNCHANGED <<rows, cache, forgotten>>
        /\ current'[c] = e /\ ClientOf[e] = c /\ ~Remembered(c, e) /\ pc'[c] # "commit"
        /\ \A d \in Client : d # c => pc'[d] = pc[d] /\ current'[d] = current[d]
    BY <1>9 DEF ReadSession, Sends, Types
  <2>2. ASSUME NEW d \in Client, Busy(d)'
        PROVE  \/ Busy(d) /\ current'[d] = current[d]
               \/ current'[d] \in Event /\ ClientOf[current'[d]] = d /\ ~Remembered(d, current'[d])
                  /\ rows' = rows
    BY <2>1, <2>2 DEF Busy
  <2>3. \A d \in Client : pc'[d] = "commit" => Busy(d) /\ current'[d] = current[d] /\ pc[d] = "commit"
    BY <2>1 DEF Busy
  <2> QED
    BY <1>u, <2>1, <2>2, <2>3, OnceStep
<1> QED
  BY <1>1, <1>2, <1>3, <1>4, <1>5, <1>6, <1>7, <1>8, <1>9 DEF Next

-------------------------------------------------------------------------------
(* The chain *)

(* Every step but a commit leaves the session and its rows alone, and a      *)
(* process reads the session only when it starts on an event.                *)
LEMMA ReadStep ==
    ASSUME Types, [Next]_vars
    PROVE  \/ \E c \in Client : Applies(c)
           \/ /\ UNCHANGED <<session, rows>>
              /\ \A d \in Client :
                    \/ seen'[d] = seen[d] /\ (Busy(d)' => Busy(d) /\ current'[d] = current[d])
                    \/ seen'[d] = NoSession /\ ~Busy(d)'
                    \/ seen'[d] = session /\ current'[d] \in Event /\ ~Refused(current'[d])
<1>1. CASE UNCHANGED vars
  BY <1>1 DEF vars, callVars, Busy
<1>2. ASSUME NEW c \in Client, InsertAgent(c) \/ SelectAgent(c) \/ Execute(c)
      PROVE  /\ UNCHANGED <<session, rows>>
             /\ \A d \in Client : seen'[d] = seen[d] /\ (Busy(d)' => Busy(d) /\ current'[d] = current[d])
  BY <1>2 DEF InsertAgent, SelectAgent, Execute, Types, Busy
<1>3. ASSUME NEW c \in Client, ExecuteFails(c) \/ CommitFails(c)
      PROVE  /\ UNCHANGED <<session, rows>>
             /\ \A d \in Client :
                   \/ seen'[d] = seen[d] /\ (Busy(d)' => Busy(d) /\ current'[d] = current[d])
                   \/ seen'[d] = NoSession /\ ~Busy(d)'
  <2>1. /\ UNCHANGED <<session, rows>>
        /\ seen'[c] = NoSession /\ ~Busy(c)'
        /\ \A d \in Client : d # c => pc'[d] = pc[d] /\ seen'[d] = seen[d] /\ current'[d] = current[d]
    BY <1>3 DEF ExecuteFails, CommitFails, Raise, Types, Busy
  <2> QED
    BY <2>1 DEF Busy
<1>4. ASSUME NEW c \in Client, Commit(c) \/ CommitUnknown(c) PROVE Applies(c)
  BY <1>4, CommitApplies
<1>5. ASSUME NEW c \in Client, NEW e \in Event, Expire(c) \/ AnswerCached(c, e) \/ Refuse(c, e)
      PROVE  UNCHANGED <<session, rows, seen, pc, current>>
  BY <1>5 DEF Expire, AnswerCached, Refuse, callVars
<1>6. ASSUME NEW c \in Client, Expire(c) PROVE UNCHANGED <<session, rows, seen, pc, current>>
  BY <1>6 DEF Expire, callVars
<1>7. ASSUME NEW c \in Client, NEW e \in Event, ReadSession(c, e)
      PROVE  /\ UNCHANGED <<session, rows>>
             /\ \A d \in Client :
                   \/ seen'[d] = seen[d] /\ (Busy(d)' => Busy(d) /\ current'[d] = current[d])
                   \/ seen'[d] = session /\ current'[d] \in Event /\ ~Refused(current'[d])
  <2>1. /\ UNCHANGED <<session, rows>>
        /\ seen'[c] = session /\ current'[c] = e /\ ~Refused(e)
        /\ \A d \in Client : d # c => pc'[d] = pc[d] /\ seen'[d] = seen[d] /\ current'[d] = current[d]
    BY <1>7 DEF ReadSession, Types
  <2> QED
    BY <2>1 DEF Busy
<1>8. UNCHANGED <<session, rows, seen, pc, current>> =>
          /\ UNCHANGED <<session, rows>>
          /\ \A d \in Client : seen'[d] = seen[d] /\ (Busy(d)' => Busy(d) /\ current'[d] = current[d])
  BY DEF Busy
<1> QED
  BY <1>1, <1>2, <1>3, <1>4, <1>5, <1>6, <1>7, <1>8 DEF Next

(* An action's row is new, at the next number and linked to the tail read.   *)
LEMMA NextRowFields ==
    ASSUME Types, NEW c \in Client
    PROVE  /\ NextRow(c).id = Cardinality(rows) + 1
           /\ NextRow(c).event = current[c]
           /\ NextRow(c).seq = seen[c].count + 1
           /\ NextRow(c).prev = seen[c].tail
           /\ NextRow(c).seq > 0
           /\ seen[c].count \in Nat
BY DEF NextRow, Types, Sessions

(* What a commit does to the chain. *)
LEMMA ApplyChain ==
    ASSUME Types, LockInv, NEW c \in Client, Applies(c)
    PROVE  \/ /\ Chained' = Chained \cup {NextRow(c)}
              /\ session'.count = NextRow(c).seq /\ session'.tail = NextRow(c).id
           \/ /\ Chained' = Chained
              /\ session'.count = session.count /\ session'.tail = session.tail
<1>1. pc[c] = "commit" /\ Apply(c)
  BY DEF Applies
<1>2. CASE TypeOf[current[c]] = "action"
  <2>1. rows' = rows \cup {NextRow(c)}
    BY <1>1, <1>2, ApplyCases
  <2>2. Chained' = Chained \cup {NextRow(c)}
    BY <2>1, NextRowFields DEF Chained
  <2>3. session'.count = NextRow(c).seq /\ session'.tail = NextRow(c).id
    BY <1>1, <1>2, SessionApplied, NextRowFields
  <2> QED
    BY <2>2, <2>3
<1>3. CASE TypeOf[current[c]] # "action"
  <2>1. rows' = rows \/ rows' = rows \cup {DecisionRow(c)}
    BY <1>1, <1>3, ApplyCases
  <2>2. DecisionRow(c).seq = 0
    BY DEF DecisionRow
  <2>3. Chained' = Chained
    BY <2>1, <2>2 DEF Chained
  <2>4. session'.count = session.count /\ session'.tail = session.tail
    BY <1>1, <1>3, SessionApplied
  <2> QED
    BY <2>3, <2>4
<1> QED
  BY <1>2, <1>3

LEMMA NextLink == ASSUME IInv, [Next]_vars PROVE LinkInv'
<1> USE DEF IInv
<1>n. NoSession.count = 0 /\ NoSession.tail = 0
  BY DEF NoSession
<1>1. CASE UNCHANGED <<session, rows>> /\ \A d \in Client : seen'[d] \in {seen[d], NoSession, session}
  <2>1. Chained' = Chained
    BY <1>1 DEF Chained
  <2>2. \A s : AtRow(s) => AtRow(s)'
    BY <2>1 DEF AtRow
  <2>3. AtRow(NoSession)
    BY <1>n DEF AtRow
  <2>4. \A d \in Client : AtRow(seen[d])'
    <3>1. ASSUME NEW d \in Client PROVE AtRow(seen[d])'
      <4>1. PICK s : s = seen'[d]
        OBVIOUS
      <4>2. AtRow(s)
        BY <1>1, <2>3, <4>1 DEF LinkInv
      <4> QED
        BY <2>1, <4>1, <4>2 DEF AtRow
    <3> QED
      BY <3>1
  <2>5. AtRow(session)'
    BY <1>1, <2>1 DEF AtRow, LinkInv
  <2> QED
    BY <2>1, <2>4, <2>5 DEF LinkInv
<1>2. ASSUME NEW c \in Client, Applies(c) PROVE LinkInv'
  <2> DEFINE new == NextRow(c)
             was == seen[c]
  <2>1. /\ new.seq = was.count + 1 /\ new.prev = was.tail /\ new.seq > 0 /\ was.count \in Nat
    BY NextRowFields
  <2>2. AtRow(was)
    BY DEF LinkInv
  <2>3. \/ Chained' = Chained \cup {new} /\ session'.count = new.seq /\ session'.tail = new.id
        \/ Chained' = Chained /\ session'.count = session.count /\ session'.tail = session.tail
    BY <1>2, ApplyChain
  <2>4. \A d \in Client : seen'[d] \in {seen[d], NoSession}
    BY <1>2 DEF Applies, Types
  <2> HIDE DEF new, was
  <2>5. Chained \subseteq Chained'
    BY <2>3
  <2>6. AtRow(session)'
    BY <2>3 DEF AtRow, LinkInv
  <2>7. ASSUME NEW d \in Client PROVE AtRow(seen[d])'
    <3>1. PICK s : s = seen'[d] /\ AtRow(s)
      BY <1>n, <2>4 DEF LinkInv, AtRow
    <3> QED
      BY <2>5, <3>1 DEF AtRow
  <2>8. ASSUME NEW r \in Chained'
        PROVE  IF r.seq = 1 THEN r.prev = 0 ELSE \E q \in Chained' : q.id = r.prev /\ q.seq = r.seq - 1
    <3>1. CASE r \in Chained
      BY <2>5, <3>1 DEF LinkInv
    <3>2. CASE r = new
      <4>1. CASE was.count = 0 /\ was.tail = 0
        BY <2>1, <3>2, <4>1
      <4>2. CASE \E q \in Chained : q.id = was.tail /\ q.seq = was.count
        <5>1. PICK q \in Chained : q.id = was.tail /\ q.seq = was.count
          BY <4>2
        <5>2. q.seq > 0 /\ q \in Chained' /\ q.id = r.prev /\ q.seq = r.seq - 1
          BY <2>1, <2>5, <3>2, <5>1 DEF Chained
        <5>3. r.seq # 1
          BY <2>1, <3>2, <5>1, <5>2
        <5> QED
          BY <5>2, <5>3
      <4> QED
        BY <2>2, <4>1, <4>2 DEF AtRow
    <3> QED
      BY <2>3, <3>1, <3>2
  <2> QED
    BY <2>6, <2>7, <2>8 DEF LinkInv
<1>3. \/ \E c \in Client : Applies(c)
      \/ UNCHANGED <<session, rows>> /\ \A d \in Client : seen'[d] \in {seen[d], NoSession, session}
  BY ReadStep
<1> QED
  BY <1>1, <1>2, <1>3

LEMMA NextFork == ASSUME IInv, [Next]_vars PROVE ForkInv'
<1> USE DEF IInv
<1>1. CASE /\ UNCHANGED <<session, rows>>
           /\ \A d \in Client :
                 \/ seen'[d] = seen[d] /\ (Busy(d)' => Busy(d))
                 \/ ~Busy(d)'
                 \/ seen'[d] = session
  <2>1. Chained' = Chained
    BY <1>1 DEF Chained
  <2>2. \A d \in Client : Alone(d)' = Alone(d)
    BY <2>1 DEF Alone
  <2> QED
    BY <1>1, <2>1, <2>2 DEF ForkInv
<1>2. ASSUME NEW c \in Client, Applies(c) PROVE ForkInv'
  <2> DEFINE new == NextRow(c)
  <2>1. /\ new.seq = seen[c].count + 1 /\ new.event = current[c]
        /\ seen[c].count \in Nat /\ session.count \in Nat
    BY NextRowFields DEF Types, Sessions
  <2>2. Busy(c) /\ ClientOf[new.event] = c
    BY <1>2, <2>1 DEF Applies, LockInv, Busy
  <2>3. \/ Chained' = Chained \cup {new} /\ session'.count = new.seq
        \/ Chained' = Chained /\ session'.count = session.count
    BY <1>2, ApplyChain
  <2>4. ~Busy(c)' /\ \A d \in Client : d # c => seen'[d] = seen[d] /\ Busy(d)' = Busy(d)
    BY <1>2 DEF Applies, Types, Busy
  <2>s. \A r \in Chained : r.seq \in Nat
    BY DEF Chained, Types
  <2> HIDE DEF new
  <2>5. CASE Chained' = Chained /\ session'.count = session.count
    <3>1. \A d \in Client : Alone(d)' = Alone(d)
      BY <2>5 DEF Alone
    <3> QED
      BY <2>4, <2>5, <3>1 DEF ForkInv
  <2>6. CASE Chained' = Chained \cup {new} /\ session'.count = new.seq
    <3>1. ASSUME NEW d \in Client, Alone(d)'
          PROVE  /\ \A r, q \in Chained' : r.seq = q.seq => r = q
                 /\ \A r \in Chained' : r.seq <= session'.count
                 /\ Busy(d)' => seen'[d].count = session'.count
      <4>1. d = c
        BY <2>2, <2>6, <3>1 DEF Alone
      <4>2. Alone(c)
        BY <2>6, <3>1, <4>1 DEF Alone
      <4>3. /\ \A r, q \in Chained : r.seq = q.seq => r = q
            /\ \A r \in Chained : r.seq <= session.count
            /\ seen[c].count = session.count
        BY <2>2, <4>2 DEF ForkInv
      <4>4. \A r \in Chained : r.seq < new.seq
        BY <2>1, <2>s, <4>3
      <4>5. \A r, q \in Chained' : r.seq = q.seq => r = q
        BY <2>s, <2>1, <2>6, <4>3, <4>4
      <4>6. \A r \in Chained' : r.seq <= session'.count
        BY <2>s, <2>1, <2>6, <4>4
      <4> QED
        BY <2>4, <4>1, <4>5, <4>6
    <3> QED
      BY <3>1 DEF ForkInv
  <2> QED
    BY <2>3, <2>5, <2>6
<1>3. \/ \E c \in Client : Applies(c)
      \/ /\ UNCHANGED <<session, rows>>
         /\ \A d \in Client :
               \/ seen'[d] = seen[d] /\ (Busy(d)' => Busy(d))
               \/ ~Busy(d)'
               \/ seen'[d] = session
  BY ReadStep
<1> QED
  BY <1>1, <1>2, <1>3

-------------------------------------------------------------------------------
(* The closed session and the agent *)

LEMMA NextQuiet == ASSUME IInv, [Next]_vars PROVE QuietInv'
<1> USE DEF IInv
<1>1. CASE /\ UNCHANGED session
           /\ \A d \in Client :
                 \/ seen'[d] = seen[d] /\ (Busy(d)' => Busy(d) /\ current'[d] = current[d])
                 \/ seen'[d] = NoSession /\ ~Busy(d)'
                 \/ seen'[d] = session /\ current'[d] \in Event /\ ~Refused(current'[d])
  <2>1. ASSUME NEW d \in Client, Busy(d)', TypeOf[current'[d]] # "open"
        PROVE  seen'[d].status = "running" /\ (session'.status = "closed" => ClosedByOther(d))
    <3>1. CASE seen'[d] = seen[d] /\ Busy(d) /\ current'[d] = current[d]
      BY <1>1, <2>1, <3>1 DEF QuietInv
    <3>2. CASE seen'[d] = session /\ ~Refused(current'[d])
      BY <1>1, <2>1, <3>2 DEF Refused
    <3> QED
      BY <1>1, <2>1, <3>1, <3>2
  <2> QED
    BY <2>1 DEF QuietInv, ClosedByOther
<1>2. ASSUME NEW c \in Client, Applies(c) PROVE QuietInv'
  <2>1. /\ ~Busy(c)'
        /\ \A d \in Client : d # c => /\ current'[d] = current[d] /\ seen'[d] = seen[d]
                                      /\ Busy(d)' = Busy(d)
    BY <1>2 DEF Applies, Types, Busy
  <2>2. current[c] \in Event /\ ClientOf[current[c]] = c
    BY <1>2 DEF Applies, LockInv, Busy
  <2>3. session'.status = "closed" => session.status = "closed" \/ TypeOf[current[c]] = "close"
    BY <1>2, SessionApplied DEF Applies
  <2>4. ASSUME NEW d \in Client, Busy(d)', TypeOf[current'[d]] # "open"
        PROVE  seen'[d].status = "running" /\ (session'.status = "closed" => ClosedByOther(d))
    <3>1. d # c /\ Busy(d) /\ current'[d] = current[d] /\ seen'[d] = seen[d]
      BY <2>1, <2>4
    <3>2. seen'[d].status = "running" /\ (session.status = "closed" => ClosedByOther(d))
      BY <2>4, <3>1 DEF QuietInv
    <3>3. TypeOf[current[c]] = "close" => ClosedByOther(d)
      BY <2>2, <3>1 DEF ClosedByOther
    <3> QED
      BY <2>3, <3>2, <3>3
  <2> QED
    BY <2>4 DEF QuietInv, ClosedByOther
<1>3. \/ \E c \in Client : Applies(c)
      \/ /\ UNCHANGED session
         /\ \A d \in Client :
               \/ seen'[d] = seen[d] /\ (Busy(d)' => Busy(d) /\ current'[d] = current[d])
               \/ seen'[d] = NoSession /\ ~Busy(d)'
               \/ seen'[d] = session /\ current'[d] \in Event /\ ~Refused(current'[d])
  BY ReadStep
<1> QED
  BY <1>1, <1>2, <1>3

LEMMA NextAgent == ASSUME IInv, [Next]_vars PROVE AgentInv'
<1> USE DEF IInv
<1>1. CASE UNCHANGED agentVars
  BY <1>1 DEF agentVars, AgentInv
<1>2. ASSUME NEW c \in Client, InsertAgent(c) PROVE AgentInv'
  BY <1>2 DEF InsertAgent, AgentInv
<1>3. ASSUME NEW c \in Client, SelectAgent(c) PROVE AgentInv'
  BY <1>3 DEF SelectAgent, AgentInv, Types
<1>4. \/ UNCHANGED agentVars
      \/ \E c \in Client : InsertAgent(c) \/ SelectAgent(c)
  BY DEF Next, vars, Execute, ExecuteFails, Commit, CommitUnknown, CommitFails, Expire,
         AnswerCached, Refuse, ReadSession
<1> QED
  BY <1>1, <1>2, <1>3, <1>4

-------------------------------------------------------------------------------
(* Theorems *)

LEMMA NextIInv == ASSUME IInv, [Next]_vars PROVE IInv'
<1>1. Types'
  BY NextType
<1> QED
  BY <1>1, NextLock, NextAccepted, NextOnce, NextLink, NextFork, NextQuiet, NextAgent DEF IInv

(* Every reachable state satisfies the invariant. *)
LEMMA Invariant == Spec => []IInv
<1>1. Init => IInv
  BY InitIInv
<1>2. IInv /\ [Next]_vars => IInv'
  BY NextIInv
<1> QED
  BY <1>1, <1>2, PTL DEF Spec

(* Nobody is told "accepted" about an event that is not in the store, but    *)
(* after a commit that failed with its answer already cached: handle() of    *)
(* IngestHandler stores the response before its caller commits.              *)
THEOREM AcceptedMeansStored == Spec => []AcceptedOrUndone
<1>1. IInv => AcceptedOrUndone
  BY DEF IInv, AcceptedInv
<1> QED
  BY <1>1, Invariant, PTL

(* A resend stores no second row while the cache remembers the event.        *)
THEOREM ResendStoresOnce == Spec => []OneRowPerEvent
<1>1. IInv => OneRowPerEvent
  BY DEF IInv, OnceInv
<1> QED
  BY <1>1, Invariant, PTL

(* The action rows link as create_with_hash numbers them, from whatever      *)
(* reading, and a number is given twice only when two processes write.       *)
THEOREM ChainLinks == Spec => []LinksResolve
<1>1. ASSUME IInv PROVE LinksResolve
  <2> DEFINE Writers == {ClientOf[r.event] : r \in Chained}
             f == [r \in Chained |-> ClientOf[r.event]]
  <2>1. IsFiniteSet(Chained)
    <3>1. Chained \subseteq rows
      BY DEF Chained
    <3> QED
      BY <1>1, <3>1, FS_Subset DEF IInv, Types
  <2>2. f \in Surjection(Chained, Writers)
    BY DEF Surjection
  <2>3. IsFiniteSet(Writers)
    BY <2>1, <2>2, FS_Surjection
  <2>4. ASSUME Cardinality(Writers) = 1
        PROVE  \A r, q \in Chained : r.seq = q.seq => r = q
    <3>1. PICK c : Writers = {c}
      BY <2>3, <2>4, FS_Singleton
    <3>2. \A r \in Chained : ClientOf[r.event] = c
      BY <3>1
    <3>3. ASSUME NEW r \in Chained PROVE ClientOf[r.event] \in Client
      <4>1. r.event \in Event
        BY <1>1, <3>3 DEF IInv, Types, Chained
      <4> QED
        BY <4>1, IngestAssumption
    <3>4. CASE Chained = {}
      BY <3>4
    <3>5. CASE Chained # {}
      <4>1. c \in Client
        BY <3>2, <3>3, <3>5
      <4>2. Alone(c)
        BY <3>2 DEF Alone
      <4> QED
        BY <1>1, <4>1, <4>2 DEF IInv, ForkInv
    <3> QED
      BY <3>4, <3>5
  <2> QED
    BY <1>1, <2>4 DEF IInv, LinkInv, LinksResolve
<1> QED
  BY <1>1, Invariant, PTL

(* Two first runs that register the agent at once use the same row.          *)
THEOREM RegistrationAgrees == Spec => []OneAgentIdentity
<1>1. IInv => OneAgentIdentity
  BY DEF IInv, AgentInv, OneAgentIdentity
<1> QED
  BY <1>1, Invariant, PTL

(* A closed session stays closed, and gets a row only from a process that    *)
(* found it running before another one closed it: _require_running_session   *)
(* is not under the row lock.                                                *)
THEOREM ClosedStaysQuiet == Spec => QuietAfterClose
<1>1. ASSUME IInv, [Next]_vars, session.status = "closed", NEW c \in Client, Applies(c)
      PROVE  /\ session'.status = "closed"
             /\ \A r \in rows' \ rows :
                   /\ seen[ClientOf[r.event]].status = "running"
                   /\ \E k \in Event : TypeOf[k] = "close" /\ ClientOf[k] # ClientOf[r.event]
  <2>1. pc[c] = "commit" /\ Apply(c)
    BY <1>1 DEF Applies
  <2>2. TypeOf[current[c]] # "open"
    BY <1>1, <2>1 DEF IInv, LockInv
  <2>3. seen[c].status = "running" /\ ClosedByOther(c) /\ ClientOf[current[c]] = c
    BY <1>1, <2>1, <2>2 DEF IInv, QuietInv, LockInv, Busy
  <2>4. \A r \in rows' \ rows : r.event = current[c]
    BY <1>1, <2>1, ApplyKeeps DEF IInv
  <2>5. session'.status = "closed"
    <3>1. current[c] \in Event /\ session \in Sessions
      BY <1>1, <2>1 DEF IInv, LockInv, Busy, Types
    <3>2. TypeOf[current[c]] \in {"action", "decision", "close"}
      BY <2>2, <3>1, IngestAssumption
    <3>3. session' = Written(current[c], seen[c], Cardinality(rows) + 1)
      BY <2>1 DEF Apply
    <3> QED
      BY <1>1, <3>1, <3>2, <3>3 DEF Written, Sessions
  <2> QED
    BY <2>3, <2>4, <2>5 DEF ClosedByOther
<1>2. IInv /\ [Next]_vars =>
        [session.status = "closed" =>
            /\ session'.status = "closed"
            /\ \A r \in rows' \ rows :
                  /\ seen[ClientOf[r.event]].status = "running"
                  /\ \E k \in Event : TypeOf[k] = "close" /\ ClientOf[k] # ClientOf[r.event]]_vars
  <2>1. ASSUME IInv, [Next]_vars
        PROVE  (\E c \in Client : Applies(c)) \/ UNCHANGED <<session, rows>>
    BY <2>1, ReadStep DEF IInv
  <2> QED
    BY <1>1, <2>1
<1> QED
  BY <1>2, Invariant, PTL DEF Spec, QuietAfterClose

================================================================================
