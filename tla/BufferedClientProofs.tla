-------------------------- MODULE BufferedClientProofs --------------------------
(***************************************************************************)
(* Theorems about BufferedClient, for any tasks, records, buffer size and  *)
(* number of attempts, and the proof that it implements Delivery.          *)
(*                                                                         *)
(* The inductive invariant says where a record can be:                     *)
(*   - KnownInv: only records handed to handle() are anywhere;             *)
(*   - PlaceInv: a flusher that sends has something to send, no other one  *)
(*     holds anything;                                                     *)
(*   - ApartInv: a record is in the buffer or in one flush;                *)
(*   - SentInv: what a flush has failed to deliver, and what its call in   *)
(*     flight carries, has been attempted;                                 *)
(*   - CloseInv: where close() is, and what the buffer may hold after it;  *)
(*   - OrderInv: the records of the buffer that were never attempted are   *)
(*     in the order of their handle() calls, and for a batching inner      *)
(*     client no other action is unattempted.                              *)
(* Every step is of one of the kinds in Moves (StepKinds), and each part   *)
(* of the invariant is preserved kind by kind.                             *)
(* VerdictProofs is extended for LeastMember, by which the recursive       *)
(* function in Without is reasoned about.                                  *)
(***************************************************************************)
EXTENDS BufferedClient, VerdictProofs, SequenceTheorems

-------------------------------------------------------------------------------
(* Sequences *)

LEMMA SetOfConcat ==
    ASSUME NEW R, NEW p \in Seq(R), NEW q \in Seq(R)
    PROVE  /\ p \o q \in Seq(R)
           /\ ToSet(p \o q) = ToSet(p) \cup ToSet(q)
           /\ Len(p \o q) = Len(p) + Len(q)
           /\ \A i \in 1 .. Len(p) : (p \o q)[i] = p[i]
           /\ \A i \in 1 .. Len(q) : (p \o q)[Len(p) + i] = q[i]
<1> DEFINE c == p \o q
<1>1. Len(p) \in Nat /\ Len(q) \in Nat /\ DOMAIN p = 1 .. Len(p) /\ DOMAIN q = 1 .. Len(q)
  OBVIOUS
<1>2. /\ c \in Seq(R)
      /\ Len(c) = Len(p) + Len(q)
      /\ \A i \in 1 .. Len(p) + Len(q) : c[i] = IF i <= Len(p) THEN p[i] ELSE q[i - Len(p)]
  BY ConcatProperties
<1> HIDE DEF c
<1>3. DOMAIN c = 1 .. Len(p) + Len(q)
  BY <1>2
<1>4. \A i \in 1 .. Len(p) : i \in DOMAIN c /\ c[i] = p[i]
  BY <1>1, <1>2, <1>3
<1>5. ASSUME NEW i \in 1 .. Len(q)
      PROVE  Len(p) + i \in DOMAIN c /\ c[Len(p) + i] = q[i]
  <2>1. Len(p) + i \in 1 .. Len(p) + Len(q) /\ ~(Len(p) + i <= Len(p)) /\ Len(p) + i - Len(p) = i
    BY <1>1
  <2> QED
    BY <1>2, <1>3, <2>1
<1>6. ASSUME NEW i \in DOMAIN c
      PROVE  \/ i \in 1 .. Len(p) /\ c[i] = p[i]
             \/ i - Len(p) \in 1 .. Len(q) /\ c[i] = q[i - Len(p)]
  BY <1>1, <1>2, <1>3, <1>6
<1>7. ToSet(c) = ToSet(p) \cup ToSet(q)
  <2>1. ToSet(c) \subseteq ToSet(p) \cup ToSet(q)
    BY <1>1, <1>6 DEF ToSet
  <2>2. ToSet(p) \cup ToSet(q) \subseteq ToSet(c)
    BY <1>1, <1>4, <1>5 DEF ToSet
  <2> QED
    BY <2>1, <2>2
<1> QED
  BY <1>2, <1>4, <1>5, <1>7 DEF c

LEMMA SetOfAppend ==
    ASSUME NEW R, NEW q \in Seq(R), NEW x \in R
    PROVE  /\ Append(q, x) \in Seq(R) /\ Append(q, x) # <<>>
           /\ Len(Append(q, x)) = Len(q) + 1
           /\ DOMAIN Append(q, x) = DOMAIN q \cup {Len(q) + 1}
           /\ \A i \in DOMAIN q : Append(q, x)[i] = q[i] /\ i \in 1 .. Len(q)
           /\ Append(q, x)[Len(q) + 1] = x
           /\ ToSet(Append(q, x)) = ToSet(q) \cup {x}
<1>1. /\ Append(q, x) \in Seq(R) /\ Append(q, x) # <<>>
      /\ Len(Append(q, x)) = Len(q) + 1
      /\ \A i \in 1 .. Len(q) : Append(q, x)[i] = q[i]
      /\ Append(q, x)[Len(q) + 1] = x
  BY AppendProperties
<1>2. Len(q) \in Nat /\ DOMAIN q = 1 .. Len(q) /\ DOMAIN Append(q, x) = 1 .. Len(q) + 1
  BY <1>1
<1>3. 1 .. Len(q) + 1 = 1 .. Len(q) \cup {Len(q) + 1}
  BY <1>2
<1> QED
  BY <1>1, <1>2, <1>3 DEF ToSet

LEMMA SetOfSeq ==
    ASSUME NEW R, NEW q \in Seq(R)
    PROVE  /\ Len(q) \in Nat /\ DOMAIN q = 1 .. Len(q)
           /\ ToSet(q) \subseteq R
           /\ \A i \in 1 .. Len(q) : q[i] \in ToSet(q) /\ q[i] \in R
           /\ q = <<>> <=> ToSet(q) = {}
<1>1. Len(q) \in Nat /\ DOMAIN q = 1 .. Len(q)
  OBVIOUS
<1>2. \A i \in 1 .. Len(q) : q[i] \in R
  BY ElementOfSeq
<1>3. q # <<>> => Len(q) \in Nat \ {0}
  BY EmptySeq
<1>4. q # <<>> => 1 \in 1 .. Len(q)
  BY <1>3
<1>5. ToSet(q) = {q[i] : i \in 1 .. Len(q)}
  BY <1>1, Zenon DEF ToSet
<1>6. ToSet(q) \subseteq R /\ \A i \in 1 .. Len(q) : q[i] \in ToSet(q)
  BY <1>2, <1>5
<1>7. q = <<>> => ToSet(q) = {}
  BY <1>5
<1>8. q # <<>> => ToSet(q) # {}
  BY <1>4, <1>6
<1> QED
  BY <1>1, <1>2, <1>6, <1>7, <1>8

-------------------------------------------------------------------------------
(* Without *)

IsKept(f, q, S, n) ==
    f = [i \in 0 .. n |-> IF i = 0 THEN <<>>
                          ELSE IF q[i] \in S THEN f[i - 1] ELSE Append(f[i - 1], q[i])]

LEMMA KeptExists ==
    ASSUME NEW q, NEW S, NEW m \in Nat
    PROVE  \E f : IsKept(f, q, S, m)
<1> DEFINE T == {n \in Nat : ~\E f : IsKept(f, q, S, n)}
<1>1. SUFFICES ASSUME T # {} PROVE FALSE
  OBVIOUS
<1>2. PICK n \in T : \A y \in T : n <= y
  BY <1>1, LeastMember
<1>3. CASE n = 0
  <2>1. IsKept([i \in 0 .. 0 |-> <<>>], q, S, 0)
    BY DEF IsKept
  <2> QED
    BY <1>2, <1>3, <2>1
<1>4. CASE n # 0
  <2>1. n \in Nat /\ n - 1 \in Nat /\ n - 1 \notin T
    BY <1>2, <1>4
  <2>2. PICK g : IsKept(g, q, S, n - 1)
    BY <2>1
  <2> DEFINE Step(r, i) == IF q[i] \in S THEN r ELSE Append(r, q[i])
             f == [i \in 0 .. n |-> IF i = n THEN Step(g[n - 1], n) ELSE g[i]]
  <2>3. g = [i \in 0 .. n - 1 |-> IF i = 0 THEN <<>> ELSE Step(g[i - 1], i)]
    BY <2>2 DEF IsKept
  <2> HIDE DEF Step
  <2>4. \A i \in 0 .. n : f[i] = IF i = 0 THEN <<>> ELSE Step(f[i - 1], i)
    <3>1. TAKE i \in 0 .. n
    <3>2. CASE i = n
      BY <1>4, <2>1, <3>2
    <3>3. CASE i # n
      <4>1. i \in 0 .. n - 1 /\ (i # 0 => i - 1 \in 0 .. n - 1 /\ i - 1 # n)
        BY <2>1, <3>3
      <4>2. f[i] = g[i] /\ (i # 0 => f[i - 1] = g[i - 1])
        BY <2>1, <3>3, <4>1
      <4> QED
        BY <2>3, <4>1, <4>2
    <3> QED
      BY <3>2, <3>3
  <2>5. f = [i \in 0 .. n |-> IF i = 0 THEN <<>> ELSE Step(f[i - 1], i)]
    BY <2>4
  <2>6. IsKept(f, q, S, n)
    BY <2>5 DEF IsKept, Step
  <2> QED
    BY <1>2, <2>6
<1> QED
  BY <1>3, <1>4

(* w is what is left of the first k records of q: those outside S, each      *)
(* behind the ones that were before it.                                      *)
Kept(q, S, w, k, R) ==
    /\ w \in Seq(R)
    /\ \A x : x \in ToSet(w) <=> \E i \in 1 .. k : x = q[i] /\ q[i] \notin S
    /\ \A n \in 1 .. Len(w) : \E i \in 1 .. k :
          /\ w[n] = q[i] /\ q[i] \notin S
          /\ \A j \in 1 .. i : q[j] \notin S => \E m \in 1 .. n : w[m] = q[j]

LEMMA KeptAdds ==
    ASSUME NEW R, NEW q \in Seq(R), NEW S, NEW c \in 1 .. Len(q), NEW w, Kept(q, S, w, c - 1, R)
    PROVE  Kept(q, S, IF q[c] \in S THEN w ELSE Append(w, q[c]), c, R)
<1>0. c \in Nat /\ Len(q) \in Nat /\ 1 .. c = 1 .. c - 1 \cup {c} /\ q[c] \in R /\ c - 1 \in Nat
  BY SetOfSeq
<1>1. /\ w \in Seq(R)
      /\ \A x : x \in ToSet(w) <=> \E i \in 1 .. c - 1 : x = q[i] /\ q[i] \notin S
      /\ \A n \in 1 .. Len(w) : \E i \in 1 .. c - 1 :
            /\ w[n] = q[i] /\ q[i] \notin S
            /\ \A j \in 1 .. i : q[j] \notin S => \E m \in 1 .. n : w[m] = q[j]
  BY DEF Kept
<1>2. CASE q[c] \in S
  BY <1>0, <1>1, <1>2 DEF Kept
<1>3. CASE q[c] \notin S
  <2> DEFINE v == Append(w, q[c])
  <2>1. /\ v \in Seq(R) /\ Len(v) = Len(w) + 1 /\ ToSet(v) = ToSet(w) \cup {q[c]}
        /\ \A i \in 1 .. Len(w) : v[i] = w[i]
        /\ v[Len(w) + 1] = q[c]
        /\ Len(w) \in Nat
    BY <1>0, <1>1, SetOfAppend, SetOfSeq
  <2> HIDE DEF v
  <2>2. \A x : x \in ToSet(v) <=> \E i \in 1 .. c : x = q[i] /\ q[i] \notin S
    BY <1>0, <1>1, <1>3, <2>1
  <2>3. ASSUME NEW n \in 1 .. Len(w)
        PROVE  \E i \in 1 .. c :
                  /\ v[n] = q[i] /\ q[i] \notin S
                  /\ \A j \in 1 .. i : q[j] \notin S => \E m \in 1 .. n : v[m] = q[j]
    <3>1. PICK i \in 1 .. c - 1 :
                  /\ w[n] = q[i] /\ q[i] \notin S
                  /\ \A j \in 1 .. i : q[j] \notin S => \E m \in 1 .. n : w[m] = q[j]
      BY <1>1
    <3>2. \A m \in 1 .. n : v[m] = w[m]
      BY <2>1
    <3>3. v[n] = w[n] /\ i \in 1 .. c
      BY <1>0, <2>1
    <3> QED
      BY <3>1, <3>2, <3>3
  <2>4. \A j \in 1 .. c : q[j] \notin S => \E m \in 1 .. Len(w) + 1 : v[m] = q[j]
    <3>1. TAKE j \in 1 .. c
    <3>2. HAVE q[j] \notin S
    <3>3. q[j] \in ToSet(v)
      BY <2>2, <3>2
    <3> QED
      BY <2>1, <3>3 DEF ToSet
  <2>5. \A n \in 1 .. Len(v) : n \in 1 .. Len(w) \/ n = Len(w) + 1
    BY <2>1
  <2>6. \A n \in 1 .. Len(v) : \E i \in 1 .. c :
            /\ v[n] = q[i] /\ q[i] \notin S
            /\ \A j \in 1 .. i : q[j] \notin S => \E m \in 1 .. n : v[m] = q[j]
    <3>1. c \in 1 .. c
      BY <1>0
    <3> QED
      BY <1>3, <2>1, <2>3, <2>4, <2>5, <3>1
  <2>7. Kept(q, S, v, c, R)
    BY <2>1, <2>2, <2>6 DEF Kept
  <2> QED
    BY <1>3, <2>7 DEF v
<1> QED
  BY <1>2, <1>3

LEMMA WithoutKeeps ==
    ASSUME NEW R, NEW q \in Seq(R), NEW S
    PROVE  Kept(q, S, Without(q, S), Len(q), R)
<1> DEFINE kept == CHOOSE f : IsKept(f, q, S, Len(q))
<1>0. Len(q) \in Nat
  OBVIOUS
<1>1. IsKept(kept, q, S, Len(q))
  BY <1>0, KeptExists
<1>2. Without(q, S) = kept[Len(q)]
  BY DEF Without, IsKept
<1> HIDE DEF kept
<1> DEFINE T == {c \in 0 .. Len(q) : ~Kept(q, S, kept[c], c, R)}
<1>3. T = {}
  <2>1. SUFFICES ASSUME T # {} PROVE FALSE
    OBVIOUS
  <2>2. T \subseteq Nat
    OBVIOUS
  <2>3. PICK c \in T : \A y \in T : c <= y
    BY <2>1, <2>2, LeastMember
  <2>4. CASE c = 0
    <3>1. kept[0] = <<>>
      BY <1>0, <1>1 DEF IsKept
    <3>2. Kept(q, S, <<>>, 0, R)
      <4>1. <<>> \in Seq(R) /\ Len(<<>>) = 0 /\ ToSet(<<>>) = {} /\ 1 .. 0 = {}
        BY EmptySeq DEF ToSet
      <4> QED
        BY <4>1 DEF Kept
    <3> QED
      BY <2>3, <2>4, <3>1, <3>2
  <2>5. CASE c # 0
    <3>1. c \in 1 .. Len(q) /\ c - 1 \in 0 .. Len(q) /\ c \in 0 .. Len(q) /\ ~(c <= c - 1)
      BY <1>0, <2>3, <2>5
    <3>2. Kept(q, S, kept[c - 1], c - 1, R)
      BY <2>3, <3>1
    <3>3. kept[c] = IF q[c] \in S THEN kept[c - 1] ELSE Append(kept[c - 1], q[c])
      BY <1>1, <2>5, <3>1 DEF IsKept
    <3>4. Kept(q, S, kept[c], c, R)
      BY <3>1, <3>2, <3>3, KeptAdds
    <3> QED
      BY <2>3, <3>4
  <2> QED
    BY <2>4, <2>5
<1>4. Kept(q, S, kept[Len(q)], Len(q), R)
  BY <1>0, <1>3
<1> QED
  BY <1>2, <1>4

LEMMA WithoutSet ==
    ASSUME NEW R, NEW q \in Seq(R), NEW S
    PROVE  Without(q, S) \in Seq(R) /\ ToSet(Without(q, S)) = ToSet(q) \ S
<1>1. /\ Without(q, S) \in Seq(R)
      /\ \A x : x \in ToSet(Without(q, S)) <=> \E i \in 1 .. Len(q) : x = q[i] /\ q[i] \notin S
  BY WithoutKeeps DEF Kept
<1>2. \A x : x \in ToSet(q) <=> \E i \in 1 .. Len(q) : x = q[i]
  BY SetOfSeq DEF ToSet
<1> QED
  BY <1>1, <1>2

-------------------------------------------------------------------------------
(* What the inner client has seen *)

(* n is the place of a new record of q, behind the ones before it in q.      *)
NewIn(s, n, at, q) ==
    \E i \in 1 .. Len(q) :
        /\ s[n] = q[i] /\ q[i] \notin ToSet(at)
        /\ \A j \in 1 .. i : \E m \in 1 .. n : s[m] = q[j]

LEMMA SeenFacts ==
    ASSUME NEW R, NEW at \in Seq(R), NEW q \in Seq(R)
    PROVE  /\ Seen(at, q) \in Seq(R)
           /\ ToSet(Seen(at, q)) = ToSet(at) \cup ToSet(q)
           /\ \A n \in DOMAIN Seen(at, q) :
                 \/ n \in DOMAIN at /\ \A m \in 1 .. n : Seen(at, q)[m] = at[m]
                 \/ NewIn(Seen(at, q), n, at, q)
           /\ \A m \in DOMAIN at : Seen(at, q)[m] = at[m]
<1> DEFINE w == Without(q, ToSet(at))
           s == at \o w
<1>1. w \in Seq(R) /\ ToSet(w) = ToSet(q) \ ToSet(at)
  BY WithoutSet
<1>2. \A n \in 1 .. Len(w) : \E i \in 1 .. Len(q) :
          /\ w[n] = q[i] /\ q[i] \notin ToSet(at)
          /\ \A j \in 1 .. i : q[j] \notin ToSet(at) => \E m \in 1 .. n : w[m] = q[j]
  BY WithoutKeeps DEF Kept
<1>3. Seen(at, q) = s
  BY DEF Seen
<1> HIDE DEF w
<1>4. /\ s \in Seq(R) /\ ToSet(s) = ToSet(at) \cup ToSet(w) /\ Len(s) = Len(at) + Len(w)
      /\ \A i \in 1 .. Len(at) : s[i] = at[i]
      /\ \A i \in 1 .. Len(w) : s[Len(at) + i] = w[i]
  BY <1>1, SetOfConcat
<1> HIDE DEF s
<1>5. /\ Len(at) \in Nat /\ Len(w) \in Nat /\ Len(q) \in Nat
      /\ DOMAIN at = 1 .. Len(at) /\ DOMAIN s = 1 .. Len(at) + Len(w)
  BY <1>1, <1>4, SetOfSeq
<1>6. ASSUME NEW n \in DOMAIN s, n \notin DOMAIN at
      PROVE  NewIn(s, n, at, q)
  <2> DEFINE k == n - Len(at)
  <2>1. k \in 1 .. Len(w) /\ n = Len(at) + k /\ n \in Nat /\ Len(at) <= n
    BY <1>5, <1>6
  <2> HIDE DEF k
  <2>2. PICK i \in 1 .. Len(q) :
            /\ w[k] = q[i] /\ q[i] \notin ToSet(at)
            /\ \A j \in 1 .. i : q[j] \notin ToSet(at) => \E m \in 1 .. k : w[m] = q[j]
    BY <1>2, <2>1
  <2>3. ASSUME NEW j \in 1 .. i
        PROVE  \E m \in 1 .. n : s[m] = q[j]
    <3>1. CASE q[j] \in ToSet(at)
      <4>1. PICK m \in 1 .. Len(at) : at[m] = q[j]
        BY <1>5, <3>1 DEF ToSet
      <4>2. m \in 1 .. n /\ s[m] = at[m]
        BY <1>4, <1>5, <2>1
      <4> QED
        BY <4>1, <4>2
    <3>2. CASE q[j] \notin ToSet(at)
      <4>1. PICK m \in 1 .. k : w[m] = q[j]
        BY <2>2, <3>2
      <4>2. m \in 1 .. Len(w) /\ Len(at) + m \in 1 .. n
        BY <1>5, <2>1
      <4>3. s[Len(at) + m] = w[m]
        BY <1>4, <4>2
      <4> QED
        BY <4>1, <4>2, <4>3
    <3> QED
      BY <3>1, <3>2
  <2>4. s[n] = q[i]
    BY <1>4, <2>1, <2>2
  <2> QED
    BY <2>2, <2>3, <2>4 DEF NewIn
<1>7. ASSUME NEW n \in DOMAIN at
      PROVE  \A m \in 1 .. n : s[m] = at[m]
  BY <1>4, <1>5
<1>8. ToSet(at) \cup ToSet(w) = ToSet(at) \cup ToSet(q)
  BY <1>1
<1>9. \A n \in DOMAIN s : (n \in DOMAIN at /\ \A m \in 1 .. n : s[m] = at[m]) \/ NewIn(s, n, at, q)
  BY <1>6, <1>7
<1>10. \A m \in DOMAIN at : s[m] = at[m]
  BY <1>4, <1>5
<1> QED
  BY <1>3, <1>4, <1>8, <1>9, <1>10

(* Unit for either kind of inner client. *)
Carries(b, q) == IF b \/ q = <<>> THEN q ELSE <<Head(q)>>

LEMMA UnitCarries == \A q : Unit(q) = Carries(batches, q)
BY DEF Unit, Carries

(* What one call carries and what stays behind it. *)
LEMMA UnitFacts ==
    ASSUME NEW b \in BOOLEAN, NEW R, NEW q \in Seq(R)
    PROVE  LET u == Carries(b, q)
               rest == SubSeq(q, Len(u) + 1, Len(q))
           IN /\ u \in Seq(R) /\ rest \in Seq(R)
              /\ ToSet(q) = ToSet(u) \cup ToSet(rest)
              /\ u = <<>> <=> q = <<>>
              /\ b => u = q /\ rest = <<>>
              /\ q # <<>> /\ ~b => u = <<Head(q)>> /\ q = u \o rest
<1> DEFINE u == Carries(b, q)
           rest == SubSeq(q, Len(u) + 1, Len(q))
<1>1. Len(q) \in Nat
  OBVIOUS
<1>2. CASE b \/ q = <<>>
  <2>1. u = q
    BY <1>2 DEF Carries
  <2>2. rest = <<>>
    BY <1>1, <2>1
  <2>3. ToSet(<<>>) = {} /\ <<>> \in Seq(R)
    BY EmptySeq DEF ToSet
  <2> QED
    BY <1>2, <2>1, <2>2, <2>3
<1>3. CASE ~b /\ q # <<>>
  <2>1. u = <<Head(q)>>
    BY <1>3 DEF Carries
  <2>2. Len(q) >= 1 /\ Head(q) = q[1] /\ q[1] \in R
    BY <1>1, <1>3, EmptySeq, SetOfSeq
  <2>3. u \in Seq(R) /\ Len(u) = 1 /\ u[1] = q[1] /\ u # <<>>
    BY <2>1, <2>2
  <2> HIDE DEF u
  <2>4. /\ rest \in Seq(R) /\ Len(rest) = Len(q) - 1
        /\ \A i \in 1 .. Len(q) - 1 : rest[i] = q[i + 1]
    BY <1>1, <2>2, <2>3
  <2> HIDE DEF rest
  <2> DEFINE c == u \o rest
  <2>5. /\ c \in Seq(R) /\ ToSet(c) = ToSet(u) \cup ToSet(rest) /\ Len(c) = Len(u) + Len(rest)
        /\ \A i \in 1 .. Len(u) : c[i] = u[i]
        /\ \A i \in 1 .. Len(rest) : c[Len(u) + i] = rest[i]
    <3>1. u \in Seq(R) /\ rest \in Seq(R)
      BY <2>3, <2>4
    <3> QED
      BY <3>1, SetOfConcat
  <2> HIDE DEF c
  <2>6. Len(c) = Len(q)
    BY <1>1, <2>3, <2>4, <2>5
  <2>7. ASSUME NEW i \in 1 .. Len(q) PROVE c[i] = q[i]
    <3>1. CASE i = 1
      BY <2>3, <2>5, <3>1
    <3>2. CASE i # 1
      <4>1. i - 1 \in 1 .. Len(q) - 1 /\ i - 1 + 1 = i /\ 1 + (i - 1) = i
        BY <1>1, <3>2
      <4>2. rest[i - 1] = q[i]
        BY <2>4, <4>1
      <4>3. c[Len(u) + (i - 1)] = rest[i - 1]
        BY <2>4, <2>5, <4>1
      <4> QED
        BY <2>3, <4>1, <4>2, <4>3
    <3> QED
      BY <3>1, <3>2
  <2>8. c = q
    BY <2>5, <2>6, <2>7, SeqEqual
  <2> QED
    BY <1>3, <2>1, <2>3, <2>4, <2>5, <2>8 DEF c, u, rest
<1> QED
  BY <1>2, <1>3

-------------------------------------------------------------------------------
(* Steps *)

Jobs == [pending : Seq(Record), failed : Seq(Record), tries : Nat, own : 0 .. MaxRecords]

Places == {"none", "waiting", "idle", "passing", "sending", "closing", "closed"}

Types ==
    /\ batches \in BOOLEAN
    /\ kinds \in Seq({"auto", "other"}) /\ Len(kinds) <= MaxRecords
    /\ buffer \in Seq(Record)
    /\ closed \in BOOLEAN
    /\ pc \in [Flusher -> Places]
    /\ job \in [Flusher -> Jobs]
    /\ attempted \in Seq(Record)

(* The records of a flush. *)
Holds(j) == ToSet(j.pending) \cup ToSet(j.failed)

(* The records that are seen first with own, the envelope behind a flush.    *)
SeenOwn(own) == IF own = 0 THEN attempted ELSE Seen(attempted, <<own>>)

(* A record is buffered. *)
Enqueues ==
    /\ kinds' = Append(kinds, "auto") /\ Len(kinds) < MaxRecords
    /\ buffer' = Append(buffer, Len(kinds) + 1)
    /\ pc' = [pc EXCEPT ![Loop] = StartLoop]
    /\ UNCHANGED <<batches, closed, job, attempted, stored, refused, cancelled, handedOver>>

(* f takes q, the buffer and perhaps a new record, into a flush with own     *)
(* behind it.                                                                *)
Drains(f, q, own) ==
    \E j \in Jobs :
        /\ pc[f] # "sending"
        /\ j.pending = q /\ j.failed = <<>> /\ j.own = own
        /\ buffer' = <<>>
        /\ job' = [job EXCEPT ![f] = j]
        /\ pc' = [pc EXCEPT ![Loop] = StartLoop, ![f] = IF q = <<>> THEN Resumed(f, own) ELSE "sending"]
        /\ attempted' = IF q = <<>> THEN SeenOwn(own) ELSE Seen(attempted, Carries(batches, q))
        /\ UNCHANGED <<batches, closed, stored, refused, cancelled, handedOver>>

TakesBuffer(f) ==
    /\ \/ f = Loop /\ pc[Loop] = "waiting" /\ ~closed
       \/ f = Closer /\ pc[Closer] = "closing"
    /\ kinds' = kinds
    /\ Drains(f, buffer, 0)

TakesNew(f) ==
    /\ f \in Task /\ pc[f] = "idle"
    /\ kinds' = Append(kinds, "auto") /\ Len(kinds) < MaxRecords
    /\ Drains(f, Append(buffer, Len(kinds) + 1), 0)

TakesAhead(f) ==
    /\ f \in Task /\ pc[f] = "idle"
    /\ kinds' = Append(kinds, "other") /\ Len(kinds) < MaxRecords
    /\ Drains(f, buffer, Len(kinds) + 1)

(* The inner call of f stored S and refused N for good, and f now has j.     *)
Answers(f, j, S, N) ==
    /\ pc[f] = "sending"
    /\ stored' = stored \cup S /\ refused' = refused \cup N
    /\ job' = [job EXCEPT ![f] = j]
    /\ j.own = job[f].own
    /\ UNCHANGED <<batches, kinds, closed, cancelled, handedOver>>

Retries(f) ==
    \E j \in Jobs, S, N \in SUBSET ToSet(Carries(batches, job[f].pending)) :
        /\ Answers(f, j, S, N)
        /\ j.pending # <<>> /\ j.failed = job[f].failed
        /\ Holds(j) \subseteq Holds(job[f])
        /\ Holds(job[f]) \ Holds(j) \subseteq S \cup N
        /\ ToSet(Carries(batches, j.pending)) \subseteq ToSet(Carries(batches, job[f].pending))
        /\ UNCHANGED <<buffer, pc, attempted>>

Continues(f) ==
    \E j \in Jobs, S, N \in SUBSET ToSet(Carries(batches, job[f].pending)) :
        /\ Answers(f, j, S, N)
        /\ j.pending # <<>> /\ ~batches
        /\ ToSet(j.failed) \subseteq ToSet(job[f].failed) \cup ToSet(Carries(batches, job[f].pending))
        /\ Holds(j) \subseteq Holds(job[f])
        /\ Holds(job[f]) \ Holds(j) \subseteq S \cup N
        /\ attempted' = Seen(attempted, Carries(batches, j.pending))
        /\ UNCHANGED <<buffer, pc>>

Finishes(f) ==
    \E j \in Jobs, S, N \in SUBSET ToSet(Carries(batches, job[f].pending)), fail \in Seq(Record) :
        /\ Answers(f, j, S, N)
        /\ j.pending = <<>> /\ j.failed = <<>>
        /\ ToSet(fail) \subseteq ToSet(job[f].failed) \cup ToSet(Carries(batches, job[f].pending))
        /\ Holds(job[f]) \ ToSet(fail) \subseteq S \cup N
        /\ buffer' = fail \o buffer
        /\ attempted' = SeenOwn(job[f].own)
        /\ pc' = [pc EXCEPT ![f] = Resumed(f, job[f].own)]

(* f lets go of its flush. *)
Drops(f) ==
    \E S \in SUBSET ToSet(Carries(batches, job[f].pending)) :
        /\ stored' = stored \cup S
        /\ cancelled' = cancelled \cup Holds(job[f])
        /\ job' = [job EXCEPT ![f] = NoJob]
        /\ UNCHANGED <<batches, kinds, buffer, attempted, refused>>

LEMMA NoJobType ==
    /\ NoJob \in Jobs
    /\ \A own \in 0 .. MaxRecords : [NoJob EXCEPT !.own = own] \in Jobs
<1>1. <<>> \in Seq(Record)
  BY EmptySeq
<1>2. 0 \in Nat /\ 0 \in 0 .. MaxRecords
  BY BufferAssumption
<1>3. NoJob \in Jobs
  BY <1>1, <1>2 DEF NoJob, Jobs
<1>4. ASSUME NEW own \in 0 .. MaxRecords
      PROVE  [NoJob EXCEPT !.own = own] \in Jobs
  <2>1. [NoJob EXCEPT !.own = own] = [pending |-> <<>>, failed |-> <<>>, tries |-> 0, own |-> own]
    BY DEF NoJob
  <2> QED
    BY <1>1, <1>2, <2>1 DEF Jobs
<1> QED
  BY <1>3, <1>4

LEMMA JobFacts ==
    ASSUME Types, NEW f \in Flusher
    PROVE  /\ job[f] \in Jobs
           /\ job[f].pending \in Seq(Record) /\ job[f].failed \in Seq(Record)
           /\ job[f].tries \in Nat /\ job[f].own \in 0 .. MaxRecords
BY DEF Types, Jobs

LEMMA NewRecord ==
    ASSUME Types, Len(kinds) < MaxRecords
    PROVE  Len(kinds) \in Nat /\ Len(kinds) + 1 \in Record /\ Len(kinds) + 1 \in 0 .. MaxRecords
BY BufferAssumption DEF Types, Record

LEMMA FlushDrains ==
    ASSUME Types, NEW f \in Flusher, NEW q \in Seq(Record), NEW own \in 0 .. MaxRecords,
           Flush(f, q, own), pc[f] # "sending",
           UNCHANGED <<batches, closed, stored, refused, cancelled, handedOver>>
    PROVE  Drains(f, q, own)
<1>1. CASE q = <<>>
  <2> DEFINE j == [NoJob EXCEPT !.own = own]
  <2>1. j \in Jobs
    BY NoJobType
  <2>2. j.pending = <<>> /\ j.failed = <<>> /\ j.own = own
    BY DEF NoJob
  <2>3. /\ buffer' = <<>> /\ job' = [job EXCEPT ![f] = j]
        /\ pc' = [pc EXCEPT ![Loop] = StartLoop, ![f] = Resumed(f, own)]
        /\ attempted' = SeenOwn(own)
    BY <1>1 DEF Flush, SeenOwn
  <2> HIDE DEF j
  <2> QED
    BY <1>1, <2>1, <2>2, <2>3 DEF Drains
<1>2. CASE q # <<>>
  <2> DEFINE j == [pending |-> q, failed |-> <<>>, tries |-> 1, own |-> own]
  <2>0. <<>> \in Seq(Record)
    BY EmptySeq
  <2>1. j \in Jobs /\ j.pending = q /\ j.failed = <<>> /\ j.own = own
    BY <2>0 DEF Jobs
  <2>3. /\ buffer' = <<>> /\ job' = [job EXCEPT ![f] = j]
        /\ pc' = [pc EXCEPT ![Loop] = StartLoop, ![f] = "sending"]
        /\ attempted' = Seen(attempted, Carries(batches, q))
    BY <1>2, UnitCarries DEF Flush
  <2> HIDE DEF j
  <2> QED
    BY <1>2, <2>1, <2>3 DEF Drains
<1> QED
  BY <1>1, <1>2

(* The first record of what is left to send is of the call that failed. *)
LEMMA RetryCarries ==
    ASSUME NEW b \in BOOLEAN, NEW R, NEW left \in Seq(R), NEW rest \in Seq(R),
           left # <<>>, b => rest = <<>>
    PROVE  left \o rest # <<>> /\ ToSet(Carries(b, left \o rest)) \subseteq ToSet(left)
<1> DEFINE c == left \o rest
<1>1. /\ c \in Seq(R) /\ ToSet(c) = ToSet(left) \cup ToSet(rest) /\ Len(c) = Len(left) + Len(rest)
      /\ \A i \in 1 .. Len(left) : c[i] = left[i]
  BY SetOfConcat
<1> HIDE DEF c
<1>2. Len(left) \in Nat \ {0} /\ Len(rest) \in Nat
  BY EmptySeq
<1>3. c[1] = left[1] /\ left[1] \in ToSet(left) /\ c # <<>> /\ Len(c) >= 1
  <2>1. 1 \in 1 .. Len(left)
    BY <1>2
  <2>2. Len(c) >= 1
    BY <1>1, <1>2
  <2>3. c # <<>>
    BY <2>2
  <2> QED
    BY <1>1, <2>1, <2>2, <2>3, SetOfSeq
<1>4. CASE b
  <2>1. Carries(b, c) = c
    BY <1>4 DEF Carries
  <2>2. ToSet(rest) = {}
    BY <1>4, SetOfSeq
  <2> QED
    BY <1>1, <1>3, <2>1, <2>2 DEF c
<1>5. CASE ~b
  <2>1. Carries(b, c) = <<c[1]>>
    BY <1>1, <1>3, <1>5 DEF Carries
  <2>2. ToSet(<<c[1]>>) = {c[1]}
    BY DEF ToSet
  <2> QED
    BY <1>3, <2>1, <2>2 DEF c
<1> QED
  BY <1>4, <1>5

LEMMA AnswerKinds ==
    ASSUME Types, NEW f \in Flusher, Answer(f)
    PROVE  Retries(f) \/ Continues(f) \/ Finishes(f)
<1> DEFINE q == job[f].pending
           unit == Unit(q)
           rest == SubSeq(q, Len(unit) + 1, Len(q))
           old == job[f]
<1>0. pc[f] = "sending" /\ UNCHANGED <<batches, kinds, closed, cancelled, handedOver>>
  BY DEF Answer
<1>1. batches \in BOOLEAN /\ q \in Seq(Record) /\ old.failed \in Seq(Record)
      /\ old.tries \in Nat /\ old.own \in 0 .. MaxRecords /\ old \in Jobs
      /\ job \in [Flusher -> Jobs]
  BY JobFacts DEF Types
<1>2. /\ unit \in Seq(Record) /\ rest \in Seq(Record)
      /\ ToSet(q) = ToSet(unit) \cup ToSet(rest)
      /\ batches => rest = <<>>
  <2>1. unit = Carries(batches, q)
    BY UnitCarries
  <2> HIDE DEF q, unit
  <2> QED
    BY <1>1, <2>1, UnitFacts
<1>3. unit = Carries(batches, q)
  BY UnitCarries
<1>4. PICK ok \in SUBSET ToSet(unit) : \E no \in SUBSET (ToSet(unit) \ ok) :
            LET left == Unsent(ok, no, unit)
                fail == old.failed \o left
            IN /\ \E landed \in SUBSET ToSet(left) : stored' = stored \cup ok \cup landed
               /\ refused' = refused \cup no
               /\ \/ /\ left # <<>> /\ MayRetry(old.tries)
                     /\ job' = [job EXCEPT ![f].pending = left \o rest, ![f].tries = @ + 1]
                     /\ UNCHANGED <<buffer, pc, attempted>>
                  \/ /\ left = <<>> \/ ~MayRetry(old.tries)
                     /\ rest # <<>>
                     /\ job' = [job EXCEPT ![f] =
                                   [@ EXCEPT !.pending = rest, !.failed = fail, !.tries = 1]]
                     /\ attempted' = Seen(attempted, Unit(rest))
                     /\ UNCHANGED <<buffer, pc>>
                  \/ /\ left = <<>> \/ ~MayRetry(old.tries)
                     /\ rest = <<>>
                     /\ EndFlush(f, fail)
  BY DEF Answer
<1>5. PICK no \in SUBSET (ToSet(unit) \ ok) :
            LET left == Unsent(ok, no, unit)
                fail == old.failed \o left
            IN /\ \E landed \in SUBSET ToSet(left) : stored' = stored \cup ok \cup landed
               /\ refused' = refused \cup no
               /\ \/ /\ left # <<>> /\ MayRetry(old.tries)
                     /\ job' = [job EXCEPT ![f].pending = left \o rest, ![f].tries = @ + 1]
                     /\ UNCHANGED <<buffer, pc, attempted>>
                  \/ /\ left = <<>> \/ ~MayRetry(old.tries)
                     /\ rest # <<>>
                     /\ job' = [job EXCEPT ![f] =
                                   [@ EXCEPT !.pending = rest, !.failed = fail, !.tries = 1]]
                     /\ attempted' = Seen(attempted, Unit(rest))
                     /\ UNCHANGED <<buffer, pc>>
                  \/ /\ left = <<>> \/ ~MayRetry(old.tries)
                     /\ rest = <<>>
                     /\ EndFlush(f, fail)
  BY <1>4
<1> DEFINE left == Unsent(ok, no, unit)
           fail == old.failed \o left
<1> HIDE DEF unit, rest
<1>6. left \in Seq(Record) /\ ToSet(left) = ToSet(unit) \ (ok \cup no)
  BY <1>2, WithoutSet DEF Unsent
<1> HIDE DEF left
<1>7. fail \in Seq(Record) /\ ToSet(fail) = ToSet(old.failed) \cup ToSet(left)
  BY <1>1, <1>6, SetOfConcat
<1>8. PICK landed \in SUBSET ToSet(left) : stored' = stored \cup ok \cup landed
  BY <1>5 DEF left
<1> DEFINE S == ok \cup landed
<1>9. /\ S \in SUBSET ToSet(unit) /\ no \in SUBSET ToSet(unit)
      /\ stored' = stored \cup S /\ refused' = refused \cup no
  BY <1>5, <1>6, <1>8
<1>10. Holds(old) = ToSet(unit) \cup ToSet(rest) \cup ToSet(old.failed)
  BY <1>2 DEF Holds
<1>11. CASE /\ left # <<>> /\ MayRetry(old.tries)
            /\ job' = [job EXCEPT ![f].pending = left \o rest, ![f].tries = @ + 1]
            /\ UNCHANGED <<buffer, pc, attempted>>
  <2> DEFINE j == [old EXCEPT !.pending = left \o rest, !.tries = @ + 1]
             p == left \o rest
  <2>1. p \in Seq(Record) /\ ToSet(p) = ToSet(left) \cup ToSet(rest)
    BY <1>2, <1>6, SetOfConcat
  <2>2. p # <<>> /\ ToSet(Carries(batches, p)) \subseteq ToSet(left)
    BY <1>1, <1>2, <1>6, <1>11, RetryCarries
  <2>3. job' = [job EXCEPT ![f] = j]
    BY <1>11
  <2> HIDE DEF p
  <2>4. j = [old EXCEPT !.pending = p, !.tries = old.tries + 1] /\ old.tries + 1 \in Nat
    BY <1>1 DEF p
  <2> HIDE DEF j, old
  <2>5. j \in Jobs /\ j.pending = p /\ j.failed = old.failed /\ j.own = old.own
    <3>1. old \in Jobs /\ p \in Seq(Record)
      BY <1>1, <2>1
    <3> QED
      BY <2>4, <3>1 DEF Jobs
  <2> USE DEF old
  <2>6. Holds(j) = ToSet(left) \cup ToSet(rest) \cup ToSet(old.failed)
    BY <2>1, <2>5 DEF Holds
  <2>7. Answers(f, j, S, no)
    BY <1>0, <1>9, <2>3, <2>5 DEF Answers
  <2>8. /\ Holds(j) \subseteq Holds(old) /\ Holds(old) \ Holds(j) \subseteq S \cup no
        /\ ToSet(Carries(batches, j.pending)) \subseteq ToSet(unit)
    BY <1>6, <1>10, <2>2, <2>5, <2>6
  <2> HIDE DEF S
  <2>9. Retries(f)
    BY <1>3, <1>9, <1>11, <2>2, <2>5, <2>7, <2>8 DEF Retries
  <2> QED
    BY <2>9
<1>12. CASE /\ rest # <<>>
            /\ job' = [job EXCEPT ![f] = [@ EXCEPT !.pending = rest, !.failed = fail, !.tries = 1]]
            /\ attempted' = Seen(attempted, Unit(rest))
            /\ UNCHANGED <<buffer, pc>>
  <2> DEFINE j == [old EXCEPT !.pending = rest, !.failed = fail, !.tries = 1]
  <2>3. job' = [job EXCEPT ![f] = j]
    BY <1>12
  <2> HIDE DEF fail, old
  <2>5. j \in Jobs /\ j.pending = rest /\ j.failed = fail /\ j.own = old.own
    <3>1. old \in Jobs /\ rest \in Seq(Record) /\ fail \in Seq(Record) /\ 1 \in Nat
      BY <1>1, <1>2, <1>7
    <3>2. j = [old EXCEPT !.pending = rest, !.failed = fail, !.tries = 1]
      OBVIOUS
    <3> HIDE DEF j
    <3> QED
      BY <3>1, <3>2 DEF Jobs
  <2> HIDE DEF j
  <2> USE DEF old
  <2>6. Holds(j) = ToSet(left) \cup ToSet(rest) \cup ToSet(old.failed)
    BY <1>7, <2>5 DEF Holds
  <2>7. Answers(f, j, S, no)
    BY <1>0, <1>9, <2>3, <2>5 DEF Answers
  <2>8. /\ Holds(j) \subseteq Holds(old) /\ Holds(old) \ Holds(j) \subseteq S \cup no
        /\ ToSet(j.failed) \subseteq ToSet(old.failed) \cup ToSet(unit)
    BY <1>6, <1>7, <1>10, <2>5, <2>6
  <2>9. attempted' = Seen(attempted, Carries(batches, j.pending)) /\ ~batches /\ j.pending # <<>>
    BY <1>2, <1>12, <2>5, UnitCarries
  <2> HIDE DEF S
  <2>10. Continues(f)
    BY <1>3, <1>9, <1>12, <2>5, <2>7, <2>8, <2>9 DEF Continues
  <2> QED
    BY <2>10
<1>13. CASE rest = <<>> /\ EndFlush(f, fail)
  <2> DEFINE j == [NoJob EXCEPT !.own = old.own]
  <2> HIDE DEF fail
  <2>1. /\ buffer' = fail \o buffer /\ job' = [job EXCEPT ![f] = j]
        /\ pc' = [pc EXCEPT ![f] = Resumed(f, old.own)] /\ attempted' = SeenOwn(old.own)
    BY <1>13 DEF EndFlush, Requeue, SeenOwn
  <2>2. j \in Jobs /\ j.pending = <<>> /\ j.failed = <<>> /\ j.own = old.own
    BY <1>1, NoJobType DEF NoJob
  <2> HIDE DEF j
  <2>3. Answers(f, j, S, no)
    BY <1>0, <1>9, <2>1, <2>2 DEF Answers
  <2>4. ToSet(rest) = {}
    BY <1>2, <1>13, SetOfSeq
  <2>5. /\ ToSet(fail) \subseteq ToSet(old.failed) \cup ToSet(unit)
        /\ Holds(old) \ ToSet(fail) \subseteq S \cup no
    BY <1>6, <1>7, <1>10, <2>4
  <2> HIDE DEF S
  <2>6. Finishes(f)
    BY <1>3, <1>7, <1>9, <2>1, <2>2, <2>3, <2>5 DEF Finishes
  <2> QED
    BY <2>6
<1> QED
  BY <1>5, <1>11, <1>12, <1>13 DEF left, fail

(* A task is cancelled in its flush; close() cancels the loop's. *)
Cancels(t) ==
    /\ pc[t] \in {"sending", "passing"} /\ pc' = [pc EXCEPT ![t] = "idle"]
    /\ Drops(t)
    /\ UNCHANGED <<closed, handedOver>>

Closes ==
    /\ pc[Closer] = "idle" /\ closed' = TRUE /\ handedOver' = Len(kinds)
    /\ pc' = [pc EXCEPT ![Loop] = "none",
                         ![Closer] = IF pc[Loop] = "none" THEN "closed" ELSE "closing"]
    /\ Drops(Loop)

Moves ==
    \/ Enqueues
    \/ \E f \in Flusher : TakesBuffer(f) \/ TakesNew(f) \/ TakesAhead(f)
    \/ \E f \in Flusher : Retries(f) \/ Continues(f) \/ Finishes(f)
    \/ \E t \in Task : PassthroughAnswer(t) \/ Cancels(t)
    \/ Closes
    \/ UNCHANGED vars

LEMMA Members == /\ Loop \in Flusher /\ Closer \in Flusher /\ Task \subseteq Flusher
                 /\ Loop # Closer /\ Loop \notin Task /\ Closer \notin Task
BY BufferAssumption DEF Flusher

LEMMA AbortDrops ==
    ASSUME NEW f \in Flusher, Abort(f), UNCHANGED <<batches, kinds, buffer, attempted, refused>>
    PROVE  Drops(f)
<1>1. PICK S \in SUBSET ToSet(Unit(job[f].pending)) : stored' = stored \cup S
  BY DEF Abort
<1>2. S \in SUBSET ToSet(Carries(batches, job[f].pending))
  BY <1>1, UnitCarries
<1>3. cancelled' = cancelled \cup Holds(job[f]) /\ job' = [job EXCEPT ![f] = NoJob]
  BY DEF Abort, Holds
<1> QED
  BY <1>1, <1>2, <1>3 DEF Drops

(* Every step is one of these kinds. *)
LEMMA StepKinds ==
    ASSUME Types, [Next]_vars
    PROVE  Moves
<1>0. buffer \in Seq(Record) /\ 0 \in 0 .. MaxRecords
  BY BufferAssumption DEF Types
<1>1. CASE LoopFlush
  <2>1. pc[Loop] = "waiting" /\ ~closed /\ Flush(Loop, buffer, 0) /\ kinds' = kinds
        /\ UNCHANGED <<batches, closed, stored, refused, cancelled, handedOver>>
    BY <1>1 DEF LoopFlush
  <2>2. Drains(Loop, buffer, 0)
    BY <1>0, <2>1, FlushDrains, Members
  <2>3. TakesBuffer(Loop)
    BY <2>1, <2>2, Zenon DEF TakesBuffer
  <2> QED
    BY <2>3, Members DEF Moves
<1>2. CASE CloseFlush
  <2>1. pc[Closer] = "closing" /\ Flush(Closer, buffer, 0) /\ kinds' = kinds
        /\ UNCHANGED <<batches, closed, stored, refused, cancelled, handedOver>>
    BY <1>2 DEF CloseFlush
  <2>2. Drains(Closer, buffer, 0)
    BY <1>0, <2>1, FlushDrains, Members
  <2>3. TakesBuffer(Closer)
    BY <2>1, <2>2, Zenon DEF TakesBuffer
  <2> QED
    BY <2>3, Members DEF Moves
<1>3. CASE Close
  <2>1. Drops(Loop)
    BY <1>3, AbortDrops, Members DEF Close
  <2> QED
    BY <1>3, <2>1 DEF Moves, Closes, Close
<1>4. ASSUME NEW f \in Flusher, Answer(f)
      PROVE  Moves
  BY <1>4, AnswerKinds DEF Moves
<1>5. ASSUME NEW t \in Task, Buffer(t)
      PROVE  Moves
  <2>1. /\ pc[t] = "idle" /\ Len(kinds) < MaxRecords /\ kinds' = Append(kinds, "auto")
        /\ UNCHANGED <<batches, closed, stored, refused, cancelled, handedOver>>
    BY <1>5 DEF Buffer
  <2>2. /\ Len(kinds') = Len(kinds) + 1 /\ Len(kinds) + 1 \in Record
    <3>1. kinds \in Seq({"auto", "other"}) /\ "auto" \in {"auto", "other"}
      BY DEF Types
    <3> QED
      BY <2>1, <3>1, NewRecord, SetOfAppend
  <2> DEFINE q == Append(buffer, Len(kinds) + 1)
  <2>3. q \in Seq(Record)
    BY <1>0, <2>2, SetOfAppend
  <2>4. \/ Flush(t, q, 0)
        \/ /\ buffer' = q
           /\ pc' = [pc EXCEPT ![Loop] = StartLoop]
           /\ UNCHANGED <<job, attempted>>
    BY <1>5, <2>2 DEF Buffer
  <2>5. CASE Flush(t, q, 0)
    <3> HIDE DEF q
    <3>1. Drains(t, q, 0)
      BY <1>0, <2>1, <2>3, <2>5, FlushDrains, Members
    <3> QED
      BY <2>1, <3>1, Members DEF Moves, TakesNew, q
  <2>6. CASE /\ buffer' = q
             /\ pc' = [pc EXCEPT ![Loop] = StartLoop]
             /\ UNCHANGED <<job, attempted>>
    BY <2>1, <2>6 DEF Moves, Enqueues
  <2> QED
    BY <2>4, <2>5, <2>6
<1>6. ASSUME NEW t \in Task, Passthrough(t)
      PROVE  Moves
  <2>1. /\ pc[t] = "idle" /\ Len(kinds) < MaxRecords /\ kinds' = Append(kinds, "other")
        /\ Flush(t, buffer, Len(kinds'))
        /\ UNCHANGED <<batches, closed, stored, refused, cancelled, handedOver>>
    BY <1>6 DEF Passthrough
  <2>2. Len(kinds') = Len(kinds) + 1 /\ Len(kinds) + 1 \in 0 .. MaxRecords
    <3>1. kinds \in Seq({"auto", "other"}) /\ "other" \in {"auto", "other"}
      BY DEF Types
    <3> QED
      BY <2>1, <3>1, NewRecord, SetOfAppend
  <2>3. Drains(t, buffer, Len(kinds) + 1)
    BY <1>0, <2>1, <2>2, FlushDrains, Members
  <2> QED
    BY <2>1, <2>3, Members DEF Moves, TakesAhead
<1>7. ASSUME NEW t \in Task, CancelTask(t)
      PROVE  Moves
  <2>1. Drops(t)
    BY <1>7, AbortDrops, Members DEF CancelTask
  <2> QED
    BY <1>7, <2>1 DEF Moves, Cancels, CancelTask
<1>8. ASSUME NEW t \in Task, PassthroughAnswer(t)
      PROVE  Moves
  BY <1>8 DEF Moves
<1>9. CASE UNCHANGED vars
  BY <1>9 DEF Moves
<1> QED
  BY <1>1, <1>2, <1>3, <1>4, <1>5, <1>6, <1>7, <1>8, <1>9 DEF Next

-------------------------------------------------------------------------------
(* What the kinds of steps change *)

LEMMA ResumedPlace ==
    ASSUME NEW f \in Flusher, NEW own
    PROVE  /\ Resumed(f, own) \in Places /\ Resumed(f, own) # "sending"
           /\ f = Closer => Resumed(f, own) = "closed"
           /\ f = Loop => Resumed(f, own) = "waiting"
BY BufferAssumption DEF Resumed, Flusher, Places

(* The records first seen at the start of a flush of q with own behind it.   *)
First(b, q, own) ==
    IF q # <<>> THEN ToSet(Carries(b, q)) ELSE IF own = 0 THEN {} ELSE {own}

LEMMA OwnSeen ==
    ASSUME Types, NEW own \in 0 .. MaxRecords
    PROVE  /\ SeenOwn(own) \in Seq(Record)
           /\ ToSet(SeenOwn(own)) = ToSet(attempted) \cup (IF own = 0 THEN {} ELSE {own})
<1>1. attempted \in Seq(Record)
  BY DEF Types
<1>2. CASE own = 0
  BY <1>1, <1>2 DEF SeenOwn
<1>3. CASE own # 0
  <2>1. own \in Record
    BY <1>3, BufferAssumption DEF Record
  <2>2. <<own>> \in Seq(Record) /\ ToSet(<<own>>) = {own}
    BY <2>1 DEF ToSet
  <2>3. SeenOwn(own) = Seen(attempted, <<own>>)
    BY <1>3 DEF SeenOwn
  <2>4. /\ Seen(attempted, <<own>>) \in Seq(Record)
        /\ ToSet(Seen(attempted, <<own>>)) = ToSet(attempted) \cup ToSet(<<own>>)
    BY <1>1, <2>2, SeenFacts
  <2> QED
    BY <1>3, <2>2, <2>3, <2>4
<1> QED
  BY <1>2, <1>3

LEMMA StartFacts ==
    ASSUME Types
    PROVE  /\ StartLoop \in Places
           /\ StartLoop = "sending" <=> pc[Loop] = "sending"
           /\ StartLoop = "none" => pc[Loop] = "none" /\ closed
BY Members DEF Types, StartLoop, Places

LEMMA DrainFacts ==
    ASSUME Types, NEW f \in Flusher, NEW q \in Seq(Record), NEW own \in 0 .. MaxRecords,
           Drains(f, q, own)
    PROVE  /\ job' \in [Flusher -> Jobs] /\ \A g \in Flusher \ {f} : job'[g] = job[g]
           /\ job'[f].pending = q /\ job'[f].failed = <<>> /\ job'[f].own = own
           /\ Holds(job'[f]) = ToSet(q)
           /\ buffer' = <<>> /\ ToSet(buffer') = {}
           /\ pc' \in [Flusher -> Places] /\ \A g \in Flusher \ {f, Loop} : pc'[g] = pc[g]
           /\ pc'[f] = IF q = <<>> THEN Resumed(f, own) ELSE "sending"
           /\ f # Loop => pc'[Loop] = StartLoop
           /\ attempted' \in Seq(Record)
           /\ ToSet(attempted') = ToSet(attempted) \cup First(batches, q, own)
           /\ UNCHANGED <<batches, closed, stored, refused, cancelled, handedOver>>
<1>1. PICK j \in Jobs :
        /\ pc[f] # "sending"
        /\ j.pending = q /\ j.failed = <<>> /\ j.own = own
        /\ buffer' = <<>>
        /\ job' = [job EXCEPT ![f] = j]
        /\ pc' = [pc EXCEPT ![Loop] = StartLoop, ![f] = IF q = <<>> THEN Resumed(f, own) ELSE "sending"]
        /\ attempted' = IF q = <<>> THEN SeenOwn(own) ELSE Seen(attempted, Carries(batches, q))
        /\ UNCHANGED <<batches, closed, stored, refused, cancelled, handedOver>>
  BY DEF Drains
<1>2. job \in [Flusher -> Jobs] /\ pc \in [Flusher -> Places] /\ attempted \in Seq(Record)
      /\ batches \in BOOLEAN
  BY DEF Types
<1>3. /\ job' \in [Flusher -> Jobs] /\ job'[f] = j /\ \A g \in Flusher \ {f} : job'[g] = job[g]
  BY <1>1, <1>2
<1>4. ToSet(<<>>) = {} /\ Holds(j) = ToSet(q)
  <2>1. ToSet(<<>>) = {}
    BY DEF ToSet
  <2> QED
    BY <1>1, <2>1 DEF Holds
<1>5. /\ pc' \in [Flusher -> Places] /\ \A g \in Flusher \ {f, Loop} : pc'[g] = pc[g]
      /\ pc'[f] = IF q = <<>> THEN Resumed(f, own) ELSE "sending"
      /\ f # Loop => pc'[Loop] = StartLoop
  <2>1. "sending" \in Places /\ Resumed(f, own) \in Places /\ StartLoop \in Places
    BY ResumedPlace, StartFacts DEF Places
  <2> QED
    BY <1>1, <1>2, <2>1, Members
<1>6. /\ attempted' \in Seq(Record)
      /\ ToSet(attempted') = ToSet(attempted) \cup First(batches, q, own)
  <2>1. CASE q = <<>>
    BY <1>1, <2>1, OwnSeen DEF First
  <2>2. CASE q # <<>>
    <3>1. Carries(batches, q) \in Seq(Record)
      BY <1>2, UnitFacts
    <3> QED
      BY <1>1, <1>2, <2>2, <3>1, SeenFacts DEF First
  <2> QED
    BY <2>1, <2>2
<1> QED
  BY <1>1, <1>3, <1>4, <1>5, <1>6

LEMMA AnswerFacts ==
    ASSUME Types, NEW f \in Flusher, NEW j \in Jobs, NEW S, NEW N, Answers(f, j, S, N)
    PROVE  /\ job' \in [Flusher -> Jobs] /\ job'[f] = j
           /\ \A g \in Flusher \ {f} : job'[g] = job[g]
BY DEF Types, Answers

LEMMA ContinueFacts ==
    ASSUME Types, NEW j \in Jobs, attempted' = Seen(attempted, Carries(batches, j.pending))
    PROVE  /\ attempted' \in Seq(Record)
           /\ ToSet(attempted') = ToSet(attempted) \cup ToSet(Carries(batches, j.pending))
<1>1. attempted \in Seq(Record) /\ batches \in BOOLEAN /\ j.pending \in Seq(Record)
  BY DEF Types, Jobs
<1>2. Carries(batches, j.pending) \in Seq(Record)
  BY <1>1, UnitFacts
<1> QED
  BY <1>1, <1>2, SeenFacts

LEMMA DropFacts ==
    ASSUME Types, NEW f \in Flusher, Drops(f)
    PROVE  /\ job' \in [Flusher -> Jobs] /\ job'[f] = NoJob /\ Holds(job'[f]) = {}
           /\ \A g \in Flusher \ {f} : job'[g] = job[g]
           /\ UNCHANGED <<batches, kinds, buffer, attempted, refused>>
<1>1. Holds(NoJob) = {}
  BY DEF Holds, NoJob, ToSet
<1>2. job' = [job EXCEPT ![f] = NoJob] /\ UNCHANGED <<batches, kinds, buffer, attempted, refused>>
  BY DEF Drops
<1> QED
  BY <1>1, <1>2, NoJobType DEF Types

-------------------------------------------------------------------------------
(* Types, and only what was handed over *)

Given == 1 .. Len(kinds)

(* Only records handed to handle() are anywhere. *)
KnownInv ==
    /\ ToSet(buffer) \subseteq Given /\ ToSet(attempted) \subseteq Given
    /\ stored \subseteq Given /\ refused \subseteq Given /\ cancelled \subseteq Given
    /\ \A f \in Flusher : Holds(job[f]) \subseteq Given /\ job[f].own \in 0 .. Len(kinds)
    /\ handedOver \in 0 .. Len(kinds)

Grown ==
    /\ kinds' \in Seq({"auto", "other"}) /\ Len(kinds') <= MaxRecords
    /\ Len(kinds) \in Nat /\ Len(kinds') \in Nat /\ Len(kinds) <= Len(kinds')
    /\ \A r \in Given : kinds'[r] = kinds[r]
    /\ Given \subseteq Given' /\ 0 .. Len(kinds) \subseteq 0 .. Len(kinds')

LEMMA KindsGrow ==
    ASSUME Types, Len(kinds) < MaxRecords, NEW k \in {"auto", "other"}, kinds' = Append(kinds, k)
    PROVE  /\ Grown /\ Len(kinds') = Len(kinds) + 1 /\ Given' = Given \cup {Len(kinds) + 1}
           /\ kinds'[Len(kinds) + 1] = k
           /\ Len(kinds) + 1 \in Record /\ Len(kinds) + 1 \in 1 .. MaxRecords
           /\ Len(kinds) + 1 \notin Given
<1>1. kinds \in Seq({"auto", "other"}) /\ Len(kinds) \in Nat /\ DOMAIN kinds = Given
  BY DEF Types, Given
<1>2. /\ kinds' \in Seq({"auto", "other"}) /\ Len(kinds') = Len(kinds) + 1
      /\ \A r \in Given : kinds'[r] = kinds[r]
      /\ kinds'[Len(kinds) + 1] = k
  BY <1>1, SetOfAppend
<1>3. /\ Len(kinds') <= MaxRecords /\ Len(kinds) <= Len(kinds')
      /\ Given' = Given \cup {Len(kinds) + 1} /\ Len(kinds) + 1 \notin Given
      /\ 0 .. Len(kinds) \subseteq 0 .. Len(kinds')
      /\ Len(kinds) + 1 \in 1 .. MaxRecords
  BY <1>1, <1>2, BufferAssumption DEF Given
<1> QED
  BY <1>1, <1>2, <1>3 DEF Grown, Record

LEMMA KindsStay ==
    ASSUME Types, kinds' = kinds
    PROVE  Grown /\ Given' = Given
<1>1. kinds \in Seq({"auto", "other"}) /\ Len(kinds) <= MaxRecords /\ Len(kinds) \in Nat
  BY DEF Types
<1>2. Given' = Given
  BY DEF Given
<1> QED
  BY <1>1, <1>2 DEF Grown

(* A flush takes the buffer and at most one record, a new one; own is new.   *)
Taken(f, q, own) ==
    /\ Drains(f, q, own)
    /\ Grown
    /\ ToSet(buffer) \subseteq ToSet(q)
    /\ ToSet(q) \subseteq ToSet(buffer) \cup (Given' \ Given)
    /\ q = buffer \/ (q = Append(buffer, Len(kinds) + 1) /\ Len(kinds) + 1 \in Record)
    /\ \A r \in Given' \ Given : ShouldBuffer(kinds'[r]) => r \in ToSet(q)
    /\ own # 0 => f \in Task /\ own \in Given' \ Given
    /\ own \in 0 .. Len(kinds')
    /\ \/ f \in Task /\ pc[f] = "idle"
       \/ f = Loop /\ pc[Loop] = "waiting" /\ ~closed /\ kinds' = kinds
       \/ f = Closer /\ pc[Closer] = "closing" /\ kinds' = kinds

LEMMA TakeFacts ==
    ASSUME Types, NEW f \in Flusher, TakesBuffer(f) \/ TakesNew(f) \/ TakesAhead(f)
    PROVE  \E q \in Seq(Record), own \in 0 .. MaxRecords : Taken(f, q, own)
<1>0. buffer \in Seq(Record) /\ 0 \in 0 .. MaxRecords
  BY BufferAssumption DEF Types
<1>1. CASE TakesBuffer(f)
  <2>1. /\ Drains(f, buffer, 0) /\ kinds' = kinds
        /\ \/ f = Loop /\ pc[Loop] = "waiting" /\ ~closed
           \/ f = Closer /\ pc[Closer] = "closing"
    BY <1>1, Zenon DEF TakesBuffer
  <2>2. Grown /\ 0 \in 0 .. Len(kinds') /\ Given' \ Given = {}
    BY <2>1, KindsStay DEF Grown
  <2>3. Taken(f, buffer, 0)
    BY <2>1, <2>2 DEF Taken
  <2> QED
    BY <1>0, <2>3
<1>2. CASE TakesNew(f)
  <2> DEFINE q == Append(buffer, Len(kinds) + 1)
  <2>1. /\ f \in Task /\ pc[f] = "idle" /\ Drains(f, q, 0)
        /\ kinds' = Append(kinds, "auto") /\ Len(kinds) < MaxRecords
    BY <1>2 DEF TakesNew
  <2>2. /\ Grown /\ Given' = Given \cup {Len(kinds) + 1} /\ Len(kinds) + 1 \in Record
        /\ Len(kinds) + 1 \notin Given
    BY <2>1, KindsGrow
  <2>3. q \in Seq(Record) /\ ToSet(q) = ToSet(buffer) \cup {Len(kinds) + 1}
    BY <1>0, <2>2, SetOfAppend
  <2> HIDE DEF q
  <2>4. 0 \in 0 .. Len(kinds')
    BY <2>2 DEF Grown
  <2>5. Taken(f, q, 0)
    BY <2>1, <2>2, <2>3, <2>4 DEF Taken, q
  <2> QED
    BY <1>0, <2>3, <2>5
<1>3. CASE TakesAhead(f)
  <2>1. /\ f \in Task /\ pc[f] = "idle" /\ Drains(f, buffer, Len(kinds) + 1)
        /\ kinds' = Append(kinds, "other") /\ Len(kinds) < MaxRecords
    BY <1>3 DEF TakesAhead
  <2>2. /\ Grown /\ Given' = Given \cup {Len(kinds) + 1} /\ Len(kinds) + 1 \in 0 .. MaxRecords
        /\ Len(kinds) + 1 \notin Given /\ Len(kinds') = Len(kinds) + 1
        /\ kinds'[Len(kinds) + 1] = "other"
    BY <2>1, KindsGrow, NewRecord
  <2>3. Len(kinds) + 1 \in 0 .. Len(kinds')
    BY <2>2 DEF Grown
  <2>4. Taken(f, buffer, Len(kinds) + 1)
    BY <2>1, <2>2, <2>3 DEF Taken, ShouldBuffer
  <2> QED
    BY <1>0, <2>2, <2>4
<1> QED
  BY <1>1, <1>2, <1>3

LEMMA InitTypes ==
    ASSUME Init
    PROVE  Types
<1>1. <<>> \in Seq(Record) /\ <<>> \in Seq({"auto", "other"}) /\ Len(<<>>) <= MaxRecords
  BY EmptySeq, BufferAssumption
<1>2. batches \in BOOLEAN /\ closed \in BOOLEAN
  BY BufferAssumption DEF Init
<1>3. pc \in [Flusher -> Places]
  BY DEF Init, Places
<1>4. job \in [Flusher -> Jobs]
  BY NoJobType DEF Init
<1> QED
  BY <1>1, <1>2, <1>3, <1>4 DEF Init, Types

LEMMA TypesStep ==
    ASSUME Types, Moves
    PROVE  Types'
<1>0. /\ batches \in BOOLEAN /\ closed \in BOOLEAN
      /\ kinds \in Seq({"auto", "other"}) /\ Len(kinds) <= MaxRecords
      /\ buffer \in Seq(Record) /\ pc \in [Flusher -> Places] /\ job \in [Flusher -> Jobs]
      /\ attempted \in Seq(Record)
  BY DEF Types
<1>1. CASE Enqueues
  <2>1. Grown /\ Len(kinds) + 1 \in Record
    BY <1>1, KindsGrow DEF Enqueues
  <2>2. buffer' \in Seq(Record)
    BY <1>0, <1>1, <2>1, SetOfAppend DEF Enqueues
  <2>3. pc' \in [Flusher -> Places]
    BY <1>0, <1>1, StartFacts DEF Enqueues
  <2> QED
    BY <1>0, <1>1, <2>1, <2>2, <2>3 DEF Types, Enqueues, Grown
<1>2. ASSUME NEW f \in Flusher, TakesBuffer(f) \/ TakesNew(f) \/ TakesAhead(f)
      PROVE  Types'
  <2>1. PICK q \in Seq(Record), own \in 0 .. MaxRecords : Taken(f, q, own)
    BY <1>2, TakeFacts
  <2>2. /\ job' \in [Flusher -> Jobs] /\ buffer' = <<>> /\ pc' \in [Flusher -> Places]
        /\ attempted' \in Seq(Record) /\ batches' = batches /\ closed' = closed
    BY <2>1, DrainFacts DEF Taken
  <2>3. buffer' \in Seq(Record) /\ kinds' \in Seq({"auto", "other"}) /\ Len(kinds') <= MaxRecords
    BY <2>1, <2>2, EmptySeq DEF Taken, Grown
  <2> QED
    BY <1>0, <2>2, <2>3 DEF Types
<1>3. ASSUME NEW f \in Flusher, Retries(f) \/ Continues(f) \/ Finishes(f)
      PROVE  Types'
  <2>1. CASE Retries(f)
    BY <1>0, <2>1, AnswerFacts DEF Retries, Answers, Types
  <2>2. CASE Continues(f)
    BY <1>0, <2>2, AnswerFacts, ContinueFacts DEF Continues, Answers, Types
  <2>3. CASE Finishes(f)
    <3>1. job' \in [Flusher -> Jobs] /\ UNCHANGED <<batches, kinds, closed>>
      BY <2>3, AnswerFacts DEF Finishes, Answers
    <3>2. attempted' \in Seq(Record)
      BY <2>3, OwnSeen, JobFacts DEF Finishes
    <3>3. buffer' \in Seq(Record)
      BY <1>0, <2>3, SetOfConcat DEF Finishes
    <3>4. pc' \in [Flusher -> Places]
      BY <1>0, <2>3, ResumedPlace DEF Finishes
    <3> QED
      BY <1>0, <3>1, <3>2, <3>3, <3>4 DEF Types
  <2> QED
    BY <1>3, <2>1, <2>2, <2>3
<1>4. ASSUME NEW t \in Task, PassthroughAnswer(t)
      PROVE  Types'
  BY <1>0, <1>4, NoJobType, Members DEF PassthroughAnswer, Types, Places
<1>5. ASSUME NEW t \in Task, Cancels(t)
      PROVE  Types'
  BY <1>0, <1>5, DropFacts, Members DEF Cancels, Types, Places
<1>6. CASE Closes
  <2>1. "none" \in Places /\ "closed" \in Places /\ "closing" \in Places
    BY DEF Places
  <2>2. pc' \in [Flusher -> Places] /\ closed' = TRUE
    BY <1>0, <1>6, <2>1 DEF Closes
  <2>3. job' \in [Flusher -> Jobs] /\ UNCHANGED <<batches, kinds, buffer, attempted>>
    BY <1>6, DropFacts, Members DEF Closes
  <2> QED
    BY <1>0, <2>2, <2>3 DEF Types
<1>7. CASE UNCHANGED vars
  BY <1>0, <1>7 DEF vars, Types
<1> QED
  BY <1>1, <1>2, <1>3, <1>4, <1>5, <1>6, <1>7 DEF Moves

LEMMA EmptyPlaces ==
    /\ ToSet(<<>>) = {} /\ Holds(NoJob) = {} /\ Len(<<>>) = 0
    /\ NoJob.pending = <<>> /\ NoJob.failed = <<>> /\ NoJob.own = 0
<1>1. ToSet(<<>>) = {} /\ NoJob.pending = <<>> /\ NoJob.failed = <<>> /\ NoJob.own = 0
  BY DEF ToSet, NoJob
<1> QED
  BY <1>1, EmptySeq DEF Holds

LEMMA InitKnown ==
    ASSUME Init
    PROVE  KnownInv
<1>1. \A f \in Flusher : job[f] = NoJob
  BY DEF Init
<1> QED
  BY <1>1, EmptyPlaces DEF Init, KnownInv, Given

LEMMA CarriesPart ==
    ASSUME NEW b \in BOOLEAN, NEW j \in Jobs
    PROVE  ToSet(Carries(b, j.pending)) \subseteq Holds(j)
<1>1. j.pending \in Seq(Record)
  BY DEF Jobs
<1>2. ToSet(Carries(b, j.pending)) \subseteq ToSet(j.pending)
  BY <1>1, UnitFacts
<1> QED
  BY <1>2 DEF Holds

LEMMA FirstPart ==
    ASSUME NEW b \in BOOLEAN, NEW q \in Seq(Record), NEW own
    PROVE  First(b, q, own) \subseteq ToSet(q) \cup (IF own = 0 THEN {} ELSE {own})
<1>1. ToSet(Carries(b, q)) \subseteq ToSet(q)
  BY UnitFacts
<1> QED
  BY <1>1 DEF First

LEMMA KnownStep ==
    ASSUME Types, KnownInv, Moves
    PROVE  KnownInv'
<1>0. /\ ToSet(buffer) \subseteq Given /\ ToSet(attempted) \subseteq Given
      /\ stored \subseteq Given /\ refused \subseteq Given /\ cancelled \subseteq Given
      /\ \A f \in Flusher : Holds(job[f]) \subseteq Given /\ job[f].own \in 0 .. Len(kinds)
      /\ handedOver \in 0 .. Len(kinds)
  BY DEF KnownInv
<1>t. batches \in BOOLEAN /\ buffer \in Seq(Record) /\ Len(kinds) \in Nat
  BY DEF Types
<1>1. CASE Enqueues
  <2>1. Grown /\ Given' = Given \cup {Len(kinds) + 1} /\ Len(kinds) + 1 \in Record
    BY <1>1, KindsGrow DEF Enqueues
  <2>2. ToSet(buffer') = ToSet(buffer) \cup {Len(kinds) + 1}
    BY <1>t, <1>1, <2>1, SetOfAppend DEF Enqueues
  <2>3. UNCHANGED <<job, attempted, stored, refused, cancelled, handedOver>>
    BY <1>1 DEF Enqueues
  <2>4. 0 .. Len(kinds) \subseteq 0 .. Len(kinds')
    BY <2>1 DEF Grown
  <2> QED
    BY <1>0, <2>1, <2>2, <2>3, <2>4 DEF KnownInv
<1>2. ASSUME NEW f \in Flusher, TakesBuffer(f) \/ TakesNew(f) \/ TakesAhead(f)
      PROVE  KnownInv'
  <2>1. PICK q \in Seq(Record), own \in 0 .. MaxRecords : Taken(f, q, own)
    BY <1>2, TakeFacts
  <2>2. /\ \A g \in Flusher \ {f} : job'[g] = job[g]
        /\ Holds(job'[f]) = ToSet(q) /\ job'[f].own = own
        /\ ToSet(buffer') = {}
        /\ ToSet(attempted') = ToSet(attempted) \cup First(batches, q, own)
        /\ UNCHANGED <<stored, refused, cancelled, handedOver>>
    BY <2>1, DrainFacts DEF Taken
  <2>3. /\ Given \subseteq Given' /\ 0 .. Len(kinds) \subseteq 0 .. Len(kinds')
        /\ ToSet(q) \subseteq Given' /\ own \in 0 .. Len(kinds')
        /\ own # 0 => own \in Given'
    BY <1>0, <2>1 DEF Taken, Grown
  <2>4. First(batches, q, own) \subseteq Given'
    BY <1>t, <2>3, FirstPart
  <2>5. \A g \in Flusher : Holds(job'[g]) \subseteq Given' /\ job'[g].own \in 0 .. Len(kinds')
    BY <1>0, <2>2, <2>3
  <2> QED
    BY <1>0, <2>2, <2>3, <2>4, <2>5 DEF KnownInv
<1>3. ASSUME NEW f \in Flusher, Retries(f) \/ Continues(f) \/ Finishes(f)
      PROVE  KnownInv'
  <2> DEFINE unit == Carries(batches, job[f].pending)
  <2>1. job[f] \in Jobs /\ ToSet(unit) \subseteq Holds(job[f]) /\ ToSet(unit) \subseteq Given
    BY <1>0, <1>t, JobFacts, CarriesPart
  <2> HIDE DEF unit
  <2>2. PICK j \in Jobs, S \in SUBSET ToSet(unit), N \in SUBSET ToSet(unit) :
            /\ Answers(f, j, S, N)
            /\ Holds(j) \subseteq Holds(job[f])
            /\ \/ UNCHANGED <<buffer, attempted>>
               \/ buffer' = buffer /\ attempted' = Seen(attempted, Carries(batches, j.pending))
               \/ /\ \E fail \in Seq(Record) : ToSet(fail) \subseteq Holds(job[f]) /\ buffer' = fail \o buffer
                  /\ attempted' = SeenOwn(job[f].own)
    <3>1. CASE Retries(f)
      BY <3>1 DEF Retries, unit
    <3>2. CASE Continues(f)
      BY <3>2 DEF Continues, unit
    <3>3. CASE Finishes(f)
      <4>1. PICK j \in Jobs, S \in SUBSET ToSet(unit), N \in SUBSET ToSet(unit), fail \in Seq(Record) :
                /\ Answers(f, j, S, N) /\ j.pending = <<>> /\ j.failed = <<>>
                /\ ToSet(fail) \subseteq ToSet(job[f].failed) \cup ToSet(unit)
                /\ buffer' = fail \o buffer /\ attempted' = SeenOwn(job[f].own)
        BY <3>3 DEF Finishes, unit
      <4>2. Holds(j) = {} /\ ToSet(job[f].failed) \subseteq Holds(job[f])
        BY <4>1, EmptyPlaces DEF Holds
      <4> QED
        BY <2>1, <4>1, <4>2
    <3> QED
      BY <1>3, <3>1, <3>2, <3>3
  <2>3. /\ job'[f] = j /\ \A g \in Flusher \ {f} : job'[g] = job[g]
        /\ j.own = job[f].own
        /\ stored' \subseteq Given /\ refused' \subseteq Given
        /\ UNCHANGED <<kinds, cancelled, handedOver>>
    BY <1>0, <2>1, <2>2, AnswerFacts DEF Answers
  <2>4. ToSet(attempted') \subseteq Given
    <3>1. CASE attempted' = attempted
      BY <1>0, <3>1
    <3>2. CASE attempted' = Seen(attempted, Carries(batches, j.pending))
      BY <1>0, <1>t, <2>2, <3>2, ContinueFacts, CarriesPart
    <3>3. CASE attempted' = SeenOwn(job[f].own)
      <4>1. job[f].own # 0 => job[f].own \in Given
        BY <1>0, <1>t DEF Given
      <4> QED
        BY <1>0, <3>3, <4>1, OwnSeen, JobFacts
    <3> QED
      BY <2>2, <3>1, <3>2, <3>3
  <2>5. ToSet(buffer') \subseteq Given
    <3>1. CASE buffer' = buffer
      BY <1>0, <3>1
    <3>2. ASSUME NEW fail \in Seq(Record), ToSet(fail) \subseteq Holds(job[f]), buffer' = fail \o buffer
          PROVE  ToSet(buffer') \subseteq Given
      BY <1>0, <1>t, <3>2, SetOfConcat
    <3> QED
      BY <2>2, <3>1, <3>2
  <2>6. \A g \in Flusher : Holds(job'[g]) \subseteq Given /\ job'[g].own \in 0 .. Len(kinds)
    BY <1>0, <2>2, <2>3
  <2>7. Given' = Given
    BY <2>3 DEF Given
  <2> QED
    BY <1>0, <2>3, <2>4, <2>5, <2>6, <2>7 DEF KnownInv
<1>4. ASSUME NEW t \in Task, PassthroughAnswer(t)
      PROVE  KnownInv'
  <2>1. /\ UNCHANGED <<kinds, buffer, attempted, stored, refused, cancelled, handedOver>>
        /\ job' = [job EXCEPT ![t] = NoJob]
    BY <1>4 DEF PassthroughAnswer
  <2>2. \A g \in Flusher : job'[g] = job[g] \/ job'[g] = NoJob
    BY <2>1 DEF Types
  <2>3. Given' = Given /\ 0 \in 0 .. Len(kinds)
    BY <1>t, <2>1 DEF Given
  <2>4. \A g \in Flusher : Holds(job'[g]) \subseteq Given /\ job'[g].own \in 0 .. Len(kinds)
    BY <1>0, <2>2, <2>3, EmptyPlaces
  <2> QED
    BY <1>0, <2>1, <2>3, <2>4 DEF KnownInv
<1>5. ASSUME NEW t \in Flusher, Drops(t), handedOver' = handedOver \/ handedOver' = Len(kinds)
      PROVE  KnownInv'
  <2>1. PICK S \in SUBSET ToSet(Carries(batches, job[t].pending)) :
            /\ stored' = stored \cup S
            /\ cancelled' = cancelled \cup Holds(job[t])
            /\ job' = [job EXCEPT ![t] = NoJob]
            /\ UNCHANGED <<batches, kinds, buffer, attempted, refused>>
    BY <1>5 DEF Drops
  <2>2. \A g \in Flusher : job'[g] = job[g] \/ job'[g] = NoJob
    BY <2>1 DEF Types
  <2>3. Given' = Given /\ 0 \in 0 .. Len(kinds) /\ Len(kinds) \in 0 .. Len(kinds)
    BY <1>t, <2>1 DEF Given
  <2>4. \A g \in Flusher : Holds(job'[g]) \subseteq Given /\ job'[g].own \in 0 .. Len(kinds)
    BY <1>0, <2>2, <2>3, EmptyPlaces
  <2>5. stored' \subseteq Given /\ cancelled' \subseteq Given
    BY <1>0, <1>t, <2>1, JobFacts, CarriesPart
  <2> QED
    BY <1>0, <1>5, <2>1, <2>3, <2>4, <2>5 DEF KnownInv
<1>6. CASE UNCHANGED vars
  BY <1>0, <1>6 DEF vars, KnownInv, Given
<1>7. ASSUME NEW t \in Task, Cancels(t)
      PROVE  KnownInv'
  BY <1>5, <1>7, Members DEF Cancels
<1>8. CASE Closes
  BY <1>5, <1>8, Members DEF Closes
<1> QED
  BY <1>1, <1>2, <1>3, <1>4, <1>6, <1>7, <1>8 DEF Moves

-------------------------------------------------------------------------------
(* Where a record is *)

(* A flusher that sends has something to send, no other one has anything;    *)
(* only a task has an envelope behind its flush.                             *)
PlaceInv ==
    /\ \A f \in Flusher : pc[f] = "sending" <=> job[f].pending # <<>>
    /\ \A f \in Flusher : pc[f] # "sending" => job[f].failed = <<>>
    /\ \A f \in Flusher \ Task : job[f].own = 0

(* A record is in the buffer or in one flush. *)
ApartInv ==
    /\ \A f, g \in Flusher : f # g => Holds(job[f]) \cap Holds(job[g]) = {}
    /\ \A f \in Flusher : Holds(job[f]) \cap ToSet(buffer) = {}

(* f changes its flush and the buffer, with records of its own, of the       *)
(* buffer or new ones.                                                       *)
Shifts(f) ==
    /\ \A g \in Flusher \ {f} : job'[g] = job[g]
    /\ Holds(job'[f]) \cup ToSet(buffer') \subseteq Holds(job[f]) \cup ToSet(buffer) \cup (Given' \ Given)
    /\ Holds(job'[f]) \cap ToSet(buffer') = {}

LEMMA ApartShift ==
    ASSUME KnownInv, ApartInv, NEW f \in Flusher, Shifts(f)
    PROVE  ApartInv'
<1>1. \A g \in Flusher \ {f} : Holds(job'[g]) = Holds(job[g]) /\ Holds(job[g]) \subseteq Given
  BY DEF Shifts, KnownInv
<1>2. \A g \in Flusher \ {f} : Holds(job[g]) \cap (Holds(job[f]) \cup ToSet(buffer) \cup (Given' \ Given)) = {}
  BY <1>1 DEF ApartInv
<1>3. \A g \in Flusher \ {f} : /\ Holds(job'[g]) \cap Holds(job'[f]) = {}
                               /\ Holds(job'[g]) \cap ToSet(buffer') = {}
  BY <1>1, <1>2 DEF Shifts
<1>4. ASSUME NEW g \in Flusher, NEW h \in Flusher, g # h
      PROVE  Holds(job'[g]) \cap Holds(job'[h]) = {}
  BY <1>1, <1>3, <1>4 DEF ApartInv
<1> QED
  BY <1>3, <1>4 DEF ApartInv, Shifts

LEMMA Shift ==
    ASSUME Types, KnownInv, ApartInv, Moves
    PROVE  \E f \in Flusher : Shifts(f)
<1>t. batches \in BOOLEAN /\ buffer \in Seq(Record) /\ Len(kinds) \in Nat
  BY DEF Types
<1>1. CASE Enqueues
  <2>1. Given' = Given \cup {Len(kinds) + 1} /\ Len(kinds) + 1 \in Record /\ Len(kinds) + 1 \notin Given
    BY <1>1, KindsGrow DEF Enqueues
  <2>2. ToSet(buffer') = ToSet(buffer) \cup {Len(kinds) + 1} /\ job' = job
    BY <1>t, <1>1, <2>1, SetOfAppend DEF Enqueues
  <2>3. Holds(job[Loop]) \subseteq Given /\ Holds(job[Loop]) \cap ToSet(buffer) = {}
    BY Members DEF KnownInv, ApartInv
  <2>4. Shifts(Loop)
    BY <2>1, <2>2, <2>3 DEF Shifts
  <2> QED
    BY <2>4, Members
<1>2. ASSUME NEW f \in Flusher, TakesBuffer(f) \/ TakesNew(f) \/ TakesAhead(f)
      PROVE  Shifts(f)
  <2>1. PICK q \in Seq(Record), own \in 0 .. MaxRecords : Taken(f, q, own)
    BY <1>2, TakeFacts
  <2>2. /\ \A g \in Flusher \ {f} : job'[g] = job[g]
        /\ Holds(job'[f]) = ToSet(q) /\ ToSet(buffer') = {}
    BY <2>1, DrainFacts DEF Taken
  <2>3. ToSet(q) \subseteq ToSet(buffer) \cup (Given' \ Given)
    BY <2>1 DEF Taken
  <2> QED
    BY <2>2, <2>3 DEF Shifts
<1>3. ASSUME NEW f \in Flusher, Retries(f) \/ Continues(f)
      PROVE  Shifts(f)
  <2> DEFINE C == SUBSET ToSet(Carries(batches, job[f].pending))
  <2>1. PICK j \in Jobs, S \in C, N \in C : Answers(f, j, S, N) /\ Holds(j) \subseteq Holds(job[f]) /\ buffer' = buffer
    <3>1. CASE Retries(f)
      BY <3>1 DEF Retries
    <3>2. CASE Continues(f)
      BY <3>2 DEF Continues
    <3> QED
      BY <1>3, <3>1, <3>2
  <2>2. job'[f] = j /\ \A g \in Flusher \ {f} : job'[g] = job[g]
    BY <2>1, AnswerFacts
  <2>3. Holds(job[f]) \cap ToSet(buffer) = {}
    BY DEF ApartInv
  <2> QED
    BY <2>1, <2>2, <2>3 DEF Shifts
<1>4. ASSUME NEW f \in Flusher, Finishes(f)
      PROVE  Shifts(f)
  <2> DEFINE unit == Carries(batches, job[f].pending)
  <2>1. ToSet(unit) \subseteq Holds(job[f])
    BY <1>t, JobFacts, CarriesPart
  <2>2. PICK j \in Jobs, S \in SUBSET ToSet(unit), N \in SUBSET ToSet(unit), fail \in Seq(Record) :
            /\ Answers(f, j, S, N) /\ j.pending = <<>> /\ j.failed = <<>>
            /\ ToSet(fail) \subseteq ToSet(job[f].failed) \cup ToSet(unit)
            /\ buffer' = fail \o buffer
    BY <1>4 DEF Finishes
  <2> HIDE DEF unit
  <2>3. job'[f] = j /\ \A g \in Flusher \ {f} : job'[g] = job[g]
    BY <2>2, AnswerFacts
  <2>4. Holds(j) = {} /\ ToSet(job[f].failed) \subseteq Holds(job[f])
    BY <2>2, EmptyPlaces DEF Holds
  <2>5. ToSet(buffer') = ToSet(fail) \cup ToSet(buffer)
    BY <1>t, <2>2, SetOfConcat
  <2> QED
    BY <2>1, <2>2, <2>3, <2>4, <2>5 DEF Shifts
<1>5. ASSUME NEW t \in Flusher, Drops(t)
      PROVE  Shifts(t)
  BY <1>5, DropFacts DEF Shifts
<1>6. ASSUME NEW t \in Task, PassthroughAnswer(t)
      PROVE  Shifts(t)
  <2>1. buffer' = buffer /\ job' = [job EXCEPT ![t] = NoJob]
    BY <1>6 DEF PassthroughAnswer
  <2>2. job'[t] = NoJob /\ \A g \in Flusher \ {t} : job'[g] = job[g]
    BY <2>1, Members DEF Types
  <2> QED
    BY <2>1, <2>2, EmptyPlaces DEF Shifts
<1>7. CASE UNCHANGED vars
  <2>1. job' = job /\ buffer' = buffer
    BY <1>7 DEF vars
  <2>2. Holds(job[Loop]) \cap ToSet(buffer) = {}
    BY Members DEF ApartInv
  <2>3. Shifts(Loop)
    BY <2>1, <2>2 DEF Shifts
  <2> QED
    BY <2>3, Members
<1>8. CASE Closes
  BY <1>5, <1>8, Members DEF Closes
<1>9. ASSUME NEW t \in Task, Cancels(t)
      PROVE  \E f \in Flusher : Shifts(f)
  BY <1>5, <1>9, Members DEF Cancels
<1> QED
  BY <1>1, <1>2, <1>3, <1>4, <1>6, <1>7, <1>8, <1>9, Members DEF Moves

LEMMA InitPlace ==
    ASSUME Init
    PROVE  PlaceInv /\ ApartInv
<1>1. \A f \in Flusher : job[f] = NoJob /\ pc[f] # "sending"
  BY DEF Init
<1> QED
  BY <1>1, EmptyPlaces DEF PlaceInv, ApartInv

LEMMA PlaceStep ==
    ASSUME Types, PlaceInv, Moves
    PROVE  PlaceInv'
<1>t. pc \in [Flusher -> Places] /\ job \in [Flusher -> Jobs]
  BY DEF Types
<1>p. /\ \A f \in Flusher : pc[f] = "sending" <=> job[f].pending # <<>>
      /\ \A f \in Flusher : pc[f] # "sending" => job[f].failed = <<>>
      /\ \A f \in Flusher \ Task : job[f].own = 0
  BY DEF PlaceInv
<1>1. CASE Enqueues
  <2>1. job' = job /\ pc' = [pc EXCEPT ![Loop] = StartLoop]
    BY <1>1 DEF Enqueues
  <2>2. \A f \in Flusher : pc'[f] = "sending" <=> pc[f] = "sending"
    BY <1>t, <2>1, StartFacts
  <2> QED
    BY <1>p, <2>1, <2>2 DEF PlaceInv
<1>2. ASSUME NEW f \in Flusher, TakesBuffer(f) \/ TakesNew(f) \/ TakesAhead(f)
      PROVE  PlaceInv'
  <2>1. PICK q \in Seq(Record), own \in 0 .. MaxRecords : Taken(f, q, own)
    BY <1>2, TakeFacts
  <2>2. /\ \A g \in Flusher \ {f} : job'[g] = job[g]
        /\ job'[f].pending = q /\ job'[f].failed = <<>> /\ job'[f].own = own
        /\ \A g \in Flusher \ {f, Loop} : pc'[g] = pc[g]
        /\ pc'[f] = IF q = <<>> THEN Resumed(f, own) ELSE "sending"
        /\ f # Loop => pc'[Loop] = StartLoop
    BY <2>1, DrainFacts DEF Taken
  <2>3. pc'[f] = "sending" <=> q # <<>>
    BY <2>2, ResumedPlace
  <2>4. \A g \in Flusher \ {f} : pc'[g] = "sending" <=> pc[g] = "sending"
    BY <2>2, StartFacts
  <2>5. f \notin Task => own = 0
    BY <2>1 DEF Taken
  <2> QED
    BY <1>p, <2>2, <2>3, <2>4, <2>5 DEF PlaceInv
<1>3. ASSUME NEW f \in Flusher, Retries(f) \/ Continues(f)
      PROVE  PlaceInv'
  <2> DEFINE C == SUBSET ToSet(Carries(batches, job[f].pending))
  <2>1. PICK j \in Jobs, S \in C, N \in C : Answers(f, j, S, N) /\ j.pending # <<>> /\ pc' = pc
    <3>1. CASE Retries(f)
      BY <3>1 DEF Retries
    <3>2. CASE Continues(f)
      BY <3>2 DEF Continues
    <3> QED
      BY <1>3, <3>1, <3>2
  <2>2. job'[f] = j /\ \A g \in Flusher \ {f} : job'[g] = job[g]
    BY <2>1, AnswerFacts
  <2>3. pc[f] = "sending" /\ j.own = job[f].own
    BY <2>1 DEF Answers
  <2> QED
    BY <1>p, <2>1, <2>2, <2>3 DEF PlaceInv
<1>4. ASSUME NEW f \in Flusher, Finishes(f)
      PROVE  PlaceInv'
  <2> DEFINE C == SUBSET ToSet(Carries(batches, job[f].pending))
  <2>1. PICK j \in Jobs, S \in C, N \in C :
            /\ Answers(f, j, S, N) /\ j.pending = <<>> /\ j.failed = <<>>
            /\ pc' = [pc EXCEPT ![f] = Resumed(f, job[f].own)]
    BY <1>4 DEF Finishes
  <2>2. job'[f] = j /\ \A g \in Flusher \ {f} : job'[g] = job[g]
    BY <2>1, AnswerFacts
  <2>3. pc'[f] # "sending" /\ \A g \in Flusher \ {f} : pc'[g] = pc[g]
    BY <1>t, <2>1, ResumedPlace
  <2>4. j.own = job[f].own
    BY <2>1 DEF Answers
  <2> QED
    BY <1>p, <2>1, <2>2, <2>3, <2>4 DEF PlaceInv
<1>5. ASSUME NEW t \in Task, PassthroughAnswer(t) \/ Cancels(t)
      PROVE  PlaceInv'
  <2>1. pc' = [pc EXCEPT ![t] = "idle"] /\ job' = [job EXCEPT ![t] = NoJob]
    BY <1>5 DEF PassthroughAnswer, Cancels, Drops
  <2>2. /\ pc'[t] = "idle" /\ job'[t] = NoJob
        /\ \A g \in Flusher \ {t} : pc'[g] = pc[g] /\ job'[g] = job[g]
    BY <1>t, <2>1, Members
  <2> QED
    BY <1>p, <2>2, EmptyPlaces DEF PlaceInv
<1>6. CASE Closes
  <2>1. /\ pc' = [pc EXCEPT ![Loop] = "none",
                             ![Closer] = IF pc[Loop] = "none" THEN "closed" ELSE "closing"]
        /\ job' = [job EXCEPT ![Loop] = NoJob] /\ pc[Closer] = "idle"
    BY <1>6 DEF Closes, Drops
  <2>2. /\ pc'[Loop] = "none" /\ pc'[Closer] # "sending" /\ pc[Closer] # "sending"
        /\ \A g \in Flusher \ {Loop, Closer} : pc'[g] = pc[g]
    BY <1>t, <2>1, Members
  <2>3. job'[Loop] = NoJob /\ \A g \in Flusher \ {Loop} : job'[g] = job[g]
    BY <1>t, <2>1, Members
  <2> QED
    BY <1>p, <2>2, <2>3, EmptyPlaces DEF PlaceInv
<1>7. CASE UNCHANGED vars
  BY <1>p, <1>7 DEF vars, PlaceInv
<1> QED
  BY <1>1, <1>2, <1>3, <1>4, <1>5, <1>6, <1>7 DEF Moves

-------------------------------------------------------------------------------
(* What was attempted *)

(* What a flush has failed to deliver, and what its call in flight carries,  *)
(* has been attempted.                                                       *)
SentInv ==
    \A f \in Flusher :
        ToSet(job[f].failed) \cup ToSet(Carries(batches, job[f].pending)) \subseteq ToSet(attempted)

LEMMA CarriesNone == \A b : Carries(b, <<>>) = <<>>
BY DEF Carries

LEMMA InitSent ==
    ASSUME Init
    PROVE  SentInv
<1>1. \A f \in Flusher : job[f] = NoJob
  BY DEF Init
<1> QED
  BY <1>1, EmptyPlaces, CarriesNone DEF SentInv

(* The attempts only grow, and the inner client stays what it is. *)
LEMMA StepFacts ==
    ASSUME Types, Moves
    PROVE  batches' = batches /\ Grown /\ ToSet(attempted) \subseteq ToSet(attempted')
<1>1. CASE Enqueues
  BY <1>1, KindsGrow DEF Enqueues
<1>2. ASSUME NEW f \in Flusher, TakesBuffer(f) \/ TakesNew(f) \/ TakesAhead(f)
      PROVE  batches' = batches /\ Grown /\ ToSet(attempted) \subseteq ToSet(attempted')
  <2>1. PICK q \in Seq(Record), own \in 0 .. MaxRecords : Taken(f, q, own)
    BY <1>2, TakeFacts
  <2> QED
    BY <2>1, DrainFacts DEF Taken
<1>3. ASSUME NEW f \in Flusher, Retries(f) \/ Continues(f) \/ Finishes(f)
      PROVE  batches' = batches /\ Grown /\ ToSet(attempted) \subseteq ToSet(attempted')
  <2>1. batches' = batches /\ kinds' = kinds
    BY <1>3 DEF Retries, Continues, Finishes, Answers
  <2>2. Grown
    BY <2>1, KindsStay
  <2>3. CASE Retries(f)
    BY <2>1, <2>2, <2>3 DEF Retries
  <2>4. CASE Continues(f)
    BY <2>1, <2>2, <2>4, ContinueFacts DEF Continues
  <2>5. CASE Finishes(f)
    BY <2>1, <2>2, <2>5, OwnSeen, JobFacts DEF Finishes
  <2> QED
    BY <1>3, <2>3, <2>4, <2>5
<1>4. ASSUME NEW t \in Task, PassthroughAnswer(t) \/ Cancels(t)
      PROVE  UNCHANGED <<batches, kinds, attempted>>
  BY <1>4 DEF PassthroughAnswer, Cancels, Drops
<1>5. CASE Closes
  BY <1>5, KindsStay DEF Closes, Drops
<1>6. CASE UNCHANGED vars
  BY <1>6, KindsStay DEF vars
<1> QED
  BY <1>1, <1>2, <1>3, <1>4, <1>5, <1>6, KindsStay DEF Moves

LEMMA SentStep ==
    ASSUME Types, SentInv, Moves
    PROVE  SentInv'
<1>a. batches' = batches /\ ToSet(attempted) \subseteq ToSet(attempted')
  BY StepFacts
<1>g. ASSUME NEW f \in Flusher, \A g \in Flusher \ {f} : job'[g] = job[g],
             ToSet(job'[f].failed) \cup ToSet(Carries(batches, job'[f].pending)) \subseteq ToSet(attempted')
      PROVE  SentInv'
  BY <1>a, <1>g DEF SentInv
<1>1. CASE Enqueues \/ UNCHANGED vars
  <2>1. job' = job
    BY <1>1 DEF Enqueues, vars
  <2> QED
    BY <1>a, <2>1 DEF SentInv
<1>2. ASSUME NEW f \in Flusher, TakesBuffer(f) \/ TakesNew(f) \/ TakesAhead(f)
      PROVE  SentInv'
  <2>1. PICK q \in Seq(Record), own \in 0 .. MaxRecords : Taken(f, q, own)
    BY <1>2, TakeFacts
  <2>2. /\ \A g \in Flusher \ {f} : job'[g] = job[g]
        /\ job'[f].pending = q /\ job'[f].failed = <<>>
        /\ ToSet(attempted') = ToSet(attempted) \cup First(batches, q, own)
    BY <2>1, DrainFacts DEF Taken
  <2>3. ToSet(Carries(batches, q)) \subseteq First(batches, q, own)
    BY EmptyPlaces, CarriesNone DEF First
  <2> QED
    BY <1>g, <2>2, <2>3, EmptyPlaces
<1>3. ASSUME NEW f \in Flusher, Retries(f) \/ Continues(f) \/ Finishes(f)
      PROVE  SentInv'
  <2> DEFINE C == SUBSET ToSet(Carries(batches, job[f].pending))
  <2>0. ToSet(job[f].failed) \cup ToSet(Carries(batches, job[f].pending)) \subseteq ToSet(attempted)
    BY DEF SentInv
  <2>1. CASE Retries(f)
    <3>1. PICK j \in Jobs, S \in C, N \in C :
              /\ Answers(f, j, S, N) /\ j.failed = job[f].failed
              /\ ToSet(Carries(batches, j.pending)) \subseteq ToSet(Carries(batches, job[f].pending))
      BY <2>1 DEF Retries
    <3> QED
      BY <1>a, <1>g, <2>0, <3>1, AnswerFacts
  <2>2. CASE Continues(f)
    <3>1. PICK j \in Jobs, S \in C, N \in C :
              /\ Answers(f, j, S, N)
              /\ ToSet(j.failed) \subseteq ToSet(job[f].failed) \cup ToSet(Carries(batches, job[f].pending))
              /\ attempted' = Seen(attempted, Carries(batches, j.pending))
      BY <2>2 DEF Continues
    <3>2. ToSet(attempted') = ToSet(attempted) \cup ToSet(Carries(batches, j.pending))
      BY <3>1, ContinueFacts
    <3> QED
      BY <1>g, <2>0, <3>1, <3>2, AnswerFacts
  <2>3. CASE Finishes(f)
    <3>1. PICK j \in Jobs, S \in C, N \in C : Answers(f, j, S, N) /\ j.pending = <<>> /\ j.failed = <<>>
      BY <2>3 DEF Finishes
    <3> QED
      BY <1>g, <3>1, AnswerFacts, EmptyPlaces, CarriesNone
  <2> QED
    BY <1>3, <2>1, <2>2, <2>3
<1>4. ASSUME NEW t \in Flusher, job' = [job EXCEPT ![t] = NoJob]
      PROVE  SentInv'
  <2>1. job'[t] = NoJob /\ \A g \in Flusher \ {t} : job'[g] = job[g]
    BY <1>4 DEF Types
  <2> QED
    BY <1>g, <2>1, EmptyPlaces, CarriesNone
<1>5. ASSUME NEW t \in Task, PassthroughAnswer(t) \/ Cancels(t)
      PROVE  SentInv'
  BY <1>4, <1>5, Members DEF PassthroughAnswer, Cancels, Drops
<1>6. CASE Closes
  BY <1>4, <1>6, Members DEF Closes, Drops
<1> QED
  BY <1>1, <1>2, <1>3, <1>5, <1>6 DEF Moves

-------------------------------------------------------------------------------
(* close() *)

(* The records handed over before close() that the buffer holds. *)
LeftOver == \A r \in 1 .. handedOver : r \in ToSet(buffer) => r \in ToSet(attempted)

(* Where close() is; without a loop nothing was handled.                     *)
CloseInv ==
    /\ closed <=> pc[Closer] # "idle"
    /\ ~closed /\ pc[Loop] = "none" => kinds = <<>>
    /\ pc[Closer] \in {"sending", "closed"} => LeftOver

LEMMA InitClose ==
    ASSUME Init
    PROVE  CloseInv
<1>1. pc[Closer] = "idle" /\ ~closed /\ kinds = <<>>
  BY Members DEF Init
<1> QED
  BY <1>1 DEF CloseInv

LEMMA CloseStep ==
    ASSUME Types, KnownInv, SentInv, CloseInv, Moves
    PROVE  CloseInv'
<1>a. batches' = batches /\ ToSet(attempted) \subseteq ToSet(attempted')
  BY StepFacts
<1>t. /\ pc \in [Flusher -> Places] /\ buffer \in Seq(Record) /\ Len(kinds) \in Nat
      /\ closed \in BOOLEAN /\ batches \in BOOLEAN
  BY DEF Types
<1>c. /\ closed <=> pc[Closer] # "idle"
      /\ ~closed /\ pc[Loop] = "none" => kinds = <<>>
      /\ pc[Closer] \in {"sending", "closed"} => LeftOver
  BY DEF CloseInv
<1>1. CASE Enqueues
  <2>1. /\ handedOver' = handedOver /\ closed' = closed /\ attempted' = attempted
        /\ buffer' = Append(buffer, Len(kinds) + 1)
        /\ pc' = [pc EXCEPT ![Loop] = StartLoop]
    BY <1>1 DEF Enqueues
  <2>2. Len(kinds) + 1 \in Record
    BY <1>1, KindsGrow DEF Enqueues
  <2>3. ToSet(buffer') = ToSet(buffer) \cup {Len(kinds) + 1}
    BY <1>t, <2>1, <2>2, SetOfAppend
  <2>4. Len(kinds) + 1 \notin 1 .. handedOver
    BY <1>t DEF KnownInv
  <2>5. LeftOver => LeftOver'
    BY <2>1, <2>3, <2>4 DEF LeftOver
  <2>6. pc'[Closer] = pc[Closer] /\ pc'[Loop] = StartLoop
    BY <1>t, <2>1, Members
  <2> QED
    BY <1>c, <2>1, <2>5, <2>6, StartFacts DEF CloseInv
<1>2. ASSUME NEW f \in Flusher, TakesBuffer(f) \/ TakesNew(f) \/ TakesAhead(f)
      PROVE  CloseInv'
  <2>1. PICK q \in Seq(Record), own \in 0 .. MaxRecords : Taken(f, q, own)
    BY <1>2, TakeFacts
  <2>2. /\ ToSet(buffer') = {} /\ closed' = closed
        /\ \A g \in Flusher \ {f, Loop} : pc'[g] = pc[g]
        /\ pc'[f] = IF q = <<>> THEN Resumed(f, own) ELSE "sending"
        /\ f # Loop => pc'[Loop] = StartLoop
    BY <2>1, DrainFacts DEF Taken
  <2>3. LeftOver'
    BY <2>2 DEF LeftOver
  <2>4. f = Closer => pc[Closer] = "closing"
    BY <2>1, Members DEF Taken
  <2>5. closed' <=> pc'[Closer] # "idle"
    BY <1>c, <2>2, <2>4, Members, ResumedPlace
  <2>6. pc'[Loop] = "none" => closed'
    <3>1. CASE f = Loop
      BY <2>2, <3>1, ResumedPlace
    <3>2. CASE f # Loop
      BY <2>2, <3>2, StartFacts
    <3> QED
      BY <3>1, <3>2
  <2> QED
    BY <2>3, <2>5, <2>6 DEF CloseInv
<1>3. ASSUME NEW f \in Flusher, Retries(f) \/ Continues(f)
      PROVE  CloseInv'
  <2>1. UNCHANGED <<pc, closed, kinds, buffer, handedOver>>
    BY <1>3 DEF Retries, Continues, Answers
  <2>2. LeftOver => LeftOver'
    BY <1>a, <2>1 DEF LeftOver
  <2> QED
    BY <1>c, <2>1, <2>2 DEF CloseInv
<1>4. ASSUME NEW f \in Flusher, Finishes(f)
      PROVE  CloseInv'
  <2>1. PICK fail \in Seq(Record) :
            /\ ToSet(fail) \subseteq ToSet(job[f].failed) \cup ToSet(Carries(batches, job[f].pending))
            /\ buffer' = fail \o buffer
            /\ pc' = [pc EXCEPT ![f] = Resumed(f, job[f].own)]
            /\ pc[f] = "sending" /\ UNCHANGED <<closed, kinds, handedOver>>
    BY <1>4 DEF Finishes, Answers
  <2>2. ToSet(fail) \subseteq ToSet(attempted)
    BY <2>1 DEF SentInv
  <2>3. ToSet(buffer') = ToSet(fail) \cup ToSet(buffer)
    BY <1>t, <2>1, SetOfConcat
  <2>4. LeftOver => LeftOver'
    BY <1>a, <2>1, <2>2, <2>3 DEF LeftOver
  <2>5. pc'[f] = Resumed(f, job[f].own) /\ \A g \in Flusher \ {f} : pc'[g] = pc[g]
    BY <1>t, <2>1
  <2>6. /\ pc'[Closer] # "idle" <=> pc[Closer] # "idle"
        /\ pc'[Closer] \in {"sending", "closed"} => pc[Closer] \in {"sending", "closed"}
    BY <2>1, <2>5, ResumedPlace, Members
  <2>7. pc'[Loop] = "none" => pc[Loop] = "none"
    BY <2>5, ResumedPlace, Members
  <2> QED
    BY <1>c, <2>1, <2>4, <2>6, <2>7 DEF CloseInv
<1>5. ASSUME NEW t \in Task, PassthroughAnswer(t) \/ Cancels(t)
      PROVE  CloseInv'
  <2>1. pc' = [pc EXCEPT ![t] = "idle"] /\ UNCHANGED <<closed, kinds, buffer, attempted, handedOver>>
    BY <1>5 DEF PassthroughAnswer, Cancels, Drops
  <2>2. pc'[Closer] = pc[Closer] /\ pc'[Loop] = pc[Loop]
    BY <1>t, <2>1, Members
  <2> QED
    BY <1>c, <2>1, <2>2 DEF CloseInv, LeftOver
<1>6. CASE Closes
  <2>1. /\ pc[Closer] = "idle" /\ closed' = TRUE /\ handedOver' = Len(kinds)
        /\ pc' = [pc EXCEPT ![Loop] = "none",
                             ![Closer] = IF pc[Loop] = "none" THEN "closed" ELSE "closing"]
    BY <1>6 DEF Closes
  <2>2. pc'[Closer] = IF pc[Loop] = "none" THEN "closed" ELSE "closing"
    BY <1>t, <2>1, Members
  <2>3. pc[Loop] = "none" => handedOver' = 0
    BY <1>c, <2>1, EmptyPlaces
  <2>4. pc[Loop] = "none" => LeftOver'
    BY <2>3 DEF LeftOver
  <2> QED
    BY <2>1, <2>2, <2>4 DEF CloseInv
<1>7. CASE UNCHANGED vars
  BY <1>c, <1>7 DEF vars, CloseInv, LeftOver
<1> QED
  BY <1>1, <1>2, <1>3, <1>4, <1>5, <1>6, <1>7 DEF Moves

-------------------------------------------------------------------------------
(* The order of the attempts *)

(* What was attempted, each action behind the ones handed over before it.    *)
Ordered(at, ks) ==
    \A n \in DOMAIN at : \A r \in 1 .. at[n] - 1 :
        ShouldBuffer(ks[r]) => \E m \in 1 .. n : at[m] = r

(* The new ones of q may follow at. *)
Follows(at, q, ks) ==
    \A i \in 1 .. Len(q) : q[i] \notin ToSet(at) =>
        \A r \in 1 .. q[i] - 1 :
            ShouldBuffer(ks[r]) => r \in ToSet(at) \/ \E j \in 1 .. i : q[j] = r

(* The records of b that are not in A, in the order of their numbers.        *)
Sorted(b, A) ==
    \A i, j \in DOMAIN b : i < j /\ b[i] \notin A /\ b[j] \notin A => b[i] < b[j]

Before(own, ks, A) == \A r \in 1 .. own - 1 : ShouldBuffer(ks[r]) => r \in A

OrderInv ==
    batches =>
        /\ Sorted(buffer, ToSet(attempted))
        /\ \A r \in Given : ShouldBuffer(kinds[r]) => r \in ToSet(attempted) \cup ToSet(buffer)
        /\ \A f \in Flusher : Before(job[f].own, kinds, ToSet(attempted))
        /\ Ordered(attempted, kinds)

LEMMA OrderedSeen ==
    ASSUME NEW at \in Seq(Record), NEW q \in Seq(Record), NEW ks,
           Ordered(at, ks), Follows(at, q, ks)
    PROVE  Ordered(Seen(at, q), ks)
<1> DEFINE s == Seen(at, q)
<1>1. /\ s \in Seq(Record)
      /\ \A n \in DOMAIN s : \/ n \in DOMAIN at /\ \A m \in 1 .. n : s[m] = at[m]
                             \/ NewIn(s, n, at, q)
      /\ \A m \in DOMAIN at : s[m] = at[m]
  BY SeenFacts
<1> HIDE DEF s
<1>2. Len(at) \in Nat /\ DOMAIN at = 1 .. Len(at) /\ Len(s) \in Nat /\ DOMAIN s = 1 .. Len(s)
  BY <1>1, SetOfSeq
<1>3. ASSUME NEW n \in DOMAIN s, NEW r \in 1 .. s[n] - 1, ShouldBuffer(ks[r])
      PROVE  \E m \in 1 .. n : s[m] = r
  <2>1. CASE n \in DOMAIN at
    <3>1. \A m \in 1 .. n : s[m] = at[m] /\ m \in DOMAIN at
      BY <1>1, <1>2, <2>1
    <3>2. s[n] = at[n]
      BY <1>1, <2>1
    <3>3. PICK m \in 1 .. n : at[m] = r
      BY <1>3, <2>1, <3>2 DEF Ordered
    <3> QED
      BY <3>1, <3>3
  <2>2. CASE n \notin DOMAIN at
    <3>1. \A m \in DOMAIN at : m \in 1 .. n
      BY <1>2, <2>2
    <3>2. PICK i \in 1 .. Len(q) : /\ s[n] = q[i] /\ q[i] \notin ToSet(at)
                                   /\ \A j \in 1 .. i : \E m \in 1 .. n : s[m] = q[j]
      BY <1>1, <2>2 DEF NewIn
    <3>3. r \in ToSet(at) \/ \E j \in 1 .. i : q[j] = r
      BY <1>3, <3>2 DEF Follows
    <3>4. CASE r \in ToSet(at)
      <4>1. PICK m \in DOMAIN at : at[m] = r
        BY <3>4 DEF ToSet
      <4> QED
        BY <1>1, <3>1, <4>1
    <3> QED
      BY <3>2, <3>3, <3>4
  <2> QED
    BY <2>1, <2>2
<1>4. Ordered(s, ks)
  BY <1>3 DEF Ordered
<1> QED
  BY <1>4 DEF s

(* The numbers of the records handed over so far. *)
LEMMA GivenBelow ==
    ASSUME Types, NEW x \in 0 .. Len(kinds) + 1
    PROVE  1 .. x - 1 \subseteq Given /\ (x \in 0 .. Len(kinds) => 1 .. x \subseteq Given)
BY DEF Types, Given

LEMMA OrderedGrows ==
    ASSUME Types, KnownInv, Grown, Ordered(attempted, kinds)
    PROVE  Ordered(attempted, kinds')
<1>1. ASSUME NEW n \in DOMAIN attempted, NEW r \in 1 .. attempted[n] - 1
      PROVE  kinds'[r] = kinds[r]
  <2>1. attempted[n] \in Given
    BY DEF KnownInv, ToSet
  <2>2. Len(kinds) \in Nat
    BY DEF Types
  <2>3. attempted[n] \in 0 .. Len(kinds) + 1
    BY <2>1, <2>2 DEF Given
  <2>4. r \in Given
    BY <2>3, GivenBelow
  <2> QED
    BY <2>4 DEF Grown
<1> QED
  BY <1>1 DEF Ordered

LEMMA BeforeGrows ==
    ASSUME Types, KnownInv, Grown, NEW f \in Flusher, NEW A, ToSet(attempted) \subseteq A,
           Before(job[f].own, kinds, ToSet(attempted))
    PROVE  Before(job[f].own, kinds', A)
<1>1. job[f].own \in 0 .. Len(kinds) /\ Len(kinds) \in Nat
  BY DEF KnownInv, Types
<1>2. job[f].own \in 0 .. Len(kinds) + 1
  BY <1>1
<1>3. \A r \in 1 .. job[f].own - 1 : kinds'[r] = kinds[r]
  BY <1>2, GivenBelow DEF Grown
<1> QED
  BY <1>3 DEF Before

LEMMA BeforeNone == \A ks, A : Before(0, ks, A)
BY DEF Before

LEMMA InitOrder ==
    ASSUME Init
    PROVE  OrderInv
<1>1. \A f \in Flusher : job[f] = NoJob
  BY DEF Init
<1>2. DOMAIN <<>> = {} /\ 1 .. Len(<<>>) = {}
  BY EmptySeq
<1>3. Sorted(buffer, ToSet(attempted)) /\ Ordered(attempted, kinds) /\ Given = {}
  BY <1>2 DEF Init, Sorted, Ordered, Given
<1> QED
  BY <1>1, <1>3, EmptyPlaces, BeforeNone DEF OrderInv

(* The buffer, with a new record or without, may follow the attempts. *)
LEMMA BufferFollows ==
    ASSUME Types, KnownInv, OrderInv, batches, Grown, NEW q \in Seq(Record),
           q = buffer \/ (q = Append(buffer, Len(kinds) + 1) /\ Len(kinds) + 1 \in Record)
    PROVE  Follows(attempted, q, kinds')
<1>0. /\ buffer \in Seq(Record) /\ Len(buffer) \in Nat /\ DOMAIN buffer = 1 .. Len(buffer)
      /\ Len(kinds) \in Nat
  BY SetOfSeq DEF Types
<1>1. /\ Sorted(buffer, ToSet(attempted))
      /\ \A r \in Given : ShouldBuffer(kinds[r]) => r \in ToSet(attempted) \cup ToSet(buffer)
  BY DEF OrderInv
<1>2. ASSUME NEW n \in Record
      PROVE  /\ Len(Append(buffer, n)) = Len(buffer) + 1 /\ Append(buffer, n)[Len(buffer) + 1] = n
             /\ \A k \in DOMAIN buffer : Append(buffer, n)[k] = buffer[k]
  BY <1>0, SetOfAppend
<1>4. ASSUME NEW i \in 1 .. Len(q), q[i] \notin ToSet(attempted), NEW r \in 1 .. q[i] - 1,
             ShouldBuffer(kinds'[r]), r \notin ToSet(attempted)
      PROVE  \E j \in 1 .. i : q[j] = r
  <2>1. \/ i \in 1 .. Len(buffer) /\ q[i] = buffer[i] /\ q[i] \in Given
        \/ i = Len(buffer) + 1 /\ q[i] = Len(kinds) + 1
    <3>1. CASE q = buffer
      <4>1. buffer[i] \in ToSet(buffer) /\ i \in 1 .. Len(buffer)
        BY <1>0, <3>1 DEF ToSet
      <4> QED
        BY <3>1, <4>1 DEF KnownInv
    <3>2. CASE q = Append(buffer, Len(kinds) + 1) /\ Len(kinds) + 1 \in Record
      <4>1. /\ Len(q) = Len(buffer) + 1 /\ q[Len(buffer) + 1] = Len(kinds) + 1
            /\ \A k \in DOMAIN buffer : q[k] = buffer[k]
        BY <1>2, <3>2
      <4>2. i \in 1 .. Len(buffer) \/ i = Len(buffer) + 1
        BY <1>0, <4>1
      <4>3. \A k \in DOMAIN buffer : buffer[k] \in Given
        BY DEF ToSet, KnownInv
      <4> QED
        BY <1>0, <4>1, <4>2, <4>3
    <3> QED
      BY <3>1, <3>2
  <2>2. q[i] \in 0 .. Len(kinds) + 1
    BY <1>0, <2>1 DEF Given
  <2>3. r \in Given /\ kinds'[r] = kinds[r]
    BY <2>2, GivenBelow DEF Grown
  <2>4. r \in ToSet(buffer)
    BY <1>1, <1>4, <2>3
  <2>5. PICK j \in 1 .. Len(buffer) : buffer[j] = r
    BY <1>0, <2>4 DEF ToSet
  <2>6. q[j] = r
    BY <1>0, <2>5, SetOfAppend
  <2>7. j <= i
    <3>1. CASE i = Len(buffer) + 1
      BY <1>0, <3>1
    <3>2. CASE i \in 1 .. Len(buffer) /\ q[i] = buffer[i]
      <4>1. r < buffer[i] /\ buffer[i] \in Int
        BY <2>2, <3>2
      <4>2. ~(i < j)
        BY <1>0, <1>1, <1>4, <2>5, <3>2, <4>1 DEF Sorted
      <4> QED
        BY <3>2, <4>2
    <3> QED
      BY <2>1, <3>1, <3>2
  <2> QED
    BY <2>5, <2>6, <2>7
<1> QED
  BY <1>4 DEF Follows

(* own is seen behind every action handed over before it. *)
LEMMA OwnFollows ==
    ASSUME Types, NEW own \in 0 .. MaxRecords, NEW ks,
           Ordered(attempted, ks), Before(own, ks, ToSet(attempted))
    PROVE  Ordered(SeenOwn(own), ks)
<1>1. CASE own = 0
  BY <1>1 DEF SeenOwn
<1>2. CASE own # 0
  <2>1. own \in Record
    BY <1>2, BufferAssumption DEF Record
  <2>2. <<own>> \in Seq(Record) /\ Len(<<own>>) = 1 /\ <<own>>[1] = own /\ attempted \in Seq(Record)
    BY <2>1 DEF Types
  <2>3. Follows(attempted, <<own>>, ks)
    BY <2>2 DEF Follows, Before
  <2>4. Ordered(Seen(attempted, <<own>>), ks)
    BY <2>2, <2>3, OrderedSeen
  <2> QED
    BY <1>2, <2>4 DEF SeenOwn
<1> QED
  BY <1>1, <1>2

LEMMA OrderStep ==
    ASSUME Types, KnownInv, SentInv, OrderInv, Moves
    PROVE  OrderInv'
<1>b. batches' = batches /\ Grown /\ ToSet(attempted) \subseteq ToSet(attempted')
  BY StepFacts
<1>d. ASSUME NEW f \in Flusher, NEW q \in Seq(Record), NEW own \in 0 .. MaxRecords, Taken(f, q, own)
      PROVE  /\ \A g \in Flusher \ {f} : job'[g] = job[g]
             /\ job'[f].own = own /\ buffer' = <<>>
             /\ ToSet(attempted') = ToSet(attempted) \cup First(batches, q, own)
  BY <1>d, DrainFacts DEF Taken
<1> SUFFICES ASSUME batches
             PROVE  /\ Sorted(buffer', ToSet(attempted'))
                    /\ \A r \in Given' : ShouldBuffer(kinds'[r]) => r \in ToSet(attempted') \cup ToSet(buffer')
                    /\ \A f \in Flusher : Before(job'[f].own, kinds', ToSet(attempted'))
                    /\ Ordered(attempted', kinds')
  BY <1>b DEF OrderInv
<1>t. /\ attempted \in Seq(Record) /\ buffer \in Seq(Record) /\ Len(kinds) \in Nat
      /\ job \in [Flusher -> Jobs]
  BY DEF Types
<1>o. /\ Sorted(buffer, ToSet(attempted))
      /\ \A r \in Given : ShouldBuffer(kinds[r]) => r \in ToSet(attempted) \cup ToSet(buffer)
      /\ \A f \in Flusher : Before(job[f].own, kinds, ToSet(attempted))
      /\ Ordered(attempted, kinds)
  BY DEF OrderInv
<1>k. /\ Ordered(attempted, kinds')
      /\ \A f \in Flusher : Before(job[f].own, kinds', ToSet(attempted'))
      /\ \A r \in Given : ShouldBuffer(kinds'[r]) => r \in ToSet(attempted) \cup ToSet(buffer)
  <2>1. \A r \in Given : kinds'[r] = kinds[r]
    BY <1>b DEF Grown
  <2>2. \A f \in Flusher : Before(job[f].own, kinds', ToSet(attempted'))
    BY <1>b, <1>o, BeforeGrows
  <2> QED
    BY <1>b, <1>o, <2>1, <2>2, OrderedGrows
<1>1. CASE Enqueues
  <2> DEFINE n == Len(kinds) + 1
  <2>1. Given' = Given \cup {n} /\ n \in Record
    BY <1>1, KindsGrow DEF Enqueues
  <2>2. buffer' = Append(buffer, n) /\ UNCHANGED <<job, attempted>>
    BY <1>1 DEF Enqueues
  <2>3. /\ ToSet(buffer') = ToSet(buffer) \cup {n}
        /\ DOMAIN buffer' = DOMAIN buffer \cup {Len(buffer) + 1}
        /\ \A i \in DOMAIN buffer : buffer'[i] = buffer[i] /\ i \in 1 .. Len(buffer)
        /\ buffer'[Len(buffer) + 1] = n /\ Len(buffer) \in Nat
    BY <1>t, <2>1, <2>2, SetOfAppend, SetOfSeq
  <2>4. \A i \in DOMAIN buffer : buffer[i] < n
    <3>1. \A i \in DOMAIN buffer : buffer[i] \in Given
      BY DEF KnownInv, ToSet
    <3> QED
      BY <1>t, <3>1 DEF Given
  <2> HIDE DEF n
  <2>5. ASSUME NEW i \in DOMAIN buffer', NEW j \in DOMAIN buffer', i < j,
               buffer'[i] \notin ToSet(attempted), buffer'[j] \notin ToSet(attempted)
        PROVE  buffer'[i] < buffer'[j]
    <3>1. CASE j \in DOMAIN buffer
      <4>1. i \in DOMAIN buffer
        BY <2>3, <2>5, <3>1
      <4> QED
        BY <1>o, <2>3, <2>5, <3>1, <4>1 DEF Sorted
    <3>2. CASE j = Len(buffer) + 1
      <4>1. i \in DOMAIN buffer
        BY <2>3, <2>5, <3>2
      <4> QED
        BY <2>3, <2>4, <3>2, <4>1
    <3> QED
      BY <2>3, <3>1, <3>2
  <2>6. Sorted(buffer', ToSet(attempted'))
    BY <2>2, <2>5 DEF Sorted
  <2>7. \A r \in Given' : ShouldBuffer(kinds'[r]) => r \in ToSet(attempted') \cup ToSet(buffer')
    BY <1>k, <2>1, <2>2, <2>3
  <2> QED
    BY <1>k, <2>2, <2>6, <2>7
<1>2. ASSUME NEW f \in Flusher, TakesBuffer(f) \/ TakesNew(f) \/ TakesAhead(f)
      PROVE  /\ Sorted(buffer', ToSet(attempted'))
             /\ \A r \in Given' : ShouldBuffer(kinds'[r]) => r \in ToSet(attempted') \cup ToSet(buffer')
             /\ \A g \in Flusher : Before(job'[g].own, kinds', ToSet(attempted'))
             /\ Ordered(attempted', kinds')
  <2>1. PICK q \in Seq(Record), own \in 0 .. MaxRecords : Taken(f, q, own)
    BY <1>2, TakeFacts
  <2>2. /\ \A g \in Flusher \ {f} : job'[g] = job[g]
        /\ job'[f].own = own /\ buffer' = <<>>
        /\ ToSet(attempted') = ToSet(attempted) \cup First(batches, q, own)
    BY <1>d, <2>1, Zenon
  <2>3. attempted' = IF q = <<>> THEN SeenOwn(own) ELSE Seen(attempted, q)
    <3>1. Carries(batches, q) = q
      BY DEF Carries
    <3>2. attempted' = IF q = <<>> THEN SeenOwn(own) ELSE Seen(attempted, Carries(batches, q))
      BY <2>1 DEF Taken, Drains
    <3> QED
      BY <3>1, <3>2
  <2>4. /\ ToSet(q) \subseteq ToSet(attempted') /\ ToSet(buffer) \subseteq ToSet(attempted')
    <3>1. ToSet(q) \subseteq First(batches, q, own)
      BY EmptyPlaces DEF First, Carries
    <3> QED
      BY <2>1, <2>2, <3>1 DEF Taken
  <2>5. Sorted(buffer', ToSet(attempted'))
    BY <2>2 DEF Sorted
  <2>6. \A r \in Given' : ShouldBuffer(kinds'[r]) => r \in ToSet(attempted')
    <3>1. TAKE r \in Given'
    <3>2. HAVE ShouldBuffer(kinds'[r])
    <3>3. CASE r \in Given
      BY <1>b, <1>k, <2>4, <3>2, <3>3
    <3>4. CASE r \notin Given
      BY <2>1, <2>4, <3>2, <3>4 DEF Taken
    <3> QED
      BY <3>3, <3>4
  <2>7. own \in 0 .. Len(kinds') /\ Len(kinds') \in Nat
    BY <1>b, <2>1 DEF Taken, Grown
  <2>8. \A r \in 1 .. own - 1 : r \in Given'
    BY <2>7 DEF Given
  <2>9. Before(own, kinds', ToSet(attempted'))
    BY <2>6, <2>8 DEF Before
  <2>10. Ordered(attempted', kinds')
    <3>1. CASE q = <<>>
      <4>1. ToSet(buffer) = {}
        BY <2>1, <3>1, EmptyPlaces DEF Taken
      <4>2. ASSUME own # 0, NEW r \in 1 .. own - 1, ShouldBuffer(kinds'[r])
            PROVE  r \in ToSet(attempted)
        <5>1. r \in Given
          <6>1. r \in Given' /\ r # own
            BY <2>7, <2>8, <4>2
          <6>2. CASE r \in Given' \ Given
            BY <2>1, <3>1, <4>2, <6>2, EmptyPlaces DEF Taken
          <6> QED
            BY <6>1, <6>2
        <5> QED
          BY <1>k, <4>1, <4>2, <5>1
      <4>3. Before(own, kinds', ToSet(attempted))
        BY <4>2, BeforeNone DEF Before
      <4> QED
        BY <1>k, <2>3, <3>1, <4>3, OwnFollows
    <3>2. CASE q # <<>>
      <4>1. q = buffer \/ (q = Append(buffer, Len(kinds) + 1) /\ Len(kinds) + 1 \in Record)
        BY <2>1 DEF Taken
      <4>2. Follows(attempted, q, kinds')
        BY <1>b, <4>1, BufferFollows
      <4> QED
        BY <1>k, <1>t, <2>3, <3>2, <4>2, OrderedSeen
    <3> QED
      BY <3>1, <3>2
  <2>11. \A g \in Flusher : Before(job'[g].own, kinds', ToSet(attempted'))
    BY <1>k, <2>2, <2>9
  <2> QED
    BY <2>5, <2>6, <2>10, <2>11
<1>3. ASSUME NEW f \in Flusher, Retries(f)
      PROVE  OrderInv'
  <2> DEFINE C == SUBSET ToSet(Carries(batches, job[f].pending))
  <2>1. PICK j \in Jobs, S \in C, N \in C :
            /\ Answers(f, j, S, N) /\ UNCHANGED <<buffer, attempted>>
    BY <1>3 DEF Retries
  <2>2. j.own = job[f].own /\ kinds' = kinds
    BY <2>1 DEF Answers
  <2>3. \A g \in Flusher : job'[g].own = job[g].own
    BY <2>1, <2>2, AnswerFacts
  <2> QED
    BY <1>o, <2>1, <2>2, <2>3 DEF OrderInv, Given
<1>4. ASSUME NEW f \in Flusher, Continues(f)
      PROVE  FALSE
  BY <1>4 DEF Continues
<1>5. ASSUME NEW f \in Flusher, Finishes(f)
      PROVE  OrderInv'
  <2> DEFINE C == SUBSET ToSet(Carries(batches, job[f].pending))
  <2>1. PICK j \in Jobs, S \in C, N \in C, fail \in Seq(Record) :
            /\ Answers(f, j, S, N)
            /\ ToSet(fail) \subseteq ToSet(job[f].failed) \cup ToSet(Carries(batches, job[f].pending))
            /\ buffer' = fail \o buffer
            /\ attempted' = SeenOwn(job[f].own)
    BY <1>5 DEF Finishes
  <2>2. j.own = job[f].own /\ kinds' = kinds
    BY <2>1 DEF Answers
  <2>3. \A g \in Flusher : job'[g].own = job[g].own
    BY <2>1, <2>2, AnswerFacts
  <2>4. ToSet(fail) \subseteq ToSet(attempted)
    BY <2>1 DEF SentInv
  <2> DEFINE b == fail \o buffer
  <2>5. /\ b \in Seq(Record) /\ ToSet(b) = ToSet(fail) \cup ToSet(buffer) /\ Len(b) = Len(fail) + Len(buffer)
        /\ \A i \in 1 .. Len(fail) : b[i] = fail[i]
        /\ \A i \in 1 .. Len(buffer) : b[Len(fail) + i] = buffer[i]
    BY <1>t, SetOfConcat
  <2>6. buffer' = b
    BY <2>1
  <2> HIDE DEF b
  <2>7. /\ Len(fail) \in Nat /\ Len(buffer) \in Nat /\ DOMAIN buffer = 1 .. Len(buffer)
        /\ DOMAIN b = 1 .. Len(fail) + Len(buffer)
        /\ \A i \in 1 .. Len(fail) : fail[i] \in ToSet(attempted)
    BY <1>t, <2>4, <2>5, SetOfSeq
  <2>8. ASSUME NEW i \in DOMAIN b, b[i] \notin ToSet(attempted)
        PROVE  i - Len(fail) \in DOMAIN buffer /\ b[i] = buffer[i - Len(fail)]
    <3>1. i \notin 1 .. Len(fail)
      BY <2>5, <2>7, <2>8
    <3>2. i - Len(fail) \in 1 .. Len(buffer) /\ Len(fail) + (i - Len(fail)) = i
      BY <2>7, <3>1
    <3> QED
      BY <2>5, <2>7, <3>2
  <2>9. ASSUME NEW i \in DOMAIN b, NEW k \in DOMAIN b, i < k,
               b[i] \notin ToSet(attempted'), b[k] \notin ToSet(attempted')
        PROVE  b[i] < b[k]
    <3>1. b[i] \notin ToSet(attempted) /\ b[k] \notin ToSet(attempted)
      BY <1>b, <2>9
    <3>2. i - Len(fail) < k - Len(fail)
      BY <2>7, <2>9
    <3> QED
      BY <1>o, <2>8, <3>1, <3>2 DEF Sorted
  <2>10. Sorted(buffer', ToSet(attempted'))
    BY <2>6, <2>9 DEF Sorted
  <2>11. Ordered(attempted', kinds')
    BY <1>o, <2>1, <2>2, OwnFollows, JobFacts
  <2>12. \A r \in Given' : ShouldBuffer(kinds'[r]) => r \in ToSet(attempted') \cup ToSet(buffer')
    BY <1>b, <1>o, <2>2, <2>5, <2>6 DEF Given
  <2>13. \A g \in Flusher : Before(job'[g].own, kinds', ToSet(attempted'))
    BY <1>k, <2>3
  <2> QED
    BY <2>10, <2>11, <2>12, <2>13 DEF OrderInv
<1>6. ASSUME NEW t \in Flusher, job' = [job EXCEPT ![t] = NoJob], UNCHANGED <<kinds, buffer, attempted>>
      PROVE  OrderInv'
  <2>1. \A g \in Flusher : job'[g] = job[g] \/ job'[g] = NoJob
    BY <1>t, <1>6
  <2>2. \A g \in Flusher : Before(job'[g].own, kinds, ToSet(attempted))
    BY <1>o, <2>1, BeforeNone, EmptyPlaces
  <2> QED
    BY <1>o, <1>6, <2>2 DEF OrderInv, Given
<1>7. ASSUME NEW t \in Task, PassthroughAnswer(t) \/ Cancels(t)
      PROVE  OrderInv'
  BY <1>6, <1>7, Members DEF PassthroughAnswer, Cancels, Drops
<1>8. CASE Closes
  <2>1. job' = [job EXCEPT ![Loop] = NoJob] /\ UNCHANGED <<kinds, buffer, attempted>>
    BY <1>8 DEF Closes, Drops
  <2>2. OrderInv'
    BY <1>6, <2>1, Members
  <2> QED
    BY <1>b, <2>2 DEF OrderInv
<1>9. CASE UNCHANGED vars
  BY <1>o, <1>9 DEF vars, Given
<1>10. OrderInv' => /\ Sorted(buffer', ToSet(attempted'))
                    /\ \A r \in Given' : ShouldBuffer(kinds'[r]) => r \in ToSet(attempted') \cup ToSet(buffer')
                    /\ \A f \in Flusher : Before(job'[f].own, kinds', ToSet(attempted'))
                    /\ Ordered(attempted', kinds')
  BY <1>b DEF OrderInv
<1> QED
  BY <1>1, <1>2, <1>3, <1>4, <1>5, <1>7, <1>8, <1>9, <1>10 DEF Moves

-------------------------------------------------------------------------------
(* The theorems *)

IInv == Types /\ KnownInv /\ PlaceInv /\ ApartInv /\ SentInv /\ CloseInv /\ OrderInv

LEMMA Invariant == Spec => []IInv
<1>1. Init => IInv
  BY InitTypes, InitKnown, InitPlace, InitSent, InitClose, InitOrder DEF IInv
<1>2. IInv /\ [Next]_vars => IInv'
  <2> SUFFICES ASSUME IInv, [Next]_vars
               PROVE  IInv'
    OBVIOUS
  <2>1. Types /\ KnownInv /\ PlaceInv /\ ApartInv /\ SentInv /\ CloseInv /\ OrderInv
    BY DEF IInv
  <2>2. Moves
    BY <2>1, StepKinds
  <2>3. Types' /\ KnownInv' /\ PlaceInv' /\ SentInv'
    BY <2>1, <2>2, TypesStep, KnownStep, PlaceStep, SentStep
  <2>4. ApartInv'
    BY <2>1, <2>2, Shift, ApartShift
  <2>5. CloseInv' /\ OrderInv'
    BY <2>1, <2>2, CloseStep, OrderStep
  <2> QED
    BY <2>3, <2>4, <2>5 DEF IInv
<1> QED
  BY <1>1, <1>2, PTL DEF Spec

(* handle() flushes before it forwards, and a failed batch goes back to the  *)
(* front: whichever overlapping flush carries them, the actions reach an     *)
(* inner client with handle_batch in the order they were handed over, and    *)
(* no passthrough envelope before them.                                      *)
THEOREM AttemptsKeepOrder == Spec => []NoOvertaking
<1>1. IInv => NoOvertaking
  BY DEF IInv, OrderInv, Ordered, NoOvertaking, NeverOvertaken
<1> QED
  BY <1>1, Invariant, PTL

(* close() leaves no record that was handed over before it in the buffer     *)
(* without an attempt, even where a flush of another task ends after it.     *)
THEOREM CloseFlushesAll == Spec => []CloseFlushes
<1>1. IInv => CloseFlushes
  BY DEF IInv, CloseInv, LeftOver, CloseFlushes
<1> QED
  BY <1>1, Invariant, PTL

-------------------------------------------------------------------------------
(* The buffer implements Delivery. *)

HeldNow ==
    ToSet(buffer) \cup UNION {ToSet(job[f].pending) \cup ToSet(job[f].failed) : f \in Flusher}

LEMMA HeldElement ==
    /\ \A x : x \in HeldNow <=> x \in ToSet(buffer) \/ \E f \in Flusher : x \in Holds(job[f])
    /\ \A x : x \in HeldNow' <=> x \in ToSet(buffer') \/ \E f \in Flusher : x \in Holds(job'[f])
BY DEF HeldNow, Holds

LEMMA AcceptBy ==
    ASSUME NEW n \in Record, n \notin HeldNow \cup stored \cup refused \cup cancelled,
           HeldNow' = HeldNow \cup {n}, UNCHANGED <<stored, refused, cancelled>>
    PROVE  Promise!Next
<1>1. n \in Record \ (HeldNow \cup stored \cup refused \cup cancelled)
  OBVIOUS
<1>2. stored' \in {stored, stored \cup {n}}
  OBVIOUS
<1>3. Promise!Accept
  BY <1>1, <1>2 DEF Promise!Accept, HeldNow, InFlight
<1> QED
  BY <1>3 DEF Promise!Next

LEMMA ForwardBy ==
    ASSUME NEW S \in SUBSET HeldNow, NEW N \in SUBSET HeldNow, NEW A \in SUBSET HeldNow,
           stored' = stored \cup S, refused' = refused \cup N, cancelled' = cancelled \cup A,
           HeldNow' \subseteq HeldNow \ A, HeldNow \ (HeldNow' \cup A) \subseteq stored' \cup refused'
    PROVE  Promise!Next
<1> DEFINE R == HeldNow \ (HeldNow' \cup A)
<1>1. R \in SUBSET (HeldNow \cap (stored' \cup refused')) /\ HeldNow' = HeldNow \ (R \cup A)
  OBVIOUS
<1> HIDE DEF R
<1>2. Promise!Forward
  BY <1>1 DEF Promise!Forward, HeldNow, InFlight
<1> QED
  BY <1>2 DEF Promise!Next

LEMMA StutterBy ==
    ASSUME HeldNow' = HeldNow, UNCHANGED <<stored, refused, cancelled>>
    PROVE  UNCHANGED Promise!vars
BY DEF Promise!vars, HeldNow, InFlight

LEMMA DeliveryStep ==
    ASSUME Types, KnownInv, PlaceInv, ApartInv, Moves
    PROVE  [Promise!Next]_(Promise!vars)
<1>t. buffer \in Seq(Record) /\ batches \in BOOLEAN
  BY DEF Types
<1>k. HeldNow \cup stored \cup refused \cup cancelled \subseteq Given
  BY HeldElement DEF KnownInv
<1>i. \A f \in Flusher : pc[f] # "sending" => Holds(job[f]) = {}
  BY EmptyPlaces DEF PlaceInv, Holds
<1>c. \A f \in Flusher : ToSet(Carries(batches, job[f].pending)) \subseteq Holds(job[f])
  BY <1>t, JobFacts, CarriesPart
<1>1. CASE Enqueues
  <2> DEFINE n == Len(kinds) + 1
  <2>1. n \in Record /\ n \notin Given
    BY <1>1, KindsGrow DEF Enqueues
  <2>2. buffer' = Append(buffer, n) /\ UNCHANGED <<job, stored, refused, cancelled>>
    BY <1>1 DEF Enqueues
  <2> HIDE DEF n
  <2>3. ToSet(buffer') = ToSet(buffer) \cup {n}
    BY <1>t, <2>1, <2>2, SetOfAppend
  <2>4. HeldNow' = HeldNow \cup {n}
    BY <2>2, <2>3, HeldElement
  <2> QED
    BY <1>k, <2>1, <2>2, <2>4, AcceptBy
<1>2. ASSUME NEW f \in Flusher, TakesBuffer(f) \/ TakesNew(f) \/ TakesAhead(f)
      PROVE  [Promise!Next]_(Promise!vars)
  <2> DEFINE n == Len(kinds) + 1
  <2>1. PICK q \in Seq(Record), own \in 0 .. MaxRecords : Taken(f, q, own)
    BY <1>2, TakeFacts
  <2>2. /\ \A g \in Flusher \ {f} : job'[g] = job[g]
        /\ Holds(job'[f]) = ToSet(q) /\ ToSet(buffer') = {}
        /\ UNCHANGED <<stored, refused, cancelled>>
    BY <2>1, DrainFacts DEF Taken
  <2>3. Holds(job[f]) = {}
    BY <1>i, <2>1 DEF Taken, Drains
  <2>4. q = buffer \/ (q = Append(buffer, n) /\ n \in Record)
    BY <2>1 DEF Taken
  <2>5. n \notin Given
    BY DEF Types, Given
  <2> HIDE DEF n
  <2>6. CASE q = buffer
    <3>1. HeldNow' = HeldNow
      BY <2>2, <2>3, <2>6, HeldElement
    <3> QED
      BY <2>2, <3>1, StutterBy
  <2>7. CASE q = Append(buffer, n) /\ n \in Record
    <3>1. ToSet(q) = ToSet(buffer) \cup {n}
      BY <1>t, <2>7, SetOfAppend
    <3>2. HeldNow' = HeldNow \cup {n}
      BY <2>2, <2>3, <3>1, HeldElement
    <3> QED
      BY <1>k, <2>2, <2>5, <2>7, <3>2, AcceptBy
  <2> QED
    BY <2>4, <2>6, <2>7
<1>3. ASSUME NEW f \in Flusher, Retries(f) \/ Continues(f) \/ Finishes(f)
      PROVE  Promise!Next
  <2> DEFINE C == SUBSET ToSet(Carries(batches, job[f].pending))
             kept == Holds(job'[f]) \cup ToSet(buffer')
  <2>1. PICK S \in C, N \in C :
            /\ stored' = stored \cup S /\ refused' = refused \cup N /\ cancelled' = cancelled
            /\ \A g \in Flusher \ {f} : job'[g] = job[g]
            /\ ToSet(buffer) \subseteq ToSet(buffer') /\ kept \subseteq Holds(job[f]) \cup ToSet(buffer)
            /\ Holds(job[f]) \ kept \subseteq S \cup N
    <3>1. CASE Retries(f) \/ Continues(f)
      <4>1. PICK j \in Jobs, S \in C, N \in C :
                /\ Answers(f, j, S, N) /\ buffer' = buffer
                /\ Holds(j) \subseteq Holds(job[f]) /\ Holds(job[f]) \ Holds(j) \subseteq S \cup N
        <5>1. CASE Retries(f)
          BY <5>1 DEF Retries
        <5>2. CASE Continues(f)
          BY <5>2 DEF Continues
        <5> QED
          BY <3>1, <5>1, <5>2
      <4>2. job'[f] = j /\ \A g \in Flusher \ {f} : job'[g] = job[g]
        BY <4>1, AnswerFacts
      <4>3. stored' = stored \cup S /\ refused' = refused \cup N /\ cancelled' = cancelled
        BY <4>1 DEF Answers
      <4> QED
        BY <4>1, <4>2, <4>3
    <3>2. CASE Finishes(f)
      <4>1. PICK j \in Jobs, S \in C, N \in C, fail \in Seq(Record) :
                /\ Answers(f, j, S, N) /\ j.pending = <<>> /\ j.failed = <<>>
                /\ ToSet(fail) \subseteq ToSet(job[f].failed) \cup ToSet(Carries(batches, job[f].pending))
                /\ Holds(job[f]) \ ToSet(fail) \subseteq S \cup N
                /\ buffer' = fail \o buffer
        BY <3>2 DEF Finishes
      <4>2. job'[f] = j /\ \A g \in Flusher \ {f} : job'[g] = job[g]
        BY <4>1, AnswerFacts
      <4>3. stored' = stored \cup S /\ refused' = refused \cup N /\ cancelled' = cancelled
        BY <4>1 DEF Answers
      <4>4. Holds(j) = {} /\ ToSet(job[f].failed) \subseteq Holds(job[f])
        BY <4>1, EmptyPlaces DEF Holds
      <4>5. ToSet(buffer') = ToSet(fail) \cup ToSet(buffer)
        BY <1>t, <4>1, SetOfConcat
      <4> QED
        BY <1>c, <4>1, <4>2, <4>3, <4>4, <4>5
    <3> QED
      BY <1>3, <3>1, <3>2
  <2> HIDE DEF kept
  <2>2. Holds(job[f]) \subseteq HeldNow /\ S \in SUBSET HeldNow /\ N \in SUBSET HeldNow
    BY <1>c, <2>1, HeldElement
  <2>3. /\ HeldNow' \subseteq HeldNow \ {}
        /\ HeldNow \ (HeldNow' \cup {}) \subseteq Holds(job[f]) \ kept
    BY <2>1, HeldElement DEF kept
  <2>4. HeldNow \ (HeldNow' \cup {}) \subseteq stored' \cup refused'
    BY <2>1, <2>3
  <2>5. {} \in SUBSET HeldNow /\ cancelled' = cancelled \cup {}
    BY <2>1
  <2> QED
    BY <2>1, <2>2, <2>3, <2>4, <2>5, ForwardBy
<1>4. ASSUME NEW t \in Flusher, Drops(t)
      PROVE  Promise!Next
  <2> DEFINE A == Holds(job[t])
  <2>1. PICK S \in SUBSET ToSet(Carries(batches, job[t].pending)) :
            /\ stored' = stored \cup S /\ cancelled' = cancelled \cup A /\ refused' = refused
    BY <1>4 DEF Drops
  <2>2. /\ Holds(job'[t]) = {} /\ buffer' = buffer
        /\ \A g \in Flusher \ {t} : job'[g] = job[g]
    BY <1>4, DropFacts
  <2>3. A \in SUBSET HeldNow /\ S \in SUBSET HeldNow
    BY <1>c, HeldElement
  <2>4. A \cap ToSet(buffer) = {} /\ \A g \in Flusher \ {t} : A \cap Holds(job[g]) = {}
    BY DEF ApartInv
  <2> HIDE DEF A
  <2>5. HeldNow' \subseteq HeldNow \ A /\ HeldNow \ (HeldNow' \cup A) = {}
    BY <2>2, <2>4, HeldElement DEF A
  <2>6. {} \in SUBSET HeldNow /\ refused' = refused \cup {}
    BY <2>1
  <2> QED
    BY <2>1, <2>3, <2>5, <2>6, ForwardBy
<1>5. ASSUME NEW t \in Task, PassthroughAnswer(t)
      PROVE  UNCHANGED Promise!vars
  <2>1. /\ pc[t] = "passing" /\ job' = [job EXCEPT ![t] = NoJob]
        /\ UNCHANGED <<buffer, stored, refused, cancelled>>
    BY <1>5 DEF PassthroughAnswer
  <2>2. Holds(job[t]) = {}
    BY <1>i, <2>1, Members
  <2>3. job'[t] = NoJob /\ \A g \in Flusher \ {t} : job'[g] = job[g]
    BY <2>1, Members DEF Types
  <2>4. HeldNow' = HeldNow
    BY <2>1, <2>2, <2>3, HeldElement, EmptyPlaces, Members
  <2> QED
    BY <2>1, <2>4, StutterBy
<1>6. CASE UNCHANGED vars
  BY <1>6, StutterBy DEF vars, HeldNow
<1>7. ASSUME NEW t \in Task, Cancels(t)
      PROVE  Promise!Next
  BY <1>4, <1>7, Members DEF Cancels
<1>8. CASE Closes
  BY <1>4, <1>8, Members DEF Closes
<1> QED
  BY <1>1, <1>2, <1>3, <1>5, <1>6, <1>7, <1>8 DEF Moves

(* A buffered record leaves the client only when the store has it or has     *)
(* refused it, or with the flush of a cancelled task: handle(), the flushes, *)
(* their retries and re-queues, and close() implement the promise of         *)
(* Delivery.                                                                 *)
THEOREM BufferImplementsDelivery == Spec => ImplementsDelivery
<1>1. Init => Promise!Init
  <2> SUFFICES ASSUME Init
               PROVE  Promise!Init
    OBVIOUS
  <2>1. \A f \in Flusher : Holds(job[f]) = {}
    BY EmptyPlaces DEF Init
  <2>2. HeldNow = {}
    BY <2>1, HeldElement, EmptyPlaces DEF Init
  <2> QED
    BY <2>2 DEF Init, Promise!Init, HeldNow, InFlight
<1>2. IInv /\ [Next]_vars => [Promise!Next]_(Promise!vars)
  BY StepKinds, DeliveryStep DEF IInv
<1> QED
  BY <1>1, <1>2, Invariant, PTL DEF Spec, ImplementsDelivery, Promise!Spec

================================================================================
