---------------------------- MODULE SpoolSyncProofs ----------------------------
(***************************************************************************)
(* Theorems about SpoolSync, for any number of records, batch size and     *)
(* number of runs, and the proof that it implements Delivery.              *)
(*                                                                         *)
(* The inductive invariant says where a run stands:                        *)
(*   - FileInv, SyncedInv: lines are numbered as written, and retired      *)
(*     files hold earlier ones than the live file;                         *)
(*   - RunInv: what was read begins what was hashed, which begins the      *)
(*     file; what was answered begins what was read, in whole batches;     *)
(*   - DiskInv: the types of the receipts on disk;                         *)
(*   - RetireInv: behind a retired file, and one about to be, there is a   *)
(*     fully accepted attempt for what was read of it.                     *)
(* A receipt stores ranges: CompressExpands shows that expanding them      *)
(* gives back exactly the numbers compressed, for every input.             *)
(* VerdictProofs is extended for LeastMember, by which recursive functions *)
(* over 0 .. n are reasoned about.                                         *)
(***************************************************************************)
EXTENDS SpoolSync, VerdictProofs, SequenceTheorems

Lines == Seq(Record)

-------------------------------------------------------------------------------
(* Prefixes *)

LEMMA PrefixPointwise ==
    ASSUME NEW S, NEW s \in Seq(S), NEW t \in Seq(S)
    PROVE  IsPrefix(s, t) <=> Len(s) <= Len(t) /\ \A i \in 1 .. Len(s) : s[i] = t[i]
<1>1. Len(s) \in Nat /\ Len(t) \in Nat
  OBVIOUS
<1>2. ASSUME Len(s) <= Len(t)
      PROVE  SubSeq(s, 1, Len(s)) = SubSeq(t, 1, Len(s)) <=> \A i \in 1 .. Len(s) : s[i] = t[i]
  <2> DEFINE a == SubSeq(s, 1, Len(s))
             b == SubSeq(t, 1, Len(s))
  <2>1. a \in Seq(S) /\ Len(a) = Len(s) /\ \A i \in 1 .. Len(s) : a[i] = s[i]
    BY <1>1
  <2>2. b \in Seq(S) /\ Len(b) = Len(s) /\ \A i \in 1 .. Len(s) : b[i] = t[i]
    BY <1>1, <1>2
  <2> HIDE DEF a, b
  <2>3. a = b <=> \A i \in 1 .. Len(s) : s[i] = t[i]
    BY <1>1, <2>1, <2>2, SeqEqual
  <2> QED
    BY <2>3 DEF a, b
<1> QED
  BY <1>1, <1>2 DEF IsPrefix

LEMMA PrefixSelf ==
    ASSUME NEW S, NEW s \in Seq(S)
    PROVE  IsPrefix(s, s)
BY PrefixPointwise

LEMMA PrefixAppend ==
    ASSUME NEW S, NEW s \in Seq(S), NEW t \in Seq(S), NEW x \in S, IsPrefix(s, t)
    PROVE  IsPrefix(s, Append(t, x))
<1>1. Len(s) <= Len(t) /\ \A i \in 1 .. Len(s) : s[i] = t[i]
  BY PrefixPointwise
<1>2. /\ Append(t, x) \in Seq(S) /\ Len(Append(t, x)) = Len(t) + 1
      /\ \A i \in 1 .. Len(t) : Append(t, x)[i] = t[i]
  OBVIOUS
<1>3. Len(s) \in Nat /\ Len(t) \in Nat
  OBVIOUS
<1>4. Len(s) <= Len(Append(t, x)) /\ \A i \in 1 .. Len(s) : s[i] = Append(t, x)[i]
  BY <1>1, <1>2, <1>3
<1> QED
  BY <1>2, <1>4, PrefixPointwise

LEMMA AppendElements ==
    ASSUME NEW S, NEW s \in Seq(S), NEW x
    PROVE  ToSet(Append(s, x)) = ToSet(s) \cup {x}
<1>1. Len(s) \in Nat /\ DOMAIN s = 1 .. Len(s) /\ DOMAIN Append(s, x) = 1 .. Len(s) + 1
  OBVIOUS
<1>2. /\ \A i \in 1 .. Len(s) : Append(s, x)[i] = s[i]
      /\ Append(s, x)[Len(s) + 1] = x
  OBVIOUS
<1>3. \A i \in 1 .. Len(s) + 1 : i \in 1 .. Len(s) \/ i = Len(s) + 1
  BY <1>1
<1>4. 1 .. Len(s) \subseteq 1 .. Len(s) + 1 /\ Len(s) + 1 \in 1 .. Len(s) + 1
  BY <1>1
<1> DEFINE q == Append(s, x)
           n == Len(s)
           m == Len(s) + 1
<1> HIDE DEF q, n, m
<1>5. ASSUME NEW y \in ToSet(q) PROVE y \in ToSet(s) \cup {x}
  BY <1>1, <1>2, <1>3 DEF ToSet, q
<1>6. ASSUME NEW y \in ToSet(s) \cup {x} PROVE y \in ToSet(q)
  BY <1>1, <1>2, <1>4 DEF ToSet, q
<1> QED
  BY <1>5, <1>6 DEF q

-------------------------------------------------------------------------------
(* The first refusal *)

Succeeded(rs) == \A i \in DOMAIN rs : IsSuccess(rs[i])

(* failed_index is the position of a refusal, and None when there is none.   *)
LEMMA FailedIndexFinds ==
    ASSUME NEW rs \in Seq(Response)
    PROVE  /\ FailedIndex(rs) = 0 <=> Succeeded(rs)
           /\ FailedIndex(rs) # 0 => FailedIndex(rs) \in DOMAIN rs /\ ~IsSuccess(rs[FailedIndex(rs)])
<1> DEFINE I == {i \in 1 .. Len(rs) : ~IsSuccess(rs[i])}
<1>1. FailedIndex(rs) = IF I # {} THEN Min(I) ELSE 0
  BY DEF FailedIndex, SelectInSeq
<1>2. I # {} => Min(I) \in I
  <2>1. SUFFICES ASSUME I # {} PROVE Min(I) \in I
    OBVIOUS
  <2>2. \E x \in I : \A y \in I : x <= y
    <3>1. I \subseteq Nat
      OBVIOUS
    <3> HIDE DEF I
    <3> QED
      BY <2>1, <3>1, LeastMember
  <2> HIDE DEF I
  <2> QED
    BY <2>2 DEF Min
<1>3. 0 \notin I /\ DOMAIN rs = 1 .. Len(rs)
  OBVIOUS
<1>4. I = {} <=> Succeeded(rs)
  BY <1>3 DEF Succeeded
<1>5. \A i \in I : i \in DOMAIN rs /\ ~IsSuccess(rs[i])
  BY <1>3
<1> HIDE DEF I
<1> QED
  BY <1>1, <1>2, <1>3, <1>4, <1>5

-------------------------------------------------------------------------------
(* Ranges *)

(* ranges is the walk's result for the positions up to c. *)
Compressed(positions, ranges, c) ==
    /\ ranges \in Seq(Nat \X Nat)
    /\ \A i \in DOMAIN ranges : ranges[i][2] <= c /\ ranges[i][1] <= ranges[i][2]
    /\ ExpandRanges(ranges) = positions \cap 1 .. c

IsWalk(f, positions, n) ==
    f = [p \in 0 .. n |-> IF p = 0 THEN <<>>
                          ELSE IF p \in positions THEN ExtendRanges(f[p - 1], p) ELSE f[p - 1]]

(* The walk exists for every number of records. *)
LEMMA WalkExists ==
    ASSUME NEW positions, NEW m \in Nat
    PROVE  \E f : IsWalk(f, positions, m)
<1> DEFINE T == {n \in Nat : ~\E f : IsWalk(f, positions, n)}
<1>1. SUFFICES ASSUME T # {} PROVE FALSE
  OBVIOUS
<1>2. PICK n \in T : \A y \in T : n <= y
  BY <1>1, LeastMember
<1>3. CASE n = 0
  <2>1. IsWalk([p \in 0 .. 0 |-> <<>>], positions, 0)
    BY DEF IsWalk
  <2> QED
    BY <1>2, <1>3, <2>1
<1>4. CASE n # 0
  <2>1. n \in Nat /\ n - 1 \in Nat /\ n - 1 \notin T
    BY <1>2, <1>4
  <2>2. PICK g : IsWalk(g, positions, n - 1)
    BY <2>1
  <2> DEFINE Step(r, p) == IF p \in positions THEN ExtendRanges(r, p) ELSE r
             f == [p \in 0 .. n |-> IF p = n THEN Step(g[n - 1], n) ELSE g[p]]
  <2>3. g = [p \in 0 .. n - 1 |-> IF p = 0 THEN <<>> ELSE Step(g[p - 1], p)]
    BY <2>2 DEF IsWalk
  <2> HIDE DEF Step
  <2>4. \A p \in 0 .. n : f[p] = IF p = 0 THEN <<>> ELSE Step(f[p - 1], p)
    <3>1. TAKE p \in 0 .. n
    <3>2. CASE p = n
      BY <1>4, <2>1, <3>2
    <3>3. CASE p # n
      <4>1. p \in 0 .. n - 1 /\ (p # 0 => p - 1 \in 0 .. n - 1 /\ p - 1 # n)
        BY <2>1, <3>3
      <4>2. f[p] = g[p] /\ (p # 0 => f[p - 1] = g[p - 1])
        BY <2>1, <3>3, <4>1
      <4> QED
        BY <2>3, <4>1, <4>2
    <3> QED
      BY <3>2, <3>3
  <2>5. f = [p \in 0 .. n |-> IF p = 0 THEN <<>> ELSE Step(f[p - 1], p)]
    BY <2>4
  <2>6. IsWalk(f, positions, n)
    BY <2>5 DEF IsWalk, Step
  <2> QED
    BY <1>2, <2>6
<1> QED
  BY <1>3, <1>4

(* One position more. *)
LEMMA ExtendKeeps ==
    ASSUME NEW positions, NEW c \in Nat \ {0}, NEW r, Compressed(positions, r, c - 1)
    PROVE  Compressed(positions, IF c \in positions THEN ExtendRanges(r, c) ELSE r, c)
<1>1. /\ r \in Seq(Nat \X Nat) /\ Len(r) \in Nat /\ DOMAIN r = 1 .. Len(r)
      /\ \A i \in DOMAIN r : /\ r[i][1] \in Nat /\ r[i][2] \in Nat
                             /\ r[i][2] <= c - 1 /\ r[i][1] <= r[i][2]
      /\ ExpandRanges(r) = positions \cap 1 .. c - 1
  BY DEF Compressed
<1>2. 1 .. c = (1 .. c - 1) \cup {c}
  OBVIOUS
<1>3. CASE c \notin positions
  <2>1. positions \cap 1 .. c = positions \cap 1 .. c - 1
    BY <1>2, <1>3
  <2>2. \A i \in DOMAIN r : r[i][2] <= c /\ r[i][1] <= r[i][2]
    BY <1>1
  <2> QED
    BY <1>1, <1>3, <2>1, <2>2 DEF Compressed
<1>4. CASE c \in positions
  <2> DEFINE new == ExtendRanges(r, c)
  <2>1. SUFFICES /\ new \in Seq(Nat \X Nat)
                 /\ \A i \in DOMAIN new : new[i][2] <= c /\ new[i][1] <= new[i][2]
                 /\ ExpandRanges(new) = ExpandRanges(r) \cup {c}
    <3>1. positions \cap 1 .. c = (positions \cap 1 .. c - 1) \cup {c}
      BY <1>2, <1>4
    <3> QED
      BY <1>1, <1>4, <3>1 DEF Compressed
  <2>2. \A q : ExpandRanges(q) = UNION {q[i][1] .. q[i][2] : i \in DOMAIN q}
    BY DEF ExpandRanges, ToSet
  <2>3. CASE r # <<>> /\ r[Len(r)][2] + 1 = c
    <3> DEFINE k == Len(r)
               pair == <<r[k][1], c>>
    <3>1. k \in DOMAIN r /\ r[k][1] \in Nat /\ r[k][1] <= c - 1 /\ r[k][2] = c - 1
      <4>1. Len(r) \in DOMAIN r
        BY <1>1, <2>3, EmptySeq
      <4> QED
        BY <1>1, <2>3, <4>1
    <3>2. new = [r EXCEPT ![k] = pair]
      BY <2>3 DEF ExtendRanges, Last, ReplaceAt
    <3>3. pair \in Nat \X Nat /\ pair[1] = r[k][1] /\ pair[2] = c
      BY <3>1
    <3> HIDE DEF k, pair, new
    <3>4. /\ new \in Seq(Nat \X Nat) /\ DOMAIN new = DOMAIN r
          /\ new[k] = pair
          /\ \A i \in DOMAIN r : i # k => new[i] = r[i]
      BY <1>1, <3>1, <3>2, <3>3, ExceptSeq
    <3>5. ASSUME NEW i \in DOMAIN new PROVE new[i][2] <= c /\ new[i][1] <= new[i][2]
      <4>1. CASE i = k
        <5>1. new[i][1] = r[k][1] /\ new[i][2] = c
          BY <3>3, <3>4, <4>1
        <5> QED
          BY <3>1, <5>1
      <4>2. CASE i # k
        BY <1>1, <3>4, <4>2
      <4> QED
        BY <4>1, <4>2
    <3>6. pair[1] .. pair[2] = (r[k][1] .. r[k][2]) \cup {c}
      BY <3>1, <3>3
    <3>7. ExpandRanges(new) \subseteq ExpandRanges(r) \cup {c}
      <4>1. ASSUME NEW x \in ExpandRanges(new) PROVE x \in ExpandRanges(r) \cup {c}
        <5>1. PICK i \in DOMAIN new : x \in new[i][1] .. new[i][2]
          BY <2>2, <4>1
        <5>2. i \in DOMAIN r /\ (x \in r[i][1] .. r[i][2] \/ x = c)
          BY <3>4, <3>6, <5>1
        <5> QED
          BY <2>2, <5>2
      <4> QED
        BY <4>1
    <3>8. ExpandRanges(r) \cup {c} \subseteq ExpandRanges(new)
      <4>1. ASSUME NEW x \in ExpandRanges(r) PROVE x \in ExpandRanges(new)
        <5>1. PICK i \in DOMAIN r : x \in r[i][1] .. r[i][2]
          BY <2>2, <4>1
        <5>2. i \in DOMAIN new /\ x \in new[i][1] .. new[i][2]
          BY <3>4, <3>6, <5>1
        <5> QED
          BY <2>2, <5>2
      <4>2. c \in ExpandRanges(new)
        <5>1. k \in DOMAIN new /\ c \in new[k][1] .. new[k][2]
          BY <3>1, <3>4, <3>6
        <5> QED
          BY <2>2, <5>1
      <4> QED
        BY <4>1, <4>2
    <3> QED
      BY <3>4, <3>5, <3>7, <3>8
  <2>4. CASE ~(r # <<>> /\ r[Len(r)][2] + 1 = c)
    <3> DEFINE k == Len(r) + 1
               pair == <<c, c>>
    <3>2. new = Append(r, pair)
      BY <2>4 DEF ExtendRanges, Last
    <3>3. pair \in Nat \X Nat /\ pair[1] = c /\ pair[2] = c
      OBVIOUS
    <3> HIDE DEF pair, new
    <3>4. /\ new \in Seq(Nat \X Nat) /\ DOMAIN new = 1 .. k
          /\ new[k] = pair
          /\ \A i \in DOMAIN r : new[i] = r[i]
      BY <1>1, <3>2, <3>3
    <3>5. \A i \in DOMAIN new : i \in DOMAIN r \/ i = k
      BY <1>1, <3>4
    <3>6. DOMAIN r \subseteq DOMAIN new /\ k \in DOMAIN new
      BY <1>1, <3>4
    <3> HIDE DEF k
    <3>7. \A i \in DOMAIN new : new[i][2] <= c /\ new[i][1] <= new[i][2]
      BY <1>1, <3>3, <3>4, <3>5
    <3>8. pair[1] .. pair[2] = {c}
      BY <3>3
    <3>9. ExpandRanges(new) \subseteq ExpandRanges(r) \cup {c}
      <4>1. ASSUME NEW x \in ExpandRanges(new) PROVE x \in ExpandRanges(r) \cup {c}
        <5>1. PICK i \in DOMAIN new : x \in new[i][1] .. new[i][2]
          BY <2>2, <4>1
        <5>2. x = c \/ (i \in DOMAIN r /\ x \in r[i][1] .. r[i][2])
          BY <3>4, <3>5, <3>8, <5>1
        <5> QED
          BY <2>2, <5>2
      <4> QED
        BY <4>1
    <3>10. ExpandRanges(r) \cup {c} \subseteq ExpandRanges(new)
      <4>1. ASSUME NEW x \in ExpandRanges(r) PROVE x \in ExpandRanges(new)
        <5>1. PICK i \in DOMAIN r : x \in r[i][1] .. r[i][2]
          BY <2>2, <4>1
        <5>2. i \in DOMAIN new /\ x \in new[i][1] .. new[i][2]
          BY <3>4, <3>6, <5>1
        <5> QED
          BY <2>2, <5>2
      <4>2. c \in ExpandRanges(new)
        <5>1. c \in new[k][1] .. new[k][2]
          BY <3>4, <3>8
        <5> QED
          BY <2>2, <3>6, <5>1
      <4> QED
        BY <4>1, <4>2
    <3> QED
      BY <3>4, <3>7, <3>9, <3>10
  <2> QED
    BY <2>3, <2>4
<1> QED
  BY <1>3, <1>4

(* compress_ranges loses and adds no position: expand_ranges is its inverse. *)
LEMMA CompressExpands ==
    ASSUME NEW positions \in SUBSET Record
    PROVE  /\ CompressRanges(positions) \in Seq(Nat \X Nat)
           /\ ExpandRanges(CompressRanges(positions)) = positions
<1> DEFINE walk == CHOOSE f : IsWalk(f, positions, MaxRecords)
<1>0. MaxRecords \in Nat
  BY SyncAssumption
<1>1. IsWalk(walk, positions, MaxRecords)
  BY <1>0, WalkExists
<1>2. CompressRanges(positions) = walk[MaxRecords]
  BY DEF CompressRanges, IsWalk
<1> HIDE DEF walk
<1>3. \A c \in 0 .. MaxRecords : Compressed(positions, walk[c], c)
  <2> DEFINE T == {c \in 0 .. MaxRecords : ~Compressed(positions, walk[c], c)}
  <2>1. SUFFICES ASSUME T # {} PROVE FALSE
    OBVIOUS
  <2>2. T \subseteq Nat
    OBVIOUS
  <2>3. PICK c \in T : \A y \in T : c <= y
    BY <2>1, <2>2, LeastMember
  <2>4. CASE c = 0
    <3>1. walk[0] = <<>>
      BY <1>0, <1>1 DEF IsWalk
    <3>2. ExpandRanges(<<>>) = {} /\ positions \cap 1 .. 0 = {}
      BY DEF ExpandRanges, ToSet
    <3>3. Compressed(positions, <<>>, 0)
      BY <3>2 DEF Compressed
    <3> QED
      BY <2>3, <2>4, <3>1, <3>3
  <2>5. CASE c # 0
    <3>1. c \in Nat \ {0} /\ c - 1 \in 0 .. MaxRecords /\ c \in 0 .. MaxRecords /\ ~(c <= c - 1)
      BY <1>0, <2>3, <2>5
    <3>2. Compressed(positions, walk[c - 1], c - 1)
      BY <2>3, <3>1
    <3>3. walk[c] = IF c \in positions THEN ExtendRanges(walk[c - 1], c) ELSE walk[c - 1]
      BY <1>1, <2>5, <3>1 DEF IsWalk
    <3>4. Compressed(positions, walk[c], c)
      BY <3>1, <3>2, <3>3, ExtendKeeps
    <3> QED
      BY <2>3, <3>4
  <2> QED
    BY <2>4, <2>5
<1>4. Compressed(positions, walk[MaxRecords], MaxRecords)
  BY <1>0, <1>3
<1>5. positions \cap 1 .. MaxRecords = positions
  BY DEF Record
<1> QED
  BY <1>2, <1>4, <1>5 DEF Compressed

-------------------------------------------------------------------------------
(* The inductive invariant *)

Ranges == Seq(Nat \X Nat)

Attempt ==
    [id : Nat, read : Lines, hash : Lines, raised : BOOLEAN,
     accepted : Ranges, duplicate : Ranges, rejected : SUBSET Nat, notAttempted : Ranges,
     disposition : {"fully_accepted", "partial", "transport_failed"}]

ReceiptFile == [exists : BOOLEAN, legible : BOOLEAN, attempts : Seq(Attempt)]

DiskInv ==
    /\ receipt \in ReceiptFile
    /\ siblings \in Seq(Seq(Attempt))
    /\ archive \in [DOMAIN archive -> ReceiptFile]

(* The lines are numbered in the order they were written, and the live file  *)
(* holds the last of them.                                                   *)
FileInv ==
    /\ written \in 0 .. MaxRecords
    /\ file \in Lines /\ Len(file) <= written
    /\ \A i \in DOMAIN file : file[i] = written - Len(file) + i
    /\ server \subseteq 1 .. written /\ wire \subseteq 1 .. written /\ unread \subseteq 1 .. written

(* The files in synced/ hold earlier ones. *)
SyncedInv ==
    /\ synced \in Seq([lines : Lines, read : Lines])
    /\ \A k \in DOMAIN synced : \A i \in DOMAIN synced[k].lines :
          synced[k].lines[i] <= written - Len(file)

Reading == {"hash", "send", "file", "raised", "retire"}

(* A run works on the lines the file began with; the batches it has sent     *)
(* before the next one were whole ones and went through.                     *)
RunInv ==
    /\ pc \in {"idle", "move"} \cup Reading
    /\ runs \in Nat /\ envelopes \in Lines /\ sha \in Lines /\ responses \in Seq(Response)
    /\ pc \in Reading => envelopes # <<>> /\ IsPrefix(envelopes, file)
    /\ pc \in Reading \ {"hash"} => IsPrefix(envelopes, sha) /\ IsPrefix(sha, file)
    /\ Len(responses) <= Len(envelopes)
    /\ \A i \in DOMAIN responses : IsSuccess(responses[i]) => envelopes[i] \in server
    /\ pc \in {"idle", "hash", "raised"} => responses = <<>>
    /\ pc = "send" => /\ Len(responses) < Len(envelopes)
                      /\ \E k \in Nat : Len(responses) = k * BatchSize
                      /\ Succeeded(responses)
    /\ pc \in {"file", "retire"} => Len(responses) = Len(envelopes) \/ ~Succeeded(responses)
    /\ pc = "retire" => Succeeded(responses)

Receipted(read, lines) ==
    \E a \in Attempts :
        /\ a.disposition = "fully_accepted"
        /\ a.read = read
        /\ IsPrefix(a.read, a.hash) /\ IsPrefix(a.hash, lines)

RetireInv ==
    /\ \A s \in ToSet(synced) : Receipted(s.read, s.lines)
    /\ pc = "retire" => Receipted(envelopes, file)

IInv == FileInv /\ SyncedInv /\ RunInv /\ DiskInv /\ RetireInv /\ ReceiptIsTrue /\ GapsStayInBatch

(* The next batch is what the file holds behind the answered lines; it is    *)
(* whole or the last.                                                        *)
LEMMA BatchLines ==
    ASSUME FileInv, RunInv, pc = "send"
    PROVE  LET n == Len(NextBatch)
               k == Len(responses)
           IN /\ n \in 1 .. BatchSize /\ k + n <= Len(envelopes)
              /\ n = BatchSize \/ k + n = Len(envelopes)
              /\ NextBatch \in Lines
              /\ \A i \in 1 .. n : NextBatch[i] = envelopes[k + i] /\ k + i \in DOMAIN envelopes
              /\ \A i \in 1 .. n : NextBatch[i] = file[k + i] /\ k + i \in DOMAIN file
<1> DEFINE k == Len(responses)
           m == Len(envelopes)
           to == IF k + BatchSize < m THEN k + BatchSize ELSE m
<1>1. k \in Nat /\ m \in Nat /\ k < m /\ BatchSize \in Nat \ {0}
  BY SyncAssumption DEF RunInv
<1>2. to \in k + 1 .. m /\ to - k \in 1 .. BatchSize /\ (to - k = BatchSize \/ to = m)
  BY <1>1
<1>3. NextBatch = SubSeq(envelopes, k + 1, to) /\ envelopes \in Lines
  BY DEF NextBatch, RunInv
<1>4. m <= Len(file) /\ \A i \in 1 .. m : envelopes[i] = file[i]
  <2>1. envelopes \in Seq(Record) /\ file \in Seq(Record) /\ IsPrefix(envelopes, file)
    BY DEF RunInv, FileInv, Lines, Reading
  <2> QED
    BY <2>1, PrefixPointwise
<1>5. DOMAIN envelopes = 1 .. m /\ DOMAIN file = 1 .. Len(file) /\ Len(file) \in Nat
  BY <1>3 DEF Lines, FileInv
<1> HIDE DEF to, k, m
<1>6. /\ NextBatch \in Lines /\ Len(NextBatch) = to - k
      /\ \A i \in 1 .. to - k : NextBatch[i] = envelopes[k + i]
  <2>1. k + 1 \in 1 .. m /\ to \in 1 .. m
    BY <1>1, <1>2
  <2>2. /\ SubSeq(envelopes, k + 1, to) \in Seq(Record)
        /\ Len(SubSeq(envelopes, k + 1, to)) = IF k + 1 <= to THEN to - (k + 1) + 1 ELSE 0
        /\ \A i \in 1 .. to - (k + 1) + 1 : SubSeq(envelopes, k + 1, to)[i] = envelopes[(k + 1) + i - 1]
    BY <1>1, <1>2, <1>3, <2>1, SubSeqProperties DEF Lines, m
  <2>3. to - (k + 1) + 1 = to - k /\ k + 1 <= to
    BY <1>1, <1>2
  <2>4. \A i \in 1 .. to - k : (k + 1) + i - 1 = k + i
    BY <1>1, <1>2
  <2> QED
    BY <1>3, <2>2, <2>3, <2>4 DEF Lines
<1>7. \A i \in 1 .. to - k : k + i \in 1 .. m /\ k + i \in 1 .. Len(file)
  BY <1>1, <1>2, <1>4, <1>5
<1>8. k + (to - k) <= m /\ (to - k = BatchSize \/ k + (to - k) = m)
  BY <1>1, <1>2
<1> QED
  BY <1>2, <1>4, <1>5, <1>6, <1>7, <1>8 DEF k, m

LEMMA BatchElements ==
    ASSUME FileInv, RunInv, pc = "send"
    PROVE  /\ ToSet(NextBatch) \subseteq ToSet(file)
           /\ ToSet(NextBatch) \subseteq 1 .. written
<1>1. /\ NextBatch \in Lines
      /\ \A i \in 1 .. Len(NextBatch) : \E j \in DOMAIN file : NextBatch[i] = file[j]
  BY BatchLines
<1>2. DOMAIN NextBatch = 1 .. Len(NextBatch)
  BY <1>1 DEF Lines
<1>3. \A j \in DOMAIN file : file[j] \in 1 .. written
  BY DEF FileInv, Lines
<1> QED
  BY <1>1, <1>2, <1>3 DEF ToSet

(* What a step adds to the server's records: the line being written, or some *)
(* of the batch in the air.                                                  *)
LEMMA ServerStep ==
    ASSUME FileInv, RunInv, [Next]_vars
    PROVE  \/ /\ WriterAppend
              /\ \/ UNCHANGED <<server, wire>>
                 \/ server' = server \cup {written'} /\ wire' = wire \cup {written'}
           \/ /\ UNCHANGED <<wire, written>> /\ ~WriterAppend
              /\ \/ UNCHANGED server
                 \/ pc = "send" /\ server \subseteq server' /\ server' \subseteq server \cup ToSet(NextBatch)
<1>1. CASE WriterAppend
  <2>1. PICK landed \in SUBSET {written'} : wire' = wire \cup landed /\ server' = server \cup landed
    BY <1>1 DEF WriterAppend
  <2>2. landed = {} \/ landed = {written'}
    OBVIOUS
  <2> QED
    BY <1>1, <2>1, <2>2
<1>2. ~WriterAppend => UNCHANGED <<wire, written>>
  BY DEF Next, vars, Sync, WriterCrash, ReceiptDamaged, EmptySynced, ReadSpool, HashSpool, SendBatch,
         SendRaises, FileReceipt, Retire, MoveReceipt, SyncCrash
<1>3. CASE SendBatch
  <2>1. PICK rs \in [1 .. Len(NextBatch) -> Response], lost \in SUBSET ToSet(NextBatch) :
           server' = server \cup lost \cup {NextBatch[i] : i \in {j \in DOMAIN rs : rs[j] = "accepted"}}
    BY <1>3 DEF SendBatch
  <2>2. NextBatch \in Lines
    BY <1>3, BatchLines DEF SendBatch
  <2>3. DOMAIN rs = DOMAIN NextBatch
    BY <2>2 DEF Lines
  <2>4. {NextBatch[i] : i \in {j \in DOMAIN rs : rs[j] = "accepted"}} \subseteq ToSet(NextBatch)
    BY <2>3 DEF ToSet
  <2>5. pc = "send"
    BY <1>3 DEF SendBatch
  <2>6. ~WriterAppend
    <3>1. written' = written
      BY <1>3 DEF SendBatch
    <3> QED
      BY <3>1 DEF WriterAppend, FileInv
  <2> QED
    BY <1>2, <2>1, <2>4, <2>5, <2>6
<1>4. CASE SendRaises
  <2>1. pc = "send" /\ server \subseteq server' /\ server' \subseteq server \cup ToSet(NextBatch)
    BY <1>4 DEF SendRaises
  <2>2. ~WriterAppend
    BY <1>4 DEF SendRaises, WriterAppend, FileInv
  <2> QED
    BY <1>2, <2>1, <2>2
<1>5. CASE SyncCrash
  <2>1. \/ UNCHANGED server
        \/ pc = "send" /\ server \subseteq server' /\ server' \subseteq server \cup ToSet(NextBatch)
    BY <1>5 DEF SyncCrash
  <2>2. ~WriterAppend
    BY <1>5 DEF SyncCrash, WriterAppend, FileInv
  <2> QED
    BY <1>2, <2>1, <2>2
<1>6. CASE ~WriterAppend /\ UNCHANGED server
  BY <1>2, <1>6
<1>7. WriterAppend \/ SendBatch \/ SendRaises \/ SyncCrash \/ UNCHANGED server
  BY DEF Next, vars, Sync, WriterCrash, ReceiptDamaged, EmptySynced, ReadSpool, HashSpool,
         FileReceipt, Retire, MoveReceipt
<1> QED
  BY <1>1, <1>3, <1>4, <1>5, <1>6, <1>7

-------------------------------------------------------------------------------
(* The files *)

LEMMA InitIInv == ASSUME Init PROVE IInv
<1>1. <<>> \in Lines /\ Len(<<>>) = 0 /\ DOMAIN <<>> = {}
  BY DEF Lines
<1>2. FileInv
  BY <1>1, SyncAssumption DEF Init, FileInv
<1>3. SyncedInv
  BY DEF Init, SyncedInv
<1>4. RunInv
  BY <1>1 DEF Init, RunInv, Reading
<1>5. DiskInv
  BY DEF Init, DiskInv, NoReceipt, ReceiptFile
<1>6. Attempts = {} /\ ToSet(synced) = {}
  BY DEF Init, Attempts, Receipts, NoReceipt, ToSet
<1>7. RetireInv /\ ReceiptIsTrue
  BY <1>6 DEF Init, RetireInv, ReceiptIsTrue
<1>8. GapsStayInBatch
  BY <1>6 DEF Init, GapsStayInBatch
<1> QED
  BY <1>2, <1>3, <1>4, <1>5, <1>7, <1>8 DEF IInv

(* A written line goes behind the ones in the file. *)
LEMMA AppendLine ==
    ASSUME FileInv, WriterAppend
    PROVE  /\ written' = written + 1 /\ written' \in Record
           /\ file' \in Lines /\ Len(file') = Len(file) + 1
           /\ \A i \in DOMAIN file : i \in DOMAIN file' /\ file'[i] = file[i]
           /\ Len(file') \in DOMAIN file' /\ file'[Len(file')] = written'
           /\ \A i \in DOMAIN file' : i \in DOMAIN file \/ i = Len(file')
           /\ ToSet(file') = ToSet(file) \cup {written'}
           /\ \A s \in Lines : IsPrefix(s, file) => IsPrefix(s, file')
<1>1. written \in Nat /\ written' = written + 1 /\ written' \in Record /\ file' = Append(file, written')
  BY SyncAssumption DEF WriterAppend, FileInv, Record
<1>2. file \in Seq(Record)
  BY DEF FileInv, Lines
<1>3. /\ file' \in Lines /\ Len(file') = Len(file) + 1
      /\ \A i \in DOMAIN file : i \in DOMAIN file' /\ file'[i] = file[i]
      /\ Len(file') \in DOMAIN file' /\ file'[Len(file')] = written'
      /\ \A i \in DOMAIN file' : i \in DOMAIN file \/ i = Len(file')
  BY <1>1, <1>2 DEF Lines
<1>4. ToSet(file') = ToSet(file) \cup {written'}
  BY <1>1, <1>2, AppendElements
<1>5. \A s \in Lines : IsPrefix(s, file) => IsPrefix(s, file')
  BY <1>1, <1>2, PrefixAppend DEF Lines
<1> QED
  BY <1>1, <1>3, <1>4, <1>5

LEMMA FileStep ==
    ASSUME [Next]_vars
    PROVE  WriterAppend \/ Retire \/ UNCHANGED <<file, unread>>
BY DEF Next, vars, Sync, WriterCrash, ReceiptDamaged, EmptySynced, ReadSpool, HashSpool, SendBatch,
       SendRaises, FileReceipt, MoveReceipt, SyncCrash

LEMMA NextFile == ASSUME IInv, [Next]_vars PROVE FileInv'
<1> USE DEF IInv
<1>1. CASE WriterAppend
  <2>1. /\ written' = written + 1 /\ written' \in Record
        /\ file' \in Lines /\ Len(file') = Len(file) + 1
        /\ \A i \in DOMAIN file : i \in DOMAIN file' /\ file'[i] = file[i]
        /\ Len(file') \in DOMAIN file' /\ file'[Len(file')] = written'
        /\ \A i \in DOMAIN file' : i \in DOMAIN file \/ i = Len(file')
    BY <1>1, AppendLine
  <2>2. written \in Nat /\ Len(file) \in Nat /\ Len(file) <= written /\ MaxRecords \in Nat
        /\ \A i \in DOMAIN file : i \in Nat /\ file[i] = written - Len(file) + i
    BY SyncAssumption DEF FileInv, Lines
  <2>3. \A i \in DOMAIN file' : file'[i] = written' - Len(file') + i
    BY <2>1, <2>2
  <2>4. /\ server' \subseteq server \cup {written'} /\ wire' \subseteq wire \cup {written'}
        /\ unread' = unread
    BY <1>1, ServerStep DEF WriterAppend
  <2>5. server' \subseteq 1 .. written' /\ wire' \subseteq 1 .. written' /\ unread' \subseteq 1 .. written'
    <3>1. 1 .. written \subseteq 1 .. written' /\ written' \in 1 .. written'
      BY <2>1, <2>2
    <3> QED
      BY <2>4, <3>1 DEF FileInv
  <2>6. written' \in 0 .. MaxRecords /\ Len(file') <= written'
    BY <2>1, <2>2 DEF Record
  <2> QED
    BY <2>1, <2>3, <2>5, <2>6 DEF FileInv
<1>2. CASE ~WriterAppend
  <2>1. /\ UNCHANGED <<wire, written>>
        /\ server' \subseteq 1 .. written
    BY <1>2, ServerStep, BatchElements DEF FileInv
  <2>2. CASE UNCHANGED <<file, unread>>
    BY <2>1, <2>2 DEF FileInv
  <2>3. CASE Retire
    <3>1. file' = <<>> /\ unread' \subseteq unread \cup ToSet(file)
      BY <2>3 DEF Retire
    <3>2. ToSet(file) \subseteq 1 .. written
      BY DEF FileInv, Lines, ToSet
    <3>3. file' \in Lines /\ Len(file') = 0 /\ DOMAIN file' = {}
      BY <3>1 DEF Lines
    <3>4. unread' \subseteq 1 .. written
      BY <3>1, <3>2 DEF FileInv
    <3> QED
      BY <2>1, <3>3, <3>4, SyncAssumption DEF FileInv
  <2> QED
    BY <1>2, <2>2, <2>3, FileStep
<1> QED
  BY <1>1, <1>2

LEMMA SyncedStep ==
    ASSUME [Next]_vars
    PROVE  EmptySynced \/ Retire \/ UNCHANGED synced
BY DEF Next, vars, Sync, diskVars, WriterAppend, WriterCrash, ReceiptDamaged, ReadSpool, HashSpool,
       SendBatch, SendRaises, FileReceipt, MoveReceipt, SyncCrash

LEMMA NextSynced == ASSUME IInv, [Next]_vars, FileInv' PROVE SyncedInv'
<1> USE DEF IInv
<1>1. CASE EmptySynced
  <2>1. synced' = <<>>
    BY <1>1 DEF EmptySynced
  <2> QED
    BY <2>1 DEF SyncedInv
<1>2. CASE Retire
  <2> DEFINE new == [lines |-> file, read |-> envelopes]
  <2>1. /\ synced' = Append(synced, new) /\ synced \in Seq([lines : Lines, read : Lines])
        /\ new \in [lines : Lines, read : Lines] /\ new.lines = file
        /\ written' = written /\ Len(file') = 0
    BY <1>2 DEF Retire, FileInv, RunInv, SyncedInv
  <2> HIDE DEF new
  <2>2. synced' \in Seq([lines : Lines, read : Lines])
    BY <2>1
  <2>3. ASSUME NEW k \in DOMAIN synced', NEW i \in DOMAIN synced'[k].lines
        PROVE  synced'[k].lines[i] <= written'
    <3>1. CASE k \in DOMAIN synced
      <4>1. synced'[k] = synced[k]
        BY <2>1, <3>1
      <4>2. synced[k].lines[i] <= written - Len(file)
        BY <2>3, <3>1, <4>1 DEF SyncedInv
      <4>3. synced[k].lines \in Lines
        <5> DEFINE S == [lines : Lines, read : Lines]
        <5>0. synced \in Seq(S) /\ k \in 1 .. Len(synced)
          BY <2>1, <3>1
        <5> HIDE DEF S
        <5>a. synced[k] \in S
          BY <5>0, ElementOfSeq
        <5>1. synced[k] \in [lines : Lines, read : Lines]
          BY <5>a DEF S
        <5> QED
          BY <5>1
      <4>4. synced[k].lines[i] \in Nat
        <5>1. synced[k].lines[i] \in Record
          BY <2>3, <4>1, <4>3, ElementOfSeq DEF Lines
        <5> QED
          BY <5>1 DEF Record
      <4>5. Len(file) \in Nat /\ written \in Nat
        BY DEF FileInv, Lines
      <4> QED
        BY <2>1, <4>1, <4>2, <4>4, <4>5
    <3>2. CASE k \notin DOMAIN synced
      <4>1. synced'[k] = new
        BY <2>1, <2>3, <3>2
      <4>2. i \in DOMAIN file /\ synced'[k].lines[i] = file[i]
        BY <2>1, <2>3, <4>1
      <4> QED
        BY <2>1, <4>2 DEF FileInv, Lines
    <3> QED
      BY <3>1, <3>2
  <2>4. written' - Len(file') = written'
    BY <2>1 DEF FileInv
  <2> QED
    BY <2>2, <2>3, <2>4 DEF SyncedInv
<1>3. CASE UNCHANGED synced /\ ~Retire
  <2>1. written' - Len(file') = written - Len(file)
    <3>1. CASE WriterAppend
      BY <3>1, AppendLine DEF FileInv, Lines
    <3>2. CASE ~WriterAppend
      BY <1>3, <3>2, FileStep, ServerStep
    <3> QED
      BY <3>1, <3>2
  <2> QED
    BY <1>3, <2>1 DEF SyncedInv
<1> QED
  BY <1>1, <1>2, <1>3, SyncedStep

-------------------------------------------------------------------------------
(* The run *)

LEMMA EndRunInv ==
    ASSUME RunInv, EndRun
    PROVE  RunInv'
<1>1. <<>> \in Lines /\ <<>> \in Seq(Response) /\ Len(<<>>) = 0 /\ DOMAIN <<>> = {}
  BY DEF Lines
<1> QED
  BY <1>1 DEF EndRun, RunInv, Reading

LEMMA SendBatchRun ==
    ASSUME FileInv, RunInv, SendBatch
    PROVE  RunInv'
<1>1. PICK rs \in [1 .. Len(NextBatch) -> Response], lost \in SUBSET ToSet(NextBatch) :
         /\ \A i \in DOMAIN rs :
                /\ rs[i] = "duplicate" => NextBatch[i] \in server
                /\ rs[i] = "accepted" => NextBatch[i] \notin server
                /\ NextBatch[i] \in lost => rs[i] = "unavailable"
         /\ server' = server \cup lost \cup {NextBatch[i] : i \in {j \in DOMAIN rs : rs[j] = "accepted"}}
         /\ responses' = responses \o rs
         /\ pc' = IF Halts(responses') \/ Len(responses') = Len(envelopes) THEN "file" ELSE "send"
  BY DEF SendBatch
<1>2. UNCHANGED <<file, runs, envelopes, sha>> /\ pc = "send"
  BY DEF SendBatch
<1> DEFINE n == Len(NextBatch)
           k == Len(responses)
<1>3. /\ n \in 1 .. BatchSize /\ k + n <= Len(envelopes)
      /\ n = BatchSize \/ k + n = Len(envelopes)
      /\ \A i \in 1 .. n : NextBatch[i] = envelopes[k + i]
  BY <1>2, BatchLines
<1>4. k \in Nat /\ Len(envelopes) \in Nat /\ n \in Nat /\ BatchSize \in Nat \ {0}
  BY <1>2, <1>3, SyncAssumption DEF RunInv, Lines
<1>5. rs \in Seq(Response) /\ Len(rs) = n /\ DOMAIN rs = 1 .. n /\ responses \in Seq(Response)
  BY <1>4 DEF RunInv
<1>6. /\ responses' \in Seq(Response)
      /\ Len(responses') = k + n
      /\ \A i \in 1 .. k + n : responses'[i] = IF i <= k THEN responses[i] ELSE rs[i - k]
  <2> DEFINE cat == responses \o rs
  <2>1. /\ cat \in Seq(Response)
        /\ Len(cat) = Len(responses) + Len(rs)
        /\ \A i \in 1 .. Len(responses) + Len(rs) :
              cat[i] = IF i <= Len(responses) THEN responses[i] ELSE rs[i - Len(responses)]
    BY <1>5, ConcatProperties
  <2>2. responses' = cat
    BY <1>1
  <2> HIDE DEF cat
  <2> QED
    BY <1>5, <2>1, <2>2
<1>7. DOMAIN responses' = 1 .. k + n /\ DOMAIN responses = 1 .. k
  BY <1>4, <1>5, <1>6
<1> HIDE DEF n, k
<1>8. ASSUME NEW i \in DOMAIN responses', IsSuccess(responses'[i])
      PROVE  envelopes'[i] \in server'
  <2>1. CASE i <= k
    <3>1. i \in DOMAIN responses /\ responses'[i] = responses[i]
      BY <1>4, <1>6, <1>7, <2>1
    <3>2. envelopes[i] \in server
      BY <1>8, <3>1 DEF RunInv
    <3> QED
      BY <1>1, <1>2, <3>2
  <2>2. CASE i > k
    <3>1. i - k \in 1 .. n /\ k + (i - k) = i /\ responses'[i] = rs[i - k]
      BY <1>4, <1>6, <1>7, <2>2
    <3>2. PICK j \in 1 .. n : j = i - k /\ NextBatch[j] = envelopes[i] /\ responses'[i] = rs[j]
      BY <1>3, <3>1
    <3>3. rs[j] \in {"accepted", "duplicate"}
      BY <1>8, <3>2 DEF IsSuccess
    <3>4. NextBatch[j] \in server'
      BY <1>1, <1>5, <3>3
    <3> QED
      BY <1>2, <3>2, <3>4
  <2> QED
    BY <1>4, <1>7, <2>1, <2>2
<1>9. CASE pc' = "send"
  <2>1. ~Halts(responses') /\ Len(responses') # Len(envelopes)
    BY <1>1, <1>9
  <2>2. Succeeded(responses')
    BY <1>6, <2>1, FailedIndexFinds DEF Halts
  <2>3. n = BatchSize /\ Len(responses') < Len(envelopes')
    BY <1>2, <1>3, <1>4, <1>6, <2>1
  <2>4. \E j \in Nat : Len(responses') = j * BatchSize
    <3>1. PICK j \in Nat : k = j * BatchSize
      BY <1>2 DEF RunInv, k
    <3>2. j * BatchSize + BatchSize = (j + 1) * BatchSize /\ j + 1 \in Nat
      BY <1>4
    <3> QED
      BY <1>6, <2>3, <3>1, <3>2
  <2> QED
    BY <1>2, <1>6, <1>8, <1>9, <2>2, <2>3, <2>4 DEF RunInv, Reading, Succeeded
<1>10. CASE pc' = "file"
  <2>1. Len(responses') = Len(envelopes) \/ ~Succeeded(responses')
    BY <1>1, <1>6, <1>10, FailedIndexFinds DEF Halts
  <2>2. Len(responses') <= Len(envelopes')
    BY <1>2, <1>3, <1>6
  <2> QED
    BY <1>2, <1>6, <1>8, <1>10, <2>1, <2>2 DEF RunInv, Reading, Succeeded
<1> QED
  BY <1>1, <1>9, <1>10

LEMMA NextRun == ASSUME IInv, [Next]_vars, FileInv' PROVE RunInv'
<1> USE DEF IInv
<1>e. <<>> \in Lines /\ <<>> \in Seq(Response) /\ Len(<<>>) = 0 /\ DOMAIN <<>> = {}
  BY DEF Lines
<1>1. CASE WriterAppend
  <2>1. UNCHANGED runVars /\ server \subseteq server'
    BY <1>1 DEF WriterAppend
  <2>2. \A s \in Lines : IsPrefix(s, file) => IsPrefix(s, file')
    BY <1>1, AppendLine
  <2> QED
    BY <2>1, <2>2 DEF RunInv, runVars, Succeeded
<1>2. CASE WriterCrash \/ ReceiptDamaged \/ EmptySynced \/ UNCHANGED vars
  <2>1. UNCHANGED <<runVars, file, server>>
    BY <1>2 DEF WriterCrash, ReceiptDamaged, EmptySynced, vars
  <2> QED
    BY <2>1 DEF RunInv, runVars, Succeeded
<1>3. CASE ReadSpool
  <2>1. /\ responses' = <<>> /\ sha' = sha /\ file' = file /\ runs' = runs + 1 /\ file # <<>>
        /\ pc' = (IF torn THEN "idle" ELSE "hash") /\ envelopes' = IF torn THEN <<>> ELSE file
    BY <1>3 DEF ReadSpool, RunInv
  <2>2. IsPrefix(file, file) /\ Len(file) \in Nat
    BY PrefixSelf DEF FileInv, Lines
  <2>3. CASE torn
    BY <1>e, <2>1, <2>3 DEF RunInv, Reading
  <2>4. CASE ~torn
    BY <1>e, <2>1, <2>2, <2>4 DEF RunInv, Reading, FileInv
  <2> QED
    BY <2>3, <2>4
<1>4. CASE HashSpool
  <2>1. /\ pc' = "send" /\ sha' = file /\ responses' = <<>> /\ envelopes # <<>>
        /\ IsPrefix(envelopes, file) /\ UNCHANGED <<file, server, runs, envelopes>>
    BY <1>4 DEF HashSpool, RunInv, Reading
  <2>2. IsPrefix(file, file)
    BY PrefixSelf DEF FileInv, Lines
  <2>3. Len(envelopes) > 0
    BY <2>1, EmptySeq DEF RunInv, Lines
  <2>4. 0 \in Nat /\ 0 = 0 * BatchSize
    BY SyncAssumption
  <2> QED
    BY <1>e, <2>1, <2>2, <2>3, <2>4 DEF RunInv, Reading, FileInv, Succeeded
<1>5. CASE SendBatch
  BY <1>5, SendBatchRun
<1>6. CASE SendRaises
  <2>1. /\ pc = "send" /\ pc' = "raised" /\ responses' = <<>>
        /\ UNCHANGED <<file, runs, envelopes, sha>>
    BY <1>6 DEF SendRaises
  <2>2. Len(envelopes) \in Nat
    BY DEF RunInv, Lines
  <2> QED
    BY <1>e, <2>1, <2>2 DEF RunInv, Reading
<1>7. CASE FileReceipt /\ Outcome = "retire"
  <2>1. /\ pc = "file" /\ FailedIndex(responses) = 0 /\ pc' = "retire"
        /\ UNCHANGED <<file, server, runs, envelopes, sha, responses>>
    BY <1>7 DEF FileReceipt, Outcome
  <2>2. Succeeded(responses)
    BY <2>1, FailedIndexFinds DEF RunInv
  <2> QED
    BY <2>1, <2>2 DEF RunInv, Reading, Succeeded
<1>8. CASE Retire
  <2>1. pc' = "move" /\ UNCHANGED <<server, runs, envelopes, sha, responses>>
    BY <1>8 DEF Retire
  <2> QED
    BY <2>1 DEF RunInv, Reading
<1>9. CASE (FileReceipt /\ Outcome # "retire") \/ MoveReceipt \/ SyncCrash
  <2>1. EndRun
    BY <1>9 DEF FileReceipt, MoveReceipt, SyncCrash
  <2> QED
    BY <2>1, EndRunInv
<1> QED
  BY <1>1, <1>2, <1>3, <1>4, <1>5, <1>6, <1>7, <1>8, <1>9 DEF Next, Sync

-------------------------------------------------------------------------------
(* Receipts *)

NewAttempt == BuildAttempt(runs, envelopes, sha, responses, pc = "raised")

LEMMA AttemptIn ==
    ASSUME NEW a
    PROVE  a \in Attempts <=>
              \/ a \in ToSet(receipt.attempts)
              \/ \E k \in DOMAIN siblings : a \in ToSet(siblings[k])
              \/ \E n \in DOMAIN archive : a \in ToSet(archive[n].attempts)
<1>1. a \in Attempts <=> \E r \in Receipts : a \in ToSet(r)
  BY DEF Attempts
<1>2. \A r : r \in Receipts <=> \/ r = receipt.attempts
                                \/ \E k \in DOMAIN siblings : r = siblings[k]
                                \/ \E n \in DOMAIN archive : r = archive[n].attempts
  BY DEF Receipts, ToSet
<1> QED
  BY <1>1, <1>2

LEMMA AttemptInNext ==
    ASSUME NEW a
    PROVE  a \in Attempts' <=>
              \/ a \in ToSet(receipt'.attempts)
              \/ \E k \in DOMAIN siblings' : a \in ToSet(siblings'[k])
              \/ \E n \in DOMAIN archive' : a \in ToSet(archive'[n].attempts)
<1>1. a \in Attempts' <=> \E r \in Receipts' : a \in ToSet(r)
  BY DEF Attempts
<1>2. \A r : r \in Receipts' <=> \/ r = receipt'.attempts
                                 \/ \E k \in DOMAIN siblings' : r = siblings'[k]
                                 \/ \E n \in DOMAIN archive' : r = archive'[n].attempts
  BY DEF Receipts, ToSet
<1> QED
  BY <1>1, <1>2

(* append_attempt keeps what is filed, in a legible receipt and beside an    *)
(* illegible one.                                                            *)
LEMMA AppendAttemptAdds ==
    ASSUME DiskInv, NEW a \in Attempt, AppendAttempt(a), UNCHANGED archive
    PROVE  Attempts' = Attempts \cup {a} /\ DiskInv'
<1>1. CASE receipt.legible
  <2> DEFINE old == receipt.attempts
             new == Append(old, a)
  <2>1. receipt' = [receipt EXCEPT !.exists = TRUE, !.attempts = new] /\ UNCHANGED siblings
    BY <1>1 DEF AppendAttempt
  <2>2. receipt \in ReceiptFile /\ old \in Seq(Attempt)
    BY DEF DiskInv, ReceiptFile
  <2>3. new \in Seq(Attempt) /\ ToSet(new) = ToSet(old) \cup {a}
    BY <2>2, AppendElements
  <2> HIDE DEF new
  <2>4. receipt' \in ReceiptFile /\ receipt'.attempts = new
    <3> HIDE DEF old
    <3> QED
      BY <2>1, <2>2, <2>3 DEF ReceiptFile
  <2>5. \A x : x \in Attempts' <=> x \in Attempts \/ x = a
    BY <2>1, <2>3, <2>4, AttemptIn, AttemptInNext
  <2>6. DiskInv'
    BY <2>1, <2>4 DEF DiskInv
  <2> QED
    BY <2>5, <2>6
<1>2. CASE ~receipt.legible
  <2>1. siblings' = Append(siblings, <<a>>) /\ UNCHANGED receipt
    BY <1>2 DEF AppendAttempt
  <2>2. siblings \in Seq(Seq(Attempt)) /\ <<a>> \in Seq(Attempt) /\ ToSet(<<a>>) = {a}
    BY DEF DiskInv, ToSet
  <2> DEFINE one == <<a>>
  <2> HIDE DEF one
  <2>3. /\ siblings' \in Seq(Seq(Attempt))
        /\ \A k \in DOMAIN siblings : k \in DOMAIN siblings' /\ siblings'[k] = siblings[k]
        /\ Len(siblings') \in DOMAIN siblings' /\ siblings'[Len(siblings')] = one
        /\ \A k \in DOMAIN siblings' : k \in DOMAIN siblings \/ siblings'[k] = one
    <3>1. one \in Seq(Attempt) /\ siblings' = Append(siblings, one)
      BY <2>1, <2>2 DEF one
    <3> QED
      BY <2>2, <3>1
  <2>4. ToSet(one) = {a}
    BY <2>2 DEF one
  <2>5. \A x : (\E k \in DOMAIN siblings' : x \in ToSet(siblings'[k])) <=>
               (\E k \in DOMAIN siblings : x \in ToSet(siblings[k])) \/ x = a
    <3>1. ASSUME NEW x, NEW k \in DOMAIN siblings', x \in ToSet(siblings'[k])
          PROVE  (\E j \in DOMAIN siblings : x \in ToSet(siblings[j])) \/ x = a
      BY <2>3, <2>4, <3>1
    <3>2. ASSUME NEW x, NEW k \in DOMAIN siblings, x \in ToSet(siblings[k])
          PROVE  \E j \in DOMAIN siblings' : x \in ToSet(siblings'[j])
      BY <2>3, <3>2
    <3>3. a \in ToSet(siblings'[Len(siblings')])
      BY <2>3, <2>4
    <3> QED
      BY <2>3, <3>1, <3>2, <3>3
  <2>6. \A x : x \in Attempts' <=> x \in Attempts \/ x = a
    BY <2>1, <2>5, AttemptIn, AttemptInNext
  <2>7. DiskInv'
    BY <2>1, <2>3 DEF DiskInv
  <2> QED
    BY <2>6, <2>7
<1> QED
  BY <1>1, <1>2

(* _move_receipt takes a name that no receipt in synced/ has.                *)
LEMMA MoveReceiptKeeps ==
    ASSUME DiskInv, MoveReceipt
    PROVE  Attempts' = Attempts /\ DiskInv'
<1>1. PICK n \in 0 .. MaxRuns :
         /\ FreeSuffix(n)
         /\ archive' = [m \in DOMAIN archive \cup {n} |-> IF m = n THEN receipt ELSE archive[m]]
  BY DEF MoveReceipt
<1>2. n \notin DOMAIN archive /\ receipt' = NoReceipt /\ UNCHANGED siblings
  BY <1>1 DEF FreeSuffix, MoveReceipt
<1>3. NoReceipt \in ReceiptFile /\ NoReceipt.attempts = <<>> /\ ToSet(<<>>) = {}
  BY DEF NoReceipt, ReceiptFile, ToSet
<1>4. /\ DOMAIN archive' = DOMAIN archive \cup {n} /\ archive'[n] = receipt
      /\ \A m \in DOMAIN archive : archive'[m] = archive[m]
  BY <1>1, <1>2
<1>5. \A x : x \in Attempts' <=> x \in Attempts
  <2>1. \A x : (\E m \in DOMAIN archive' : x \in ToSet(archive'[m].attempts)) <=>
               x \in ToSet(receipt.attempts) \/ \E m \in DOMAIN archive : x \in ToSet(archive[m].attempts)
    BY <1>4
  <2>2. \A x : x \notin ToSet(receipt'.attempts)
    BY <1>2, <1>3
  <2> QED
    BY <1>2, <2>1, <2>2, AttemptIn, AttemptInNext
<1>6. archive' \in [DOMAIN archive' -> ReceiptFile]
  <2>1. \A m \in DOMAIN archive' : archive'[m] \in ReceiptFile
    BY <1>4 DEF DiskInv
  <2> QED
    BY <1>1, <2>1
<1>7. DiskInv'
  BY <1>2, <1>3, <1>6 DEF DiskInv
<1> QED
  BY <1>5, <1>7

(* No step but the filing of a receipt changes what is filed.                *)
LEMMA AttemptsStep ==
    ASSUME DiskInv, [Next]_vars, ~FileReceipt
    PROVE  Attempts' = Attempts /\ DiskInv'
<1>1. CASE ReceiptDamaged
  <2>1. receipt' = [receipt EXCEPT !.legible = FALSE] /\ UNCHANGED <<siblings, archive>>
    BY <1>1 DEF ReceiptDamaged
  <2>2. receipt' \in ReceiptFile /\ receipt'.attempts = receipt.attempts
    BY <2>1 DEF DiskInv, ReceiptFile
  <2>3. \A x : x \in Attempts' <=> x \in Attempts
    BY <2>1, <2>2, AttemptIn, AttemptInNext
  <2> QED
    BY <2>1, <2>2, <2>3 DEF DiskInv
<1>2. CASE MoveReceipt
  BY <1>2, MoveReceiptKeeps
<1>3. CASE UNCHANGED <<receipt, siblings, archive>>
  BY <1>3 DEF Attempts, Receipts, DiskInv
<1>4. ReceiptDamaged \/ MoveReceipt \/ UNCHANGED <<receipt, siblings, archive>>
  BY DEF Next, vars, Sync, diskVars, WriterAppend, WriterCrash, EmptySynced, ReadSpool, HashSpool,
         SendBatch, SendRaises, Retire, SyncCrash
<1> QED
  BY <1>1, <1>2, <1>3, <1>4

(* What a receipt may say of an attempt: the body of ReceiptIsTrue.          *)
TrueAttempt(a) ==
    LET buckets == <<ExpandRanges(a.accepted), ExpandRanges(a.duplicate), a.rejected,
                     ExpandRanges(a.notAttempted)>>
    IN /\ UNION ToSet(buckets) = DOMAIN a.read
       /\ \A i, j \in DOMAIN buckets : i # j => buckets[i] \cap buckets[j] = {}
       /\ \A p \in Delivered(a) : a.read[p] \in server
       /\ a.disposition = "fully_accepted" <=> Delivered(a) = DOMAIN a.read

LEMMA FourBuckets ==
    ASSUME NEW A, NEW B, NEW C, NEW D, NEW N, NEW buckets, buckets = <<A, B, C, D>>,
           A \cup B \cup C \cup D = N,
           A \cap B = {}, A \cap C = {}, A \cap D = {}, B \cap C = {}, B \cap D = {}, C \cap D = {}
    PROVE  /\ UNION ToSet(buckets) = N
           /\ \A i, j \in DOMAIN buckets : i # j => buckets[i] \cap buckets[j] = {}
<1>1. /\ DOMAIN buckets = {1, 2, 3, 4}
      /\ buckets[1] = A /\ buckets[2] = B /\ buckets[3] = C /\ buckets[4] = D
  OBVIOUS
<1>2. ToSet(buckets) = {A, B, C, D}
  BY <1>1 DEF ToSet
<1>3. UNION ToSet(buckets) = N
  BY <1>2
<1>4. \A i, j \in DOMAIN buckets : i # j => buckets[i] \cap buckets[j] = {}
  <2>1. TAKE i, j \in DOMAIN buckets
  <2>2. HAVE i # j
  <2>3. CASE i = 1
    BY <1>1, <2>2, <2>3
  <2>4. CASE i = 2
    BY <1>1, <2>2, <2>4
  <2>5. CASE i = 3
    BY <1>1, <2>2, <2>5
  <2>6. CASE i = 4
    BY <1>1, <2>2, <2>6
  <2> QED
    BY <1>1, <2>3, <2>4, <2>5, <2>6
<1> QED
  BY <1>3, <1>4

(* build_attempt tells the truth about the run.                              *)
LEMMA BuildIsTrue ==
    ASSUME FileInv, RunInv, pc \in {"file", "raised"}
    PROVE  /\ NewAttempt \in Attempt /\ TrueAttempt(NewAttempt)
           /\ NewAttempt.read = envelopes /\ NewAttempt.hash = sha
           /\ Outcome = "retire" => NewAttempt.disposition = "fully_accepted"
<1> DEFINE At(r) == {i \in DOMAIN responses : responses[i] = r}
           rest == Len(responses) + 1 .. Len(envelopes)
           halting == FailedIndex(responses)
           raised == pc = "raised"
           disposition == CASE raised \/ (halting # 0 /\ responses[halting] = "unavailable") -> "transport_failed"
                            [] OTHER -> IF halting = 0 THEN "fully_accepted" ELSE "partial"
           a == NewAttempt
<1>1. a = [id |-> runs, read |-> envelopes, hash |-> sha, raised |-> raised,
           accepted |-> CompressRanges(At("accepted")),
           duplicate |-> CompressRanges(At("duplicate")),
           rejected |-> At("rejected") \cup At("unavailable"),
           notAttempted |-> CompressRanges(rest),
           disposition |-> disposition]
  BY DEF NewAttempt, BuildAttempt
<1>2. /\ responses \in Seq(Response) /\ Len(responses) \in Nat /\ DOMAIN responses = 1 .. Len(responses)
      /\ envelopes \in Lines /\ Len(envelopes) \in Nat /\ DOMAIN envelopes = 1 .. Len(envelopes)
      /\ Len(responses) <= Len(envelopes) /\ sha \in Lines /\ runs \in Nat
  BY DEF RunInv, Lines
<1>3. Len(envelopes) <= MaxRecords /\ MaxRecords \in Nat /\ Len(envelopes) # 0
  <2>1. IsPrefix(envelopes, file) /\ envelopes # <<>> /\ file \in Lines
    BY DEF RunInv, Reading, FileInv
  <2>2. Len(envelopes) <= Len(file) /\ Len(envelopes) # 0
    BY <1>2, <2>1, PrefixPointwise, EmptySeq DEF Lines
  <2>3. Len(file) \in Nat /\ Len(file) <= written /\ written \in 0 .. MaxRecords
    BY DEF FileInv, Lines
  <2> QED
    BY <1>2, <2>2, <2>3, SyncAssumption
<1>4. 1 .. Len(responses) \subseteq Record /\ rest \subseteq Record
  BY <1>2, <1>3 DEF Record
<1>5. \A i \in DOMAIN responses : responses[i] \in Response
  BY <1>2, ElementOfSeq
<1>6. /\ At("accepted") \in SUBSET Record /\ At("duplicate") \in SUBSET Record
      /\ At("rejected") \cup At("unavailable") \in SUBSET Nat
  BY <1>2, <1>4
<1>7. /\ CompressRanges(At("accepted")) \in Ranges /\ CompressRanges(At("duplicate")) \in Ranges
      /\ CompressRanges(rest) \in Ranges
      /\ ExpandRanges(CompressRanges(At("accepted"))) = At("accepted")
      /\ ExpandRanges(CompressRanges(At("duplicate"))) = At("duplicate")
      /\ ExpandRanges(CompressRanges(rest)) = rest
  <2>1. \A S \in SUBSET Record : CompressRanges(S) \in Ranges /\ ExpandRanges(CompressRanges(S)) = S
    BY CompressExpands DEF Ranges
  <2> HIDE DEF At, rest
  <2> QED
    BY <1>4, <1>6, <2>1
<1>8. /\ At("accepted") \cup At("duplicate") \cup (At("rejected") \cup At("unavailable")) \cup rest
           = DOMAIN envelopes
      /\ At("accepted") \cap At("duplicate") = {}
      /\ At("accepted") \cap (At("rejected") \cup At("unavailable")) = {}
      /\ At("duplicate") \cap (At("rejected") \cup At("unavailable")) = {}
  <2>1. At("accepted") \cup At("duplicate") \cup (At("rejected") \cup At("unavailable")) = 1 .. Len(responses)
    BY <1>2, <1>5 DEF Response
  <2>2. (1 .. Len(responses)) \cup rest = 1 .. Len(envelopes)
    BY <1>2
  <2>3. At("accepted") \cap At("duplicate") = {} /\ At("accepted") \cap (At("rejected") \cup At("unavailable")) = {}
        /\ At("duplicate") \cap (At("rejected") \cup At("unavailable")) = {}
    OBVIOUS
  <2> HIDE DEF At, rest
  <2> QED
    BY <1>2, <2>1, <2>2, <2>3
<1>9. /\ At("accepted") \cap rest = {} /\ At("duplicate") \cap rest = {}
      /\ (At("rejected") \cup At("unavailable")) \cap rest = {}
  <2>1. (1 .. Len(responses)) \cap rest = {}
    BY <1>2
  <2>2. \A r : At(r) \subseteq 1 .. Len(responses)
    BY <1>2
  <2> HIDE DEF At, rest
  <2> QED
    BY <2>1, <2>2
<1>10. \A i \in At("accepted") \cup At("duplicate") : envelopes[i] \in server
  BY DEF RunInv, IsSuccess
<1>11. disposition = "fully_accepted" <=> At("accepted") \cup At("duplicate") = DOMAIN envelopes
  <2>1. Succeeded(responses) <=> At("accepted") \cup At("duplicate") = DOMAIN responses
    BY DEF Succeeded, IsSuccess
  <2>2. halting = 0 <=> Succeeded(responses)
    BY <1>2, FailedIndexFinds
  <2>3. CASE raised
    <3>1. responses = <<>>
      BY <2>3 DEF RunInv
    <3>2. DOMAIN responses = {} /\ DOMAIN envelopes # {}
      <4>1. DOMAIN responses = {}
        BY <3>1
      <4>2. 1 \in DOMAIN envelopes
        BY <1>2, <1>3
      <4> QED
        BY <4>1, <4>2
    <3>3. At("accepted") \cup At("duplicate") = {}
      BY <3>2
    <3>4. disposition = "transport_failed"
      BY <2>3
    <3> HIDE DEF At, disposition
    <3> QED
      BY <3>2, <3>3, <3>4
  <2>4. CASE ~raised /\ halting = 0
    <3>1. disposition = "fully_accepted"
      BY <2>4
    <3>2. Len(responses) = Len(envelopes)
      BY <2>2, <2>4 DEF RunInv
    <3> HIDE DEF At, disposition
    <3> QED
      BY <1>2, <2>1, <2>2, <2>4, <3>1, <3>2
  <2>5. CASE ~raised /\ halting # 0
    <3>1. disposition # "fully_accepted"
      BY <2>5
    <3>2. DOMAIN responses \subseteq DOMAIN envelopes
      BY <1>2
    <3>3. halting \in DOMAIN responses /\ ~IsSuccess(responses[halting])
      BY <1>2, <2>5, FailedIndexFinds
    <3>4. halting \notin At("accepted") \cup At("duplicate")
      <4> HIDE DEF halting
      <4> QED
        BY <3>3 DEF IsSuccess
    <3> HIDE DEF At, disposition, halting
    <3> QED
      BY <3>1, <3>2, <3>3, <3>4
  <2> QED
    BY <2>3, <2>4, <2>5
<1>12. disposition \in {"fully_accepted", "partial", "transport_failed"} /\ raised \in BOOLEAN
  OBVIOUS
<1>13. Outcome = "retire" => disposition = "fully_accepted"
  BY DEF Outcome
<1> HIDE DEF At, rest, halting, disposition, raised
<1>14. a \in Attempt
  BY <1>1, <1>2, <1>6, <1>7, <1>12 DEF Attempt
<1>15. /\ a.read = envelopes /\ a.hash = sha /\ a.disposition = disposition
       /\ ExpandRanges(a.accepted) = At("accepted") /\ ExpandRanges(a.duplicate) = At("duplicate")
       /\ a.rejected = At("rejected") \cup At("unavailable") /\ ExpandRanges(a.notAttempted) = rest
  BY <1>1, <1>7
<1> HIDE DEF a
<1>16. TrueAttempt(a)
  <2>1. Delivered(a) = At("accepted") \cup At("duplicate")
    BY <1>15 DEF Delivered
  <2> DEFINE buckets == <<ExpandRanges(a.accepted), ExpandRanges(a.duplicate), a.rejected,
                          ExpandRanges(a.notAttempted)>>
  <2>2. /\ UNION ToSet(buckets) = DOMAIN a.read
        /\ \A i, j \in DOMAIN buckets : i # j => buckets[i] \cap buckets[j] = {}
    <3> DEFINE A == ExpandRanges(a.accepted)
               B == ExpandRanges(a.duplicate)
               C == a.rejected
               D == ExpandRanges(a.notAttempted)
               N == DOMAIN a.read
    <3>1. /\ A \cup B \cup C \cup D = N
          /\ A \cap B = {} /\ A \cap C = {} /\ A \cap D = {} /\ B \cap C = {} /\ B \cap D = {} /\ C \cap D = {}
      BY <1>8, <1>9, <1>15
    <3>2. buckets = <<A, B, C, D>>
      OBVIOUS
    <3> HIDE DEF A, B, C, D, N, buckets
    <3>3. UNION ToSet(buckets) = N /\ \A i, j \in DOMAIN buckets : i # j => buckets[i] \cap buckets[j] = {}
      BY <3>1, <3>2, FourBuckets
    <3> QED
      BY <3>3 DEF N
  <2>3. /\ \A p \in Delivered(a) : a.read[p] \in server
        /\ a.disposition = "fully_accepted" <=> Delivered(a) = DOMAIN a.read
    BY <1>10, <1>11, <1>15, <2>1
  <2> QED
    BY <2>2, <2>3 DEF TrueAttempt
<1> QED
  BY <1>13, <1>14, <1>15, <1>16 DEF a

LEMMA AttemptsTyped == ASSUME DiskInv PROVE Attempts \subseteq Attempt
<1>1. ASSUME NEW s \in Seq(Attempt) PROVE ToSet(s) \subseteq Attempt
  BY DEF ToSet
<1>2. receipt.attempts \in Seq(Attempt)
  BY DEF DiskInv, ReceiptFile
<1>3. \A k \in DOMAIN siblings : siblings[k] \in Seq(Attempt)
  BY DEF DiskInv
<1>4. \A n \in DOMAIN archive : archive[n].attempts \in Seq(Attempt)
  <2>1. \A n \in DOMAIN archive : archive[n] \in ReceiptFile
    BY DEF DiskInv
  <2> QED
    BY <2>1 DEF ReceiptFile
<1>5. ASSUME NEW a \in Attempts PROVE a \in Attempt
  <2>1. \/ a \in ToSet(receipt.attempts)
        \/ \E k \in DOMAIN siblings : a \in ToSet(siblings[k])
        \/ \E n \in DOMAIN archive : a \in ToSet(archive[n].attempts)
    BY <1>5, AttemptIn
  <2> QED
    BY <1>1, <1>2, <1>3, <1>4, <2>1
<1> QED
  BY <1>5

(* What a step does to the filed attempts. *)
LEMMA FiledStep ==
    ASSUME IInv, [Next]_vars
    PROVE  /\ DiskInv'
           /\ \/ Attempts' = Attempts /\ ~FileReceipt
              \/ FileReceipt /\ Attempts' = Attempts \cup {NewAttempt}
<1>1. CASE FileReceipt
  <2>1. pc \in {"file", "raised"} /\ AppendAttempt(NewAttempt) /\ UNCHANGED archive
    BY <1>1 DEF FileReceipt, NewAttempt
  <2>2. NewAttempt \in Attempt
    BY <2>1, BuildIsTrue DEF IInv
  <2> HIDE DEF NewAttempt
  <2>3. Attempts' = Attempts \cup {NewAttempt} /\ DiskInv'
    BY <2>1, <2>2, AppendAttemptAdds DEF IInv
  <2> QED
    BY <1>1, <2>3
<1>2. CASE ~FileReceipt
  BY <1>2, AttemptsStep DEF IInv
<1> QED
  BY <1>1, <1>2

LEMMA ServerGrows == ASSUME IInv, [Next]_vars PROVE server \subseteq server'
BY ServerStep DEF IInv

LEMMA NextReceipts == ASSUME IInv, [Next]_vars PROVE ReceiptIsTrue'
<1>1. ASSUME NEW a, TrueAttempt(a) PROVE TrueAttempt(a)'
  BY <1>1, ServerGrows DEF TrueAttempt
<1>2. ASSUME NEW a \in Attempts PROVE TrueAttempt(a)
  BY <1>2 DEF IInv, ReceiptIsTrue, TrueAttempt
<1>3. ASSUME FileReceipt PROVE TrueAttempt(NewAttempt)
  BY <1>3, BuildIsTrue DEF IInv, FileReceipt
<1>4. ASSUME NEW a \in Attempts' PROVE TrueAttempt(a)'
  <2>1. a \in Attempts \/ (FileReceipt /\ a = NewAttempt)
    BY <1>4, FiledStep
  <2>2. TrueAttempt(a)
    BY <1>2, <1>3, <2>1
  <2> QED
    BY <1>1, <2>2
<1> QED
  BY <1>4 DEF ReceiptIsTrue, TrueAttempt

LEMMA NextRetire == ASSUME IInv, [Next]_vars, RunInv' PROVE RetireInv'
<1>1. Attempts \subseteq Attempts'
  BY FiledStep
<1>2. ASSUME NEW read, NEW lines, Receipted(read, lines) PROVE Receipted(read, lines)'
  BY <1>1, <1>2 DEF Receipted
<1>3. ASSUME NEW s \in ToSet(synced') PROVE Receipted(s.read, s.lines)'
  <2>1. CASE s \in ToSet(synced)
    <3>1. Receipted(s.read, s.lines)
      BY <2>1 DEF IInv, RetireInv
    <3> QED
      BY <1>2, <3>1
  <2>2. CASE s \notin ToSet(synced)
    <3> DEFINE new == [lines |-> file, read |-> envelopes]
    <3>1. Retire
      <4>1. EmptySynced => ToSet(synced') = {}
        BY DEF EmptySynced, ToSet
      <4> QED
        BY <1>3, <2>2, <4>1, SyncedStep
    <3>2. pc = "retire" /\ synced' = Append(synced, new)
      BY <3>1 DEF Retire
    <3>3. new.lines = file /\ new.read = envelopes
      OBVIOUS
    <3> HIDE DEF new
    <3>4. ToSet(synced') = ToSet(synced) \cup {new}
      BY <3>2, AppendElements DEF IInv, SyncedInv
    <3>5. s.read = envelopes /\ s.lines = file
      BY <1>3, <2>2, <3>3, <3>4
    <3>6. Receipted(s.read, s.lines)
      BY <3>2, <3>5 DEF IInv, RetireInv
    <3> QED
      BY <1>2, <3>6
  <2> QED
    BY <2>1, <2>2
<1>4. ASSUME pc' = "retire" PROVE Receipted(envelopes, file)'
  <2>1. CASE FileReceipt
    <3>1. /\ Outcome = "retire" /\ pc \in {"file", "raised"} /\ UNCHANGED <<file, envelopes, sha>>
      BY <1>4, <2>1 DEF FileReceipt, EndRun
    <3>2. /\ NewAttempt.read = envelopes /\ NewAttempt.hash = sha
          /\ NewAttempt.disposition = "fully_accepted"
      BY <3>1, BuildIsTrue DEF IInv
    <3>3. NewAttempt \in Attempts'
      BY <2>1, FiledStep
    <3>4. IsPrefix(envelopes, sha) /\ IsPrefix(sha, file)
      BY <3>1 DEF IInv, RunInv, Reading
    <3>5. PICK a \in Attempts' : a.disposition = "fully_accepted" /\ a.read = envelopes /\ a.hash = sha
      BY <3>2, <3>3
    <3> QED
      BY <3>1, <3>4, <3>5 DEF Receipted
  <2>2. CASE ~FileReceipt
    <3>1. pc = "retire" /\ envelopes' = envelopes /\ (file' = file \/ WriterAppend)
      BY <1>4, <2>2, FileStep DEF Next, vars, runVars, Sync, WriterAppend, WriterCrash, ReceiptDamaged,
            EmptySynced, ReadSpool, HashSpool, SendBatch, SendRaises, Retire, MoveReceipt, SyncCrash, EndRun
    <3>2. PICK a \in Attempts : /\ a.disposition = "fully_accepted" /\ a.read = envelopes
                                /\ IsPrefix(a.read, a.hash) /\ IsPrefix(a.hash, file)
      BY <3>1 DEF IInv, RetireInv, Receipted
    <3>3. a.hash \in Lines
      BY AttemptsTyped DEF IInv, Attempt
    <3>4. IsPrefix(a.hash, file')
      BY <3>1, <3>2, <3>3, AppendLine DEF IInv
    <3>5. a \in Attempts'
      BY <1>1
    <3> QED
      BY <3>1, <3>2, <3>4, <3>5 DEF Receipted
  <2> QED
    BY <2>1, <2>2
<1> QED
  BY <1>3, <1>4 DEF RetireInv

-------------------------------------------------------------------------------
(* Gaps *)

(* GapsStayInBatch for one file. *)
GapIn(f, has, landed) ==
    \A p, q \in DOMAIN f :
        (p - 1) \div BatchSize < (q - 1) \div BatchSize /\ f[q] \in has \ landed => f[p] \in has

LEMMA DivBelow ==
    ASSUME NEW n \in Nat, NEW m \in Nat, NEW b \in Nat \ {0}, NEW k \in Nat,
           k * b <= m, m < k * b + b, n \div b < m \div b
    PROVE  n < k * b
<1>1. m \div b = k
  OBVIOUS
<1>2. n \div b < k <=> n < k * b
  OBVIOUS
<1> QED
  BY <1>1, <1>2

(* A batch goes out only behind batches that went through. *)
LEMMA SendKeepsGaps ==
    ASSUME FileInv, RunInv, GapIn(file, server, wire), pc = "send", NEW has,
           server \subseteq has, has \subseteq server \cup ToSet(NextBatch)
    PROVE  GapIn(file, has, wire)
<1>1. /\ file \in Lines /\ DOMAIN file = 1 .. Len(file) /\ Len(file) \in Nat /\ written \in Nat
      /\ \A i \in DOMAIN file : file[i] = written - Len(file) + i
  BY DEF FileInv, Lines
<1>2. PICK j \in Nat : Len(responses) = j * BatchSize
  BY DEF RunInv
<1>3. BatchSize \in Nat \ {0}
  BY SyncAssumption
<1>4. Len(NextBatch) \in 1 .. BatchSize /\ NextBatch \in Lines
      /\ \A i \in 1 .. Len(NextBatch) : NextBatch[i] = file[Len(responses) + i] /\ Len(responses) + i \in DOMAIN file
  BY BatchLines
<1>5. \A p \in 1 .. Len(responses) : file[p] \in server
  <2>1. /\ responses \in Seq(Response) /\ DOMAIN responses = 1 .. Len(responses)
        /\ Len(responses) \in Nat /\ Len(envelopes) \in Nat /\ Len(responses) <= Len(envelopes)
        /\ envelopes \in Seq(Record) /\ IsPrefix(envelopes, file) /\ file \in Seq(Record)
    BY DEF RunInv, FileInv, Lines, Reading
  <2>2. \A p \in 1 .. Len(envelopes) : envelopes[p] = file[p]
    BY <2>1, PrefixPointwise
  <2>3. \A p \in DOMAIN responses : envelopes[p] \in server
    BY DEF RunInv, Succeeded
  <2> QED
    BY <2>1, <2>2, <2>3
<1>6. ASSUME NEW p \in DOMAIN file, NEW q \in DOMAIN file,
             (p - 1) \div BatchSize < (q - 1) \div BatchSize, file[q] \in has \ wire
      PROVE  file[p] \in has
  <2>1. CASE file[q] \in server
    BY <1>6, <2>1 DEF GapIn
  <2>2. CASE file[q] \in ToSet(NextBatch)
    <3>1. PICK i \in 1 .. Len(NextBatch) : file[q] = NextBatch[i]
      <4>1. DOMAIN NextBatch = 1 .. Len(NextBatch)
        BY <1>4 DEF Lines
      <4> QED
        BY <2>2, <4>1 DEF ToSet
    <3>2. file[q] = file[Len(responses) + i] /\ Len(responses) + i \in DOMAIN file
      BY <1>4, <3>1
    <3>3. q = Len(responses) + i
      BY <1>1, <3>2
    <3>4. i \in Nat /\ 1 <= i /\ i <= BatchSize /\ p \in Nat \ {0} /\ j * BatchSize \in Nat
      BY <1>1, <1>2, <1>3, <1>4
    <3>5. q - 1 \in Nat /\ p - 1 \in Nat /\ j * BatchSize <= q - 1 /\ q - 1 < j * BatchSize + BatchSize
      BY <1>2, <1>3, <3>3, <3>4
    <3>6. p - 1 < j * BatchSize
      BY <1>3, <1>6, <3>5, DivBelow
    <3>7. p \in 1 .. Len(responses)
      BY <1>2, <3>4, <3>6
    <3> QED
      BY <1>5, <3>7
  <2> QED
    BY <1>6, <2>1, <2>2
<1> QED
  BY <1>6 DEF GapIn

LEMMA GapsAre ==
    /\ GapsStayInBatch <=>
          GapIn(file, server, wire) /\ \A s \in ToSet(synced) : GapIn(s.lines, server, wire)
    /\ GapsStayInBatch' <=>
          GapIn(file', server', wire') /\ \A s \in ToSet(synced') : GapIn(s.lines, server', wire')
BY DEF GapsStayInBatch, GapIn

LEMMA NextGaps == ASSUME IInv, [Next]_vars PROVE GapsStayInBatch'
<1> USE DEF IInv
<1>a. /\ GapIn(file, server, wire)
      /\ \A s \in ToSet(synced) : GapIn(s.lines, server, wire)
  BY GapsAre
<1>b. /\ file \in Lines /\ DOMAIN file = 1 .. Len(file) /\ Len(file) \in Nat /\ written \in Nat
      /\ \A i \in DOMAIN file : file[i] = written - Len(file) + i
  BY DEF FileInv, Lines
<1>c. ASSUME NEW s \in ToSet(synced), NEW i \in DOMAIN s.lines
      PROVE  s.lines[i] \in Nat /\ s.lines[i] <= written - Len(file)
  <2>1. PICK k \in DOMAIN synced : s = synced[k]
    BY DEF ToSet
  <2> DEFINE S == [lines : Lines, read : Lines]
  <2>2. synced \in Seq(S) /\ k \in 1 .. Len(synced)
    BY <2>1 DEF SyncedInv
  <2> HIDE DEF S
  <2>3. synced[k] \in S
    BY <2>2, ElementOfSeq
  <2>4. s.lines \in Seq(Record)
    BY <2>1, <2>3 DEF S, Lines
  <2>5. s.lines[i] \in Record
    BY <2>4
  <2> QED
    BY <1>c, <2>1, <2>5 DEF SyncedInv, Record
<1>1. CASE WriterAppend
  <2>1. /\ written' = written + 1 /\ Len(file') = Len(file) + 1 /\ file' \in Lines
        /\ \A i \in DOMAIN file : i \in DOMAIN file' /\ file'[i] = file[i]
        /\ file'[Len(file')] = written'
        /\ \A i \in DOMAIN file' : i \in DOMAIN file \/ i = Len(file')
    BY <1>1, AppendLine
  <2>2. \/ UNCHANGED <<server, wire>>
        \/ server' = server \cup {written'} /\ wire' = wire \cup {written'}
    BY <1>1, ServerStep
  <2>3. synced' = synced
    BY <1>1 DEF WriterAppend, diskVars
  <2>4. server' \ wire' \subseteq server /\ server \subseteq server' /\ server' \ wire' \subseteq server \ wire
    BY <2>2
  <2>5. written' \notin server' \ wire'
    <3>1. written' \notin server
      BY <1>b, <2>1 DEF FileInv
    <3> QED
      BY <2>2, <3>1
  <2>6. ASSUME NEW p \in DOMAIN file', NEW q \in DOMAIN file',
               (p - 1) \div BatchSize < (q - 1) \div BatchSize, file'[q] \in server' \ wire'
        PROVE  file'[p] \in server'
    <3>1. q \in DOMAIN file
      BY <2>1, <2>5, <2>6
    <3>2. p \in DOMAIN file
      <4>1. SUFFICES ASSUME p = Len(file') PROVE FALSE
        BY <2>1
      <4>2. q \in Nat /\ p \in Nat /\ q - 1 \in Nat /\ p - 1 \in Nat /\ q - 1 < p - 1
        BY <1>b, <2>1, <3>1, <4>1
      <4>3. (q - 1) \div BatchSize <= (p - 1) \div BatchSize
        BY <4>2, SyncAssumption
      <4>4. (q - 1) \div BatchSize \in Nat /\ (p - 1) \div BatchSize \in Nat
        BY <4>2, SyncAssumption
      <4> QED
        BY <2>6, <4>3, <4>4
    <3>3. file[q] \in server \ wire
      BY <2>1, <2>4, <2>6, <3>1
    <3>4. file[p] \in server
      BY <1>a, <2>6, <3>1, <3>2, <3>3 DEF GapIn
    <3> QED
      BY <2>1, <2>4, <3>2, <3>4
  <2>7. GapIn(file', server', wire')
    BY <2>6 DEF GapIn
  <2>8. \A s \in ToSet(synced') : GapIn(s.lines, server', wire')
    BY <1>a, <2>3, <2>4 DEF GapIn
  <2> QED
    BY <2>7, <2>8, GapsAre
<1>2. CASE ~WriterAppend /\ ~(UNCHANGED server)
  <2>1. /\ wire' = wire /\ pc = "send"
        /\ server \subseteq server' /\ server' \subseteq server \cup ToSet(NextBatch)
    BY <1>2, ServerStep
  <2>2. file' = file
    BY <1>2, <2>1, FileStep DEF Retire
  <2>3. GapIn(file, server', wire)
    BY <1>a, <2>1, SendKeepsGaps
  <2>4. ASSUME NEW s \in ToSet(synced) PROVE GapIn(s.lines, server', wire)
    <3>1. \A i \in DOMAIN s.lines : s.lines[i] \notin ToSet(NextBatch)
      <4>1. TAKE i \in DOMAIN s.lines
      <4>2. s.lines[i] \in Nat /\ s.lines[i] <= written - Len(file)
        BY <1>c
      <4>3. \A x \in ToSet(NextBatch) : \E k \in DOMAIN file : x = file[k]
        BY <2>1, BatchElements DEF ToSet
      <4> QED
        BY <1>b, <4>2, <4>3
    <3>2. \A i \in DOMAIN s.lines : s.lines[i] \in server' => s.lines[i] \in server
      BY <2>1, <3>1
    <3> QED
      BY <1>a, <2>1, <3>2 DEF GapIn
  <2>5. ToSet(synced') \subseteq ToSet(synced)
    <3>1. EmptySynced => ToSet(synced') = {}
      BY DEF EmptySynced, ToSet
    <3> QED
      BY <2>1, <3>1, SyncedStep DEF Retire
  <2> QED
    BY <2>1, <2>2, <2>3, <2>4, <2>5, GapsAre
<1>3. CASE ~WriterAppend /\ UNCHANGED server
  <2>1. wire' = wire
    BY <1>3, ServerStep
  <2>2. CASE Retire
    <3> DEFINE new == [lines |-> file, read |-> envelopes]
    <3>1. synced' = Append(synced, new) /\ new.lines = file /\ file' = <<>>
      BY <2>2 DEF Retire
    <3> HIDE DEF new
    <3>2. ToSet(synced') = ToSet(synced) \cup {new}
      BY <3>1, AppendElements DEF SyncedInv
    <3>3. GapIn(file', server, wire)
      BY <3>1 DEF GapIn
    <3>4. \A s \in ToSet(synced') : GapIn(s.lines, server, wire)
      BY <1>a, <3>1, <3>2
    <3> QED
      BY <1>3, <2>1, <3>3, <3>4, GapsAre
  <2>3. CASE ~Retire
    <3>1. file' = file
      BY <1>3, <2>3, FileStep
    <3>2. ToSet(synced') \subseteq ToSet(synced)
      <4>1. EmptySynced => ToSet(synced') = {}
        BY DEF EmptySynced, ToSet
      <4> QED
        BY <2>3, <4>1, SyncedStep
    <3> QED
      BY <1>3, <1>a, <2>1, <3>1, <3>2, GapsAre
  <2> QED
    BY <2>2, <2>3
<1> QED
  BY <1>1, <1>2, <1>3

-------------------------------------------------------------------------------
(* Theorems *)

LEMMA NextIInv == ASSUME IInv, [Next]_vars PROVE IInv'
<1>1. FileInv'
  BY NextFile
<1>2. RunInv'
  BY <1>1, NextRun
<1> QED
  BY <1>1, <1>2, NextSynced, FiledStep, NextRetire, NextReceipts, NextGaps DEF IInv

LEMMA Invariant == Spec => []IInv
<1>1. Init => IInv
  BY InitIInv
<1>2. IInv /\ [Next]_vars => IInv'
  BY NextIInv
<1> QED
  BY <1>1, <1>2, PTL DEF Spec

(* A receipt accounts for every record of its attempt exactly once, and what *)
(* it calls delivered is at the server: build_attempt under crashes, lost    *)
(* answers and re-runs.                                                      *)
THEOREM ReceiptsAreTrue == Spec => []ReceiptIsTrue
<1>1. IInv => ReceiptIsTrue
  BY DEF IInv
<1> QED
  BY <1>1, Invariant, PTL

(* replay_envelopes uploads nothing from a batch behind one the server lacks *)
(* a record of, for every batch size.                                        *)
THEOREM UploadsStayOrdered == Spec => []GapsStayInBatch
<1>1. IInv => GapsStayInBatch
  BY DEF IInv
<1> QED
  BY <1>1, Invariant, PTL

(* mark_synced retires a file only behind a fully accepted attempt for what  *)
(* the run had read and hashed.                                              *)
THEOREM RetiredFilesAreReceipted == Spec => []RetiredIsReceipted
<1>1. ASSUME IInv, NEW s \in ToSet(synced)
      PROVE  /\ ToSet(s.read) \subseteq server
             /\ \E a \in Attempts :
                   /\ a.disposition = "fully_accepted"
                   /\ a.read = s.read
                   /\ IsPrefix(a.read, a.hash) /\ IsPrefix(a.hash, s.lines)
  <2>1. PICK a \in Attempts :
           /\ a.disposition = "fully_accepted"
           /\ a.read = s.read
           /\ IsPrefix(a.read, a.hash) /\ IsPrefix(a.hash, s.lines)
    BY <1>1 DEF IInv, RetireInv, Receipted
  <2>2. ReceiptIsTrue
    BY <1>1 DEF IInv
  <2>3. \A p \in DOMAIN a.read : a.read[p] \in server
    BY <2>1, <2>2 DEF ReceiptIsTrue
  <2>4. ToSet(a.read) \subseteq server
    BY <2>3 DEF ToSet
  <2> QED
    BY <2>1, <2>4
<1>2. IInv => RetiredIsReceipted
  BY <1>1 DEF RetiredIsReceipted
<1> QED
  BY <1>2, Invariant, PTL

(* No step loses a filed attempt: append_attempt keeps the ones before it    *)
(* and mark_receipt_synced overwrites no receipt.                            *)
THEOREM AttemptsAreKept == Spec => AttemptsSurvive
<1>1. IInv /\ [Next]_vars => [Attempts \subseteq Attempts']_vars
  BY FiledStep
<1> QED
  BY <1>1, Invariant, PTL DEF Spec, AttemptsSurvive

-------------------------------------------------------------------------------
(* The spool implements Delivery. *)

LEMMA ForwardStep ==
    ASSUME NEW S \in SUBSET ToSet(file), UNCHANGED <<file, unread>>, server' = server \cup S
    PROVE  Promise!Forward
<1>1. {} \in SUBSET ToSet(file) /\ unread' = unread \cup {} /\ {} = {} \cup {}
      /\ ToSet(file') = ToSet(file) \ ({} \cup {})
  OBVIOUS
<1>2. {} \in SUBSET (ToSet(file) \cap (server' \cup {}))
  OBVIOUS
<1> QED
  BY <1>1, <1>2 DEF Promise!Forward

LEMMA DeliveryStep == ASSUME IInv, [Next]_vars PROVE [Promise!Next]_(Promise!vars)
<1> USE DEF IInv
<1>1. CASE WriterAppend
  <2>1. /\ written' = written + 1 /\ written' \in Record /\ written \in Nat
        /\ ToSet(file') = ToSet(file) \cup {written'}
    BY <1>1, AppendLine DEF FileInv
  <2>2. server' \in {server, server \cup {written'}} /\ unread' = unread
    BY <1>1, ServerStep DEF WriterAppend
  <2>3. ToSet(file) \subseteq 1 .. written /\ server \subseteq 1 .. written /\ unread \subseteq 1 .. written
    BY DEF FileInv, Lines, ToSet
  <2>4. written' \in Record \ (ToSet(file) \cup server \cup {} \cup unread)
    BY <2>1, <2>3
  <2>5. Promise!Accept
    BY <2>1, <2>2, <2>4 DEF Promise!Accept
  <2> QED
    BY <2>5 DEF Promise!Next
<1>2. CASE Retire
  <2>1. /\ pc = "retire" /\ file' = <<>> /\ server' = server
        /\ unread' = unread \cup (ToSet(file) \ ToSet(envelopes))
    BY <1>2 DEF Retire
  <2>2. ToSet(file') = {}
    BY <2>1 DEF ToSet
  <2>3. ToSet(envelopes) \subseteq ToSet(file) /\ ToSet(envelopes) \subseteq server
    <3>1. /\ envelopes \in Seq(Record) /\ file \in Seq(Record) /\ IsPrefix(envelopes, file)
          /\ responses \in Seq(Response) /\ Len(responses) = Len(envelopes) /\ Succeeded(responses)
      BY <2>1 DEF RunInv, FileInv, Lines, Reading
    <3>2. /\ DOMAIN envelopes = 1 .. Len(envelopes) /\ DOMAIN responses = 1 .. Len(envelopes)
          /\ DOMAIN file = 1 .. Len(file) /\ Len(file) \in Nat /\ Len(envelopes) \in Nat
      BY <3>1
    <3>3. Len(envelopes) <= Len(file) /\ \A i \in 1 .. Len(envelopes) : envelopes[i] = file[i]
      BY <3>1, PrefixPointwise
    <3>4. \A i \in DOMAIN envelopes : envelopes[i] \in server
      BY <3>1, <3>2 DEF RunInv, Succeeded
    <3>5. \A i \in DOMAIN envelopes : i \in DOMAIN file /\ envelopes[i] = file[i]
      BY <3>2, <3>3
    <3> QED
      BY <3>4, <3>5 DEF ToSet
  <2> DEFINE A == ToSet(file) \ ToSet(envelopes)
             R == ToSet(envelopes)
  <2>4. /\ {} \in SUBSET ToSet(file) /\ A \in SUBSET ToSet(file)
        /\ server' = server \cup {} /\ {} = {} \cup {} /\ unread' = unread \cup A
        /\ R \in SUBSET (ToSet(file) \cap (server' \cup {})) /\ ToSet(file') = ToSet(file) \ (R \cup A)
    BY <2>1, <2>2, <2>3
  <2> HIDE DEF A, R
  <2>5. Promise!Forward
    BY <2>4 DEF Promise!Forward
  <2> QED
    BY <2>5 DEF Promise!Next
<1>3. CASE ~WriterAppend /\ ~Retire
  <2>1. UNCHANGED <<file, unread>>
    BY <1>3, FileStep
  <2>2. CASE UNCHANGED server
    BY <2>1, <2>2 DEF Promise!vars
  <2>3. CASE ~(UNCHANGED server)
    <3>1. server \subseteq server' /\ server' \subseteq server \cup ToSet(file)
      BY <1>3, <2>3, ServerStep, BatchElements
    <3>2. PICK S \in SUBSET ToSet(file) : server' = server \cup S
      <4>1. server' \ server \in SUBSET ToSet(file) /\ server' = server \cup (server' \ server)
        BY <3>1
      <4> QED
        BY <4>1
    <3>3. Promise!Forward
      BY <2>1, <3>2, ForwardStep
    <3> QED
      BY <3>3 DEF Promise!Next
  <2> QED
    BY <2>2, <2>3
<1> QED
  BY <1>1, <1>2, <1>3

(* A spooled record leaves the spool only when the server has it, or is      *)
(* counted as unread: _sync_one and the writer implement the promise of      *)
(* Delivery.                                                                 *)
THEOREM SyncImplementsDelivery == Spec => ImplementsDelivery
<1>1. Init => Promise!Init
  BY DEF Init, Promise!Init, ToSet
<1>2. IInv /\ [Next]_vars => [Promise!Next]_(Promise!vars)
  BY DeliveryStep
<1> QED
  BY <1>1, <1>2, Invariant, PTL DEF Spec, ImplementsDelivery, Promise!Spec

================================================================================
