----------------------------- MODULE EvidenceProofs -----------------------------
(***************************************************************************)
(* Theorems about TrailVerifier and Evidence, for chains of any length and *)
(* any number of damages and exports.                                      *)
(*                                                                         *)
(* The verifier is a loop over its input, and what it concludes is proved  *)
(* by saying at every step which part of the input it has judged:          *)
(*   - ArchiveInv: what writing and damages leave behind;                  *)
(*   - WalkInv: the loop variables are what the records walked so far      *)
(*     call for, so at the end the verdict is Verdict's ChainVerdict;      *)
(*   - StatusInv: the records the export read are still the stored ones,   *)
(*     and their statuses are from the finished verifier;                  *)
(*   - BundleInv: while files are written, the manifest in the directory   *)
(*     is the older bundle's and the documents come first, so only the     *)
(*     older bundle, untouched, or the whole new one can check.            *)
(* The recursive scan of missing_ranges is shown equal to its definition   *)
(* for every input, by taking the least candidate where they would differ. *)
(***************************************************************************)
EXTENDS Evidence, VerdictProofs, FiniteSetTheorems, SequenceTheorems

(* One iteration of the loop of verdict.missing_ranges, at candidate c.      *)
ScanStep(present, s, c) ==
    CASE c \in present /\ s.start # 0 ->
             [start |-> 0, ranges |-> s.ranges \cup {<<s.start, c - 1>>}]
      [] c \notin present /\ s.start = 0 -> [s EXCEPT !.start = c]
      [] OTHER -> s

ScanStart == [start |-> 0, ranges |-> {}]

(* f is the run of the loop over the candidates 1 .. n.                      *)
IsScan(f, present, n) ==
    f = [c \in 0 .. n |-> IF c = 0 THEN ScanStart ELSE ScanStep(present, f[c - 1], c)]

(* The loop has a run over any number of candidates. *)
LEMMA ScanExists ==
    ASSUME NEW present, NEW m \in Nat
    PROVE  \E f : IsScan(f, present, m)
<1> DEFINE T == {n \in Nat : ~\E f : IsScan(f, present, n)}
<1>1. SUFFICES ASSUME T # {} PROVE FALSE
  OBVIOUS
<1>2. PICK n \in T : \A y \in T : n <= y
  BY <1>1, LeastMember
<1>3. CASE n = 0
  <2>1. IsScan([c \in 0 .. 0 |-> ScanStart], present, 0)
    BY DEF IsScan
  <2> QED
    BY <1>2, <1>3, <2>1
<1>4. CASE n # 0
  <2>1. n - 1 \in Nat /\ n - 1 \notin T
    BY <1>2, <1>4
  <2>2. PICK f : IsScan(f, present, n - 1)
    BY <2>1
  <2> DEFINE g == [c \in 0 .. n |-> IF c = n THEN ScanStep(present, f[n - 1], n) ELSE f[c]]
  <2>3. \A c \in 0 .. n : g[c] = IF c = 0 THEN ScanStart ELSE ScanStep(present, g[c - 1], c)
    <3>1. TAKE c \in 0 .. n
    <3>2. CASE c = n
      BY <1>4, <2>1, <3>2
    <3>3. CASE c # n
      <4>1. c \in 0 .. (n - 1) /\ c - 1 # n /\ (c # 0 => c - 1 \in 0 .. n)
        BY <2>1, <3>3
      <4>2. f[c] = IF c = 0 THEN ScanStart ELSE ScanStep(present, f[c - 1], c)
        BY <2>2, <4>1 DEF IsScan
      <4> QED
        BY <3>3, <4>1, <4>2
    <3> QED
      BY <3>2, <3>3
  <2>4. IsScan(g, present, n)
    BY <2>3 DEF IsScan
  <2> QED
    BY <1>2, <2>4
<1> QED
  BY <1>3, <1>4

(* The state of the loop after candidate c: it knows the ranges that end     *)
(* below c, and the start of the run of absent numbers that c is in.         *)
Scanned(present, s, c) ==
    /\ s = [start |-> s.start, ranges |-> {r \in missing_ranges(present) : r[2] < c}]
    /\ s.start \in 0 .. c
    /\ s.start = 0 <=> c = 0 \/ c \in present
    /\ s.start # 0 => /\ \A k \in s.start .. c : k \notin present
                      /\ s.start = 1 \/ s.start - 1 \in present

(* What makes a pair one of the missing ranges. *)
LEMMA RangeShape ==
    ASSUME NEW present \in SUBSET (Nat \ {0}), NEW r
    PROVE  r \in missing_ranges(present) <=>
             \E a, b \in Nat \ {0} :
                /\ r = <<a, b>>
                /\ a <= b
                /\ b + 1 \in present
                /\ \A n \in a .. b : n \notin present
                /\ a = 1 \/ a - 1 \in present
<1>1. ASSUME r \in missing_ranges(present)
      PROVE  \E a, b \in Nat \ {0} :
                /\ r = <<a, b>>
                /\ a <= b
                /\ b + 1 \in present
                /\ \A n \in a .. b : n \notin present
                /\ a = 1 \/ a - 1 \in present
  <2>1. PICK s \in present : \E a \in 1 .. (s - 1) : r = <<a, s - 1>>
    BY <1>1 DEF missing_ranges
  <2>2. PICK a \in 1 .. (s - 1) : r = <<a, s - 1>>
    BY <2>1
  <2>3. r[1] = a /\ r[2] = s - 1
    BY <2>2
  <2>4. a \in Nat \ {0} /\ s - 1 \in Nat \ {0} /\ a <= s - 1 /\ (s - 1) + 1 \in present
    BY <2>1, <2>2
  <2>5. (\A n \in a .. (s - 1) : n \notin present) /\ (a = 1 \/ a - 1 \in present)
    BY <1>1, <2>3 DEF missing_ranges
  <2> QED
    BY <2>2, <2>4, <2>5
<1>2. ASSUME NEW a \in Nat \ {0}, NEW b \in Nat \ {0},
             r = <<a, b>>, a <= b, b + 1 \in present,
             \A n \in a .. b : n \notin present,
             a = 1 \/ a - 1 \in present
      PROVE  r \in missing_ranges(present)
  <2>1. r[1] = a /\ r[2] = b
    BY <1>2
  <2>2. a \in 1 .. ((b + 1) - 1) /\ r = <<a, (b + 1) - 1>>
    BY <1>2
  <2>3. r \in UNION {{<<x, s - 1>> : x \in 1 .. (s - 1)} : s \in present}
    BY <1>2, <2>2
  <2> QED
    BY <1>2, <2>1, <2>3 DEF missing_ranges
<1> QED
  BY <1>1, <1>2

LEMMA ScanStepKeeps ==
    ASSUME NEW present \in SUBSET (Nat \ {0}), NEW c \in Nat \ {0}, NEW s,
           Scanned(present, s, c - 1)
    PROVE  Scanned(present, ScanStep(present, s, c), c)
<1> DEFINE MR == missing_ranges(present)
<1> DEFINE Below(n) == {r \in MR : r[2] < n}
<1>1. /\ s = [start |-> s.start, ranges |-> Below(c - 1)]
      /\ s.start \in 0 .. c - 1
      /\ s.start = 0 <=> c - 1 = 0 \/ c - 1 \in present
      /\ s.start # 0 => /\ \A k \in s.start .. c - 1 : k \notin present
                        /\ s.start = 1 \/ s.start - 1 \in present
  BY DEF Scanned
<1>2. \A r \in MR : r[1] \in Nat \ {0} /\ r[2] \in Nat \ {0} /\ r[1] <= r[2] /\ r[2] + 1 \in present
                    /\ r = <<r[1], r[2]>>
                    /\ (\A n \in r[1] .. r[2] : n \notin present)
                    /\ (r[1] = 1 \/ r[1] - 1 \in present)
  BY RangeShape
<1>3. CASE c \in present /\ s.start # 0
  <2>1. <<s.start, c - 1>> \in MR
    BY <1>1, <1>3, RangeShape
  <2>2. \A r \in MR : r[2] = c - 1 => r = <<s.start, c - 1>>
    <3>1. TAKE r \in MR
    <3>2. HAVE r[2] = c - 1
    <3>3. r[1] \in Nat \ {0} /\ r[1] <= c - 1 /\ (\A n \in r[1] .. (c - 1) : n \notin present)
          /\ (r[1] = 1 \/ r[1] - 1 \in present)
      BY <1>2, <3>2
    <3>4. r[1] = s.start
      <4>1. ~(r[1] < s.start)
        <5>1. SUFFICES ASSUME r[1] < s.start PROVE FALSE
          OBVIOUS
        <5>2. s.start - 1 \in r[1] .. (c - 1) /\ s.start # 1
          BY <1>1, <3>3, <5>1
        <5> QED
          BY <1>1, <1>3, <3>3, <5>2
      <4>2. ~(s.start < r[1])
        <5>1. SUFFICES ASSUME s.start < r[1] PROVE FALSE
          OBVIOUS
        <5>2. r[1] - 1 \in s.start .. (c - 1) /\ r[1] # 1
          BY <1>1, <1>3, <3>3, <5>1
        <5> QED
          BY <1>1, <1>3, <3>3, <5>2
      <4> QED
        BY <1>1, <3>3, <4>1, <4>2
    <3> QED
      BY <1>2, <3>2, <3>4
  <2>3. Below(c) = Below(c - 1) \cup {<<s.start, c - 1>>}
    <3>1. \A r \in MR : r[2] < c <=> r[2] < c - 1 \/ r[2] = c - 1
      BY <1>2
    <3>2. <<s.start, c - 1>>[2] = c - 1
      OBVIOUS
    <3> HIDE DEF MR
    <3> QED
      BY <2>1, <2>2, <3>1, <3>2
  <2>4. ScanStep(present, s, c) = [start |-> 0, ranges |-> Below(c)]
    <3>1. ScanStep(present, s, c) = [start |-> 0, ranges |-> s.ranges \cup {<<s.start, c - 1>>}]
      BY <1>3 DEF ScanStep
    <3>2. s.ranges = Below(c - 1)
      BY <1>1
    <3> QED
      BY <2>3, <3>1, <3>2
  <2> HIDE DEF MR
  <2> QED
    BY <1>3, <2>4 DEF Scanned, MR
<1>4. CASE ~(c \in present /\ s.start # 0)
  <2>1. \A r \in MR : r[2] # c - 1
    <3>1. TAKE r \in MR
    <3>2. SUFFICES ASSUME r[2] = c - 1 PROVE FALSE
      OBVIOUS
    <3>3. c \in present /\ c - 1 \notin present /\ c - 1 # 0
      BY <1>2, <3>2
    <3> QED
      BY <1>1, <1>4, <3>3
  <2>2. Below(c) = Below(c - 1)
    BY <1>2, <2>1
  <2>3. CASE c \notin present /\ s.start = 0
    <3>1. ScanStep(present, s, c) = [start |-> c, ranges |-> Below(c)]
      <4>1. ScanStep(present, s, c) = [s EXCEPT !.start = c]
        BY <2>3 DEF ScanStep
      <4> HIDE DEF Below
      <4>2. [[start |-> s.start, ranges |-> Below(c - 1)] EXCEPT !.start = c]
              = [start |-> c, ranges |-> Below(c - 1)]
        OBVIOUS
      <4> QED
        BY <1>1, <2>2, <4>1, <4>2
    <3>2. c = 1 \/ c - 1 \in present
      BY <1>1, <2>3
    <3>3. \A k \in c .. c : k \notin present
      BY <2>3
    <3> QED
      BY <2>3, <3>1, <3>2, <3>3 DEF Scanned
  <2>4. CASE c \in present /\ s.start = 0
    <3>1. ScanStep(present, s, c) = s
      BY <2>4 DEF ScanStep
    <3> QED
      BY <1>1, <2>2, <2>4, <3>1 DEF Scanned
  <2>5. CASE c \notin present /\ s.start # 0
    <3>1. ScanStep(present, s, c) = s
      BY <2>5 DEF ScanStep
    <3>2. \A k \in s.start .. c : k \notin present
      <4>1. \A k \in s.start .. c : k = c \/ k \in s.start .. c - 1
        BY <1>1
      <4> QED
        BY <1>1, <2>5, <4>1
    <3>3. s.start \in 0 .. c
      BY <1>1
    <3> QED
      BY <1>1, <2>2, <2>5, <3>1, <3>2, <3>3 DEF Scanned
  <2> QED
    BY <1>4, <2>3, <2>4, <2>5
<1> QED
  BY <1>3, <1>4

(* verdict.missing_ranges: its loop up to the highest number present returns *)
(* the missing ranges.                                                       *)
LEMMA ScanIsMissingRanges ==
    ASSUME NEW present \in SUBSET (Nat \ {0}), NEW last \in present,
           \A n \in present : n <= last
    PROVE  ScanRanges(present, last) = missing_ranges(present)
<1> DEFINE scan == CHOOSE f : IsScan(f, present, last)
<1>1. IsScan(scan, present, last)
  BY ScanExists
<1>2. ScanRanges(present, last) = scan[last].ranges
  BY DEF ScanRanges, IsScan, ScanStep, ScanStart
<1> HIDE DEF scan
<1>3. \A c \in 0 .. last : Scanned(present, scan[c], c)
  <2> DEFINE T == {c \in 0 .. last : ~Scanned(present, scan[c], c)}
  <2>1. SUFFICES ASSUME T # {} PROVE FALSE
    OBVIOUS
  <2>2. T \subseteq Nat
    OBVIOUS
  <2>3. PICK c \in T : \A y \in T : c <= y
    BY <2>1, <2>2, LeastMember
  <2>4. CASE c = 0
    <3>1. scan[0] = ScanStart
      BY <1>1 DEF IsScan
    <3>2. \A r \in missing_ranges(present) : ~(r[2] < 0)
      BY RangeShape
    <3>3. Scanned(present, ScanStart, 0)
      <4>1. {r \in missing_ranges(present) : r[2] < 0} = {}
        BY <3>2
      <4>2. ScanStart.start = 0 /\ ScanStart = [start |-> 0, ranges |-> {}]
        BY DEF ScanStart
      <4>3. ScanStart = [start |-> ScanStart.start,
                         ranges |-> {r \in missing_ranges(present) : r[2] < 0}]
        BY <4>1, <4>2, Zenon
      <4>4. ScanStart.start \in 0 .. 0
        BY <4>2
      <4> QED
        BY <4>2, <4>3, <4>4, Zenon DEF Scanned
    <3> QED
      BY <2>3, <2>4, <3>1, <3>3
  <2>5. CASE c # 0
    <3>1. c - 1 \in 0 .. last /\ c - 1 \notin T /\ c \in Nat \ {0} /\ c \in 0 .. last
      BY <2>2, <2>3, <2>5
    <3>2. Scanned(present, scan[c - 1], c - 1)
      BY <3>1
    <3>3. scan[c] = ScanStep(present, scan[c - 1], c)
      BY <1>1, <2>5, <3>1 DEF IsScan
    <3>4. Scanned(present, scan[c], c)
      BY <3>1, <3>2, <3>3, ScanStepKeeps
    <3> QED
      BY <2>3, <3>4
  <2> QED
    BY <2>4, <2>5
<1>4. Scanned(present, scan[last], last)
  BY <1>3
<1>5. \A r \in missing_ranges(present) : r[2] < last
  BY RangeShape
<1>6. scan[last].ranges = {r \in missing_ranges(present) : r[2] < last}
  BY <1>4 DEF Scanned
<1> QED
  BY <1>2, <1>5, <1>6

-------------------------------------------------------------------------------
(* The archive and the walk *)

Rec == [seq : 1 .. MaxLength, prev : Int, hash : Int, selfOk : BOOLEAN, bindOk : BOOLEAN]

(* What can be known of a stored record: only a hash that was never          *)
(* recomputed is positive, and it still comes with the link it was sealed    *)
(* with; a self hash that checks is the sealed or a recomputed one.          *)
Sealed(r, count) ==
    /\ r.hash > 0 => r.prev = r.hash - 1
    /\ r.selfOk => r.hash = r.seq \/ r.hash < 0
    /\ r.hash <= count

DamageCounted == damage \in Nat

ArchiveInv ==
    /\ DamageCounted
    /\ chain \in [tail : Nat, count : 0 .. MaxLength]
    /\ chain.tail = chain.count
    /\ \E n \in Nat : rows \in [1 .. n -> Rec]
    /\ \A i \in DOMAIN rows : Sealed(rows[i], chain.count)

(* What either walk has established of the records it has passed.            *)
Walked ==
    LET passed == DOMAIN rows \ todo IN
    /\ todo \subseteq DOMAIN rows
    /\ seen = {rows[i].seq : i \in passed}
    /\ \A i \in passed : ~RecordFails(rows, i)
    /\ \A i, j \in passed : rows[i].seq = rows[j].seq => i = j
    /\ \A i \in passed, j \in todo : rows[i].seq <= rows[j].seq

(* expected_prev is the hash of the last record passed.                      *)
Linked ==
    \/ todo = DOMAIN rows /\ expected = NoHash
    \/ \E j \in DOMAIN rows \ todo :
          /\ expected = rows[j].hash
          /\ \A k \in DOMAIN rows \ todo : rows[k].seq <= rows[j].seq

Unwalked == todo = {} /\ seen = {} /\ expected = NoHash

GapsFound == ~torn /\ gaps = missing_ranges(SequencesOf(rows))

Concluded ==
    /\ torn => verdict = TAMPERED
    /\ ~torn => /\ GapsFound
                /\ verdict = ChainVerdict(rows)
                /\ ~(verifier = "local" /\ DuplicateSequence(rows)) =>
                      /\ Walked
                      /\ verdict # TAMPERED => todo = {}
                      /\ verdict = TAMPERED => /\ first \in 1 .. MaxLength
                                               /\ \A j \in todo : first <= rows[j].seq

WalkInv ==
    /\ phase \in {"archive", "dups", "walk", "done"}
    /\ verifier \in {"local", "store"}
    /\ phase = "archive" => Unwalked /\ gaps = {}
    /\ phase = "dups" => /\ GapsFound
                         /\ verifier = "local"
                         /\ todo = DOMAIN rows /\ seen = {} /\ expected = NoHash
    /\ phase = "walk" => /\ GapsFound
                         /\ verifier = "local" => ~DuplicateSequence(rows)
                         /\ Walked
                         /\ Linked
    /\ phase = "done" => Concluded

VerifierInv == ArchiveInv /\ WalkInv

LEMMA RowFacts ==
    ASSUME ArchiveInv
    PROVE  /\ \A i \in DOMAIN rows : rows[i] \in Rec
           /\ SequencesOf(rows) \subseteq 1 .. MaxLength
           /\ SequencesOf(rows) \in SUBSET (Nat \ {0})
<1>1. \A i \in DOMAIN rows : rows[i] \in Rec
  BY DEF ArchiveInv
<1>2. \A i \in DOMAIN rows : rows[i].seq \in 1 .. MaxLength
  BY <1>1 DEF Rec
<1> QED
  BY <1>1, <1>2, TrailAssumption DEF SequencesOf

(* A record stored under a fresh row number leaves the others in place.      *)
LEMMA InsertFacts ==
    ASSUME ArchiveInv, NEW r \in Rec, Insert(r)
    PROVE  /\ \E n \in Nat : rows' \in [1 .. n -> Rec]
           /\ DOMAIN rows \subseteq DOMAIN rows'
           /\ \A i \in DOMAIN rows' : rows'[i] = IF i \in DOMAIN rows THEN rows[i] ELSE r
<1>1. PICK n \in Nat : rows \in [1 .. n -> Rec]
  BY DEF ArchiveInv
<1>2. DOMAIN rows = 1 .. n /\ Cardinality(1 .. n) = n
  BY <1>1, FS_Interval
<1>3. rows' = [i \in 1 .. (n + 1) |-> IF i \in 1 .. n THEN rows[i] ELSE r]
  BY <1>2 DEF Insert
<1> QED
  BY <1>1, <1>2, <1>3

(* A recomputed hash is none that was ever sealed.                           *)
LEMMA RehashedIsNegative ==
    ASSUME DamageCounted, NEW n \in Int, n >= 0
    PROVE  Rehashed(n) \in Int /\ Rehashed(n) < 0
<1> DEFINE d == damage + 1
           w == MaxLength + 1
<1>1. d \in Nat \ {0} /\ w \in Nat \ {0}
  BY TrailAssumption DEF DamageCounted
<1> HIDE DEF d, w
<1>2. d * w \in Int /\ d * w > 0
  BY <1>1
<1>3. Rehashed(n) = -(d * w + n)
  BY DEF Rehashed, d, w
<1> QED
  BY <1>2, <1>3

(* The step the writer or a damage makes in the archive keeps what is known  *)
(* of every record.                                                          *)
LEMMA ArchiveStep ==
    ASSUME ArchiveInv, WriterNext \/ DamageNext
    PROVE  ArchiveInv'
<1> USE TrailAssumption
<1>0. /\ chain.count \in 0 .. MaxLength /\ chain.tail \in Nat /\ chain.tail = chain.count
      /\ chain = [tail |-> chain.count, count |-> chain.count]
      /\ \A i \in DOMAIN rows : rows[i] \in Rec /\ Sealed(rows[i], chain.count)
  BY DEF ArchiveInv
<1>d. DamageCounted /\ DamageCounted'
  <2>1. DamageCounted
    BY DEF ArchiveInv
  <2>2. CASE WriterNext
    BY <2>1, <2>2 DEF DamageCounted, WriterNext, AppendRecord, LoseRecord, TearLastLine
  <2>3. CASE DamageNext
    <3>1. Damage
      BY <2>3 DEF DamageNext, EditField, EditPayload, Reseal, Replay
    <3>2. damage' = damage + 1
      BY <3>1 DEF Damage
    <3> QED
      BY <2>1, <3>2 DEF DamageCounted
  <2> QED
    BY <2>1, <2>2, <2>3
<1>1. CASE AppendRecord
  <2> DEFINE k == chain.count + 1
  <2> DEFINE r == [seq |-> k, prev |-> chain.count, hash |-> k, selfOk |-> TRUE, bindOk |-> TRUE]
  <2>1. chain.count < MaxLength /\ Insert(r) /\ chain' = [tail |-> k, count |-> k]
    BY <1>0, <1>1 DEF AppendRecord, MintedSeal, AfterMint
  <2>2. r \in Rec
    BY <1>0, <2>1 DEF Rec
  <2>3. \A i \in DOMAIN rows' : Sealed(rows'[i], chain'.count)
    <3>1. TAKE i \in DOMAIN rows'
    <3>2. CASE i \in DOMAIN rows
      <4>1. rows'[i] = rows[i] /\ Sealed(rows[i], chain.count) /\ rows[i].hash \in Int
        BY <1>0, <2>1, <2>2, <3>2, InsertFacts DEF Rec
      <4>2. chain'.count = chain.count + 1
        BY <2>1
      <4> QED
        BY <1>0, <4>1, <4>2 DEF Sealed
    <3>3. CASE i \notin DOMAIN rows
      <4>1. rows'[i] = r
        BY <2>1, <2>2, <3>3, InsertFacts
      <4>2. chain'.count = k
        BY <2>1
      <4> QED
        BY <1>0, <4>1, <4>2 DEF Sealed
    <3> QED
      BY <3>2, <3>3
  <2>4. chain' \in [tail : Nat, count : 0 .. MaxLength] /\ chain'.tail = chain'.count
    BY <1>0, <2>1
  <2>5. \E n \in Nat : rows' \in [1 .. n -> Rec]
    BY <2>1, <2>2, InsertFacts
  <2> QED
    BY <1>d, <2>3, <2>4, <2>5 DEF ArchiveInv, Rec
<1>2. CASE LoseRecord \/ TearLastLine
  <2>1. /\ chain.count < MaxLength
        /\ chain' = [tail |-> chain.count + 1, count |-> chain.count + 1]
        /\ rows' = rows
    BY <1>2 DEF LoseRecord, TearLastLine, AfterMint
  <2>2. chain' \in [tail : Nat, count : 0 .. MaxLength] /\ chain'.tail = chain'.count
        /\ chain'.count = chain.count + 1
    BY <1>0, <2>1
  <2>3. \A i \in DOMAIN rows : Sealed(rows[i], chain'.count)
    BY <1>0, <2>1, <2>2 DEF Sealed, Rec
  <2> QED
    BY <1>d, <2>1, <2>2, <2>3 DEF ArchiveInv
<1>3. CASE EditField \/ EditPayload
  <2>1. chain' = chain
    BY <1>3 DEF EditField, EditPayload, Damage
  <2>2. PICK i \in DOMAIN rows, n \in 1 .. MaxLength :
           \/ Alter(i, [rows[i] EXCEPT !.seq = n, !.selfOk = FALSE])
           \/ Alter(i, [rows[i] EXCEPT !.bindOk = FALSE])
    <3>1. CASE EditField
      BY <3>1 DEF EditField
    <3>2. CASE EditPayload
      <4>1. PICK i \in DOMAIN rows : Alter(i, [rows[i] EXCEPT !.bindOk = FALSE])
        BY <3>2 DEF EditPayload
      <4>2. rows[i].seq \in 1 .. MaxLength
        BY <1>0 DEF Rec
      <4> QED
        BY <4>1, <4>2
    <3> QED
      BY <1>3, <3>1, <3>2
  <2>3. PICK r : /\ rows' = [rows EXCEPT ![i] = r]
                 /\ \/ r = [rows[i] EXCEPT !.seq = n, !.selfOk = FALSE]
                    \/ r = [rows[i] EXCEPT !.bindOk = FALSE]
    BY <2>2 DEF Alter
  <2>4. r \in Rec /\ Sealed(r, chain.count)
    <3> DEFINE o == rows[i]
    <3>0. o \in Rec /\ Sealed(o, chain.count)
      BY <1>0
    <3> HIDE DEF o
    <3>1. CASE r = [o EXCEPT !.seq = n, !.selfOk = FALSE]
      BY <3>0, <3>1 DEF Sealed, Rec
    <3>2. CASE r = [o EXCEPT !.bindOk = FALSE]
      BY <3>0, <3>2 DEF Sealed, Rec
    <3> QED
      BY <2>3, <3>1, <3>2 DEF o
  <2>5. PICK m \in Nat : rows \in [1 .. m -> Rec]
    BY DEF ArchiveInv
  <2>6. rows' \in [1 .. m -> Rec] /\ DOMAIN rows' = DOMAIN rows
        /\ \A j \in DOMAIN rows : rows'[j] = IF j = i THEN r ELSE rows[j]
    BY <2>3, <2>4, <2>5
  <2>7. \A j \in DOMAIN rows' : Sealed(rows'[j], chain'.count)
    BY <1>0, <2>1, <2>4, <2>6 DEF Sealed
  <2> QED
    BY <1>d, <2>1, <2>6, <2>7 DEF ArchiveInv, Rec
<1>5. CASE Reseal
  <2>1. chain' = chain
    BY <1>5 DEF Reseal, Damage
  <2>2. PICK i \in DOMAIN rows, S \in SUBSET DOMAIN rows, numbers \in SUBSET Int :
           rows' = [j \in DOMAIN rows |->
              IF j \notin S THEN rows[j]
              ELSE [rows[j] EXCEPT
                       !.prev = IF j # i /\ rows[j].seq - 1 \in numbers
                                THEN Rehashed(rows[j].seq - 1) ELSE @,
                       !.hash = Rehashed(rows[j].seq),
                       !.selfOk = TRUE,
                       !.bindOk = TRUE]]
    <3>1. PICK i \in DOMAIN rows : \E last \in rows[i].seq .. MaxLength :
             LET after == {j \in DOMAIN rows : rows[j].seq \in rows[i].seq + 1 .. last}
                 numbers == {rows[j].seq : j \in after \cup {i}}
             IN  rows' = [j \in DOMAIN rows |->
                    IF j \notin after \cup {i} THEN rows[j]
                    ELSE [rows[j] EXCEPT
                             !.prev = IF j # i /\ rows[j].seq - 1 \in numbers
                                      THEN Rehashed(rows[j].seq - 1) ELSE @,
                             !.hash = Rehashed(rows[j].seq),
                             !.selfOk = TRUE,
                             !.bindOk = TRUE]]
      BY <1>5 DEF Reseal
    <3>2. PICK last \in rows[i].seq .. MaxLength :
             LET after == {j \in DOMAIN rows : rows[j].seq \in rows[i].seq + 1 .. last}
                 numbers == {rows[j].seq : j \in after \cup {i}}
             IN  rows' = [j \in DOMAIN rows |->
                    IF j \notin after \cup {i} THEN rows[j]
                    ELSE [rows[j] EXCEPT
                             !.prev = IF j # i /\ rows[j].seq - 1 \in numbers
                                      THEN Rehashed(rows[j].seq - 1) ELSE @,
                             !.hash = Rehashed(rows[j].seq),
                             !.selfOk = TRUE,
                             !.bindOk = TRUE]]
      BY <3>1
    <3> DEFINE S == {j \in DOMAIN rows : rows[j].seq \in rows[i].seq + 1 .. last} \cup {i}
    <3> DEFINE numbers == {rows[j].seq : j \in S}
    <3>3. S \in SUBSET DOMAIN rows /\ numbers \in SUBSET Int
      BY <1>0 DEF Rec
    <3>4. rows' = [j \in DOMAIN rows |->
                    IF j \notin S THEN rows[j]
                    ELSE [rows[j] EXCEPT
                             !.prev = IF j # i /\ rows[j].seq - 1 \in numbers
                                      THEN Rehashed(rows[j].seq - 1) ELSE @,
                             !.hash = Rehashed(rows[j].seq),
                             !.selfOk = TRUE,
                             !.bindOk = TRUE]]
      BY <3>2, Zenon
    <3> HIDE DEF S, numbers
    <3> QED
      BY <3>3, <3>4
  <2>3. \A j \in DOMAIN rows : rows'[j] \in Rec /\ Sealed(rows'[j], chain.count)
    <3>1. TAKE j \in DOMAIN rows
    <3> DEFINE o == rows[j]
    <3>2. o \in Rec /\ Sealed(o, chain.count)
      BY <1>0
    <3>3. CASE j \notin S
      BY <2>2, <3>2, <3>3
    <3>4. CASE j \in S
      <4> DEFINE p == IF j # i /\ o.seq - 1 \in numbers THEN Rehashed(o.seq - 1) ELSE o.prev
      <4> DEFINE h == Rehashed(o.seq)
      <4>1. o.seq \in 1 .. MaxLength /\ h \in Int /\ h < 0 /\ p \in Int
        BY <1>d, <3>2, RehashedIsNegative DEF Rec
      <4>2. rows'[j] = [o EXCEPT !.prev = p, !.hash = h, !.selfOk = TRUE, !.bindOk = TRUE]
        BY <2>2, <3>4
      <4> HIDE DEF o, p, h
      <4>3. rows'[j] \in Rec /\ rows'[j].hash = h
        BY <3>2, <4>1, <4>2 DEF Rec
      <4> QED
        BY <1>0, <4>1, <4>3 DEF Sealed
    <3> QED
      BY <3>3, <3>4
  <2>4. PICK m \in Nat : rows \in [1 .. m -> Rec]
    BY DEF ArchiveInv
  <2>5. DOMAIN rows' = DOMAIN rows /\ rows' = [j \in DOMAIN rows |-> rows'[j]]
    BY <2>2
  <2>6. rows' \in [1 .. m -> Rec]
    BY <2>3, <2>4, <2>5
  <2>7. \A j \in DOMAIN rows' : Sealed(rows'[j], chain'.count)
    BY <2>1, <2>3, <2>5
  <2> QED
    BY <1>d, <2>1, <2>6, <2>7 DEF ArchiveInv, Rec
<1>4. CASE Replay
  <2>1. PICK i \in DOMAIN rows : Insert(rows[i])
    BY <1>4 DEF Replay
  <2>2. chain' = chain
    BY <1>4 DEF Replay, Damage
  <2>3. rows[i] \in Rec /\ Sealed(rows[i], chain.count)
    BY <1>0
  <2>4. \A j \in DOMAIN rows' : Sealed(rows'[j], chain'.count)
    BY <1>0, <2>1, <2>2, <2>3, InsertFacts DEF Sealed
  <2>5. \E n \in Nat : rows' \in [1 .. n -> Rec]
    BY <2>1, <2>3, InsertFacts
  <2> QED
    BY <1>d, <2>2, <2>4, <2>5 DEF ArchiveInv, Rec
<1> QED
  BY <1>1, <1>2, <1>3, <1>4, <1>5 DEF WriterNext, DamageNext

(* The archive only changes before the verifier is called.                   *)
LEMMA WriterKeepsWalk ==
    ASSUME WalkInv, WriterNext \/ DamageNext
    PROVE  WalkInv' /\ phase = "archive" /\ phase' = phase
<1>1. phase = "archive" /\ phase' = phase /\ UNCHANGED walkVars
  BY DEF WriterNext, DamageNext, AppendRecord, LoseRecord, TearLastLine, EditField, EditPayload,
         Reseal, Replay, Damage
<1> QED
  BY <1>1 DEF WalkInv, walkVars, Unwalked

(* The greatest number present is one that is present.                       *)
LEMMA GreatestMember ==
    ASSUME NEW S, NEW b \in Nat, S \subseteq 1 .. b, S # {}
    PROVE  Greatest(S) \in S /\ \A n \in S : n <= Greatest(S)
<1> DEFINE T == {b - x : x \in S}
<1>0. \A x \in S : b - x \in Nat
  OBVIOUS
<1>1. T \subseteq Nat /\ T # {}
  BY <1>0
<1>2. PICK t \in T : \A y \in T : t <= y
  BY <1>1, LeastMember
<1>3. PICK m \in S : t = b - m
  BY <1>2
<1>4. \A n \in S : n <= m
  BY <1>2, <1>3
<1> QED
  BY <1>4 DEF Greatest

LEMMA LeastFacts ==
    ASSUME NEW S, S \subseteq Nat, S # {}
    PROVE  Least(S) \in S /\ \A n \in S : Least(S) <= n
  BY LeastMember DEF Least

LEMMA LoadKeeps ==
    ASSUME ArchiveInv, WalkInv, Load
    PROVE  WalkInv'
<1>0. phase = "archive" /\ Unwalked /\ gaps = {} /\ UNCHANGED <<archiveVars, verifier>>
      /\ verifier \in {"local", "store"}
  BY DEF Load, WalkInv
<1>1. CASE torn
  <2>1. verdict' = TAMPERED /\ phase' = "done" /\ torn'
    BY <1>0, <1>1 DEF Load, archiveVars
  <2> QED
    BY <1>0, <2>1 DEF WalkInv, Concluded
<1>2. CASE ~torn /\ DOMAIN rows = {}
  <2>1. verdict' = VALID /\ phase' = "done" /\ ~torn' /\ rows' = rows
        /\ UNCHANGED <<gaps, todo, seen>> /\ verifier' = verifier
    BY <1>0, <1>2 DEF Load, archiveVars
  <2>2. SequencesOf(rows) = {} /\ missing_ranges({}) = {}
    BY <1>2 DEF SequencesOf, missing_ranges
  <2>3. ~DuplicateSequence(rows) /\ ~\E i \in DOMAIN rows : RecordFails(rows, i)
    BY <1>2 DEF DuplicateSequence
  <2>4. ChainVerdict(rows) = VALID
    BY <2>2, <2>3 DEF ChainVerdict, decide
  <2>5. GapsFound' /\ Walked'
    BY <1>0, <1>2, <2>1, <2>2 DEF GapsFound, Walked, Unwalked
  <2>6. verdict' = ChainVerdict(rows') /\ verdict' # TAMPERED /\ todo' = {}
    BY <1>0, <2>1, <2>4 DEF VALID, TAMPERED, Unwalked
  <2> QED
    BY <1>0, <2>1, <2>5, <2>6 DEF WalkInv, Concluded
<1>3. CASE ~torn /\ DOMAIN rows # {}
  <2> DEFINE present == SequencesOf(rows)
  <2>1. /\ gaps' = ScanRanges(present, Greatest(present))
        /\ todo' = DOMAIN rows
        /\ phase' = IF verifier = "local" THEN "dups" ELSE "walk"
        /\ UNCHANGED <<archiveVars, verifier, seen, expected>>
    BY <1>3 DEF Load
  <2>2. present # {} /\ present \subseteq 1 .. MaxLength /\ present \in SUBSET (Nat \ {0})
    BY <1>3, RowFacts DEF SequencesOf
  <2>3. Greatest(present) \in present /\ \A n \in present : n <= Greatest(present)
    <3> HIDE DEF present
    <3> QED
      BY <2>2, GreatestMember, TrailAssumption
  <2>4. gaps' = missing_ranges(present)
    <3> HIDE DEF present
    <3> QED
      BY <2>1, <2>2, <2>3, ScanIsMissingRanges
  <2>5. GapsFound'
    BY <1>3, <2>1, <2>4 DEF GapsFound, archiveVars
  <2>6. Walked' /\ Linked' /\ seen' = {} /\ expected' = NoHash /\ todo' = DOMAIN rows'
    BY <1>0, <2>1 DEF Walked, Linked, Unwalked, archiveVars
  <2> QED
    BY <1>0, <2>1, <2>5, <2>6 DEF WalkInv
<1> QED
  BY <1>1, <1>2, <1>3

LEMMA CheckDuplicatesKeeps ==
    ASSUME ArchiveInv, WalkInv, CheckDuplicates
    PROVE  WalkInv'
<1>0. /\ phase = "dups" /\ GapsFound /\ verifier = "local"
      /\ todo = DOMAIN rows /\ seen = {} /\ expected = NoHash
  BY DEF CheckDuplicates, WalkInv
<1>1. CASE DuplicateSequence(rows)
  <2>1. /\ verdict' = decide(gaps, TRUE) /\ phase' = "done"
        /\ UNCHANGED <<archiveVars, verifier, gaps>>
    BY <1>1 DEF CheckDuplicates, Conclude
  <2>2. verdict' = ChainVerdict(rows') /\ GapsFound' /\ ~torn'
    BY <1>0, <1>1, <2>1 DEF ChainVerdict, decide, GapsFound, archiveVars
  <2>3. verifier' = "local" /\ DuplicateSequence(rows')
    BY <1>0, <1>1, <2>1 DEF archiveVars
  <2> QED
    BY <2>1, <2>2, <2>3 DEF WalkInv, Concluded
<1>2. CASE ~DuplicateSequence(rows)
  <2>1. phase' = "walk" /\ UNCHANGED <<archiveVars, walkVars>>
    BY <1>2 DEF CheckDuplicates
  <2>2. Walked' /\ Linked' /\ GapsFound' /\ ~DuplicateSequence(rows') /\ verifier' = "local"
    BY <1>0, <1>2, <2>1 DEF Walked, Linked, GapsFound, archiveVars, walkVars
  <2> QED
    BY <2>1, <2>2 DEF WalkInv
<1> QED
  BY <1>1, <1>2

(* The record the walk is at, when its number is new: what the walk carries  *)
(* as expected_prev is what Verdict defines.                                 *)
LEMMA ExpectedIsThePrevious ==
    ASSUME ArchiveInv, Walked, Linked,
           NEW i \in todo, \A j \in todo : rows[i].seq <= rows[j].seq,
           rows[i].seq \notin seen, NEW h
    PROVE  IsExpectedPrev(rows, i, h) <=> h = expected
<1> DEFINE passed == DOMAIN rows \ todo
<1>0. /\ i \in DOMAIN rows
      /\ \A j \in DOMAIN rows : rows[j].seq \in Int
      /\ todo \subseteq DOMAIN rows
      /\ seen = {rows[j].seq : j \in passed}
      /\ \A j, k \in passed : rows[j].seq = rows[k].seq => j = k
      /\ \A j \in passed : rows[j].seq <= rows[i].seq
  BY RowFacts DEF Walked, Rec
<1>1. \A j \in DOMAIN rows : rows[j].seq < rows[i].seq <=> j \in passed
  <2>1. \A j \in passed : rows[j].seq # rows[i].seq
    BY <1>0
  <2>2. \A j \in passed : rows[j].seq < rows[i].seq
    BY <1>0, <2>1
  <2> QED
    BY <1>0, <2>2
<1>2. CASE todo = DOMAIN rows /\ expected = NoHash
  <2>1. passed = {}
    BY <1>2
  <2> HIDE DEF passed
  <2> QED
    BY <1>0, <1>1, <1>2, <2>1 DEF IsExpectedPrev
<1>3. CASE \E j \in passed : expected = rows[j].hash /\ \A k \in passed : rows[k].seq <= rows[j].seq
  <2>1. PICK j \in passed : expected = rows[j].hash /\ \A k \in passed : rows[k].seq <= rows[j].seq
    BY <1>3
  <2>2. j \in DOMAIN rows /\ rows[j].seq < rows[i].seq
    BY <1>1, <2>1
  <2>3. IsExpectedPrev(rows, i, expected)
    BY <1>1, <2>1, <2>2 DEF IsExpectedPrev
  <2>4. ASSUME IsExpectedPrev(rows, i, h) PROVE h = expected
    <3>1. ~\A k \in DOMAIN rows : rows[k].seq >= rows[i].seq
      BY <1>0, <2>2
    <3>2. PICK m \in DOMAIN rows :
              /\ rows[m].seq < rows[i].seq
              /\ \A k \in DOMAIN rows : rows[k].seq < rows[i].seq => rows[k].seq <= rows[m].seq
              /\ h = rows[m].hash
      BY <2>4, <3>1 DEF IsExpectedPrev
    <3>3. m \in passed
      BY <1>1, <3>2
    <3>4. rows[m].seq <= rows[j].seq /\ rows[j].seq <= rows[m].seq
      BY <2>1, <2>2, <3>2, <3>3
    <3>5. m = j
      BY <1>0, <2>1, <3>3, <3>4
    <3> QED
      BY <2>1, <3>2, <3>5
  <2> QED
    BY <2>3, <2>4
<1> QED
  BY <1>2, <1>3 DEF Linked

LEMMA WalkKeeps ==
    ASSUME ArchiveInv, WalkInv, Walk
    PROVE  WalkInv'
<1> DEFINE passed == DOMAIN rows \ todo
<1>0. /\ phase = "walk" /\ GapsFound /\ Walked /\ Linked
      /\ verifier = "local" => ~DuplicateSequence(rows)
      /\ verifier \in {"local", "store"}
      /\ \A j \in DOMAIN rows : rows[j].seq \in 1 .. MaxLength
  BY RowFacts DEF Walk, WalkInv, Rec
<1>1. PICK i \in todo :
          /\ \A j \in todo : rows[i].seq <= rows[j].seq
          /\ IF WalkFails(i)
             THEN Conclude(TRUE, rows[i].seq)
             ELSE /\ todo' = todo \ {i}
                  /\ seen' = seen \cup {rows[i].seq}
                  /\ expected' = rows[i].hash
                  /\ UNCHANGED <<archiveVars, phase, verifier, gaps, verdict, first>>
  BY DEF Walk
<1>2. /\ i \in DOMAIN rows
      /\ todo \subseteq DOMAIN rows
      /\ seen = {rows[j].seq : j \in passed}
      /\ \A j \in passed : ~RecordFails(rows, j)
      /\ \A j, k \in passed : rows[j].seq = rows[k].seq => j = k
      /\ \A j \in passed, k \in todo : rows[j].seq <= rows[k].seq
  BY <1>0 DEF Walked
<1>3. rows[i].seq \in seen => DuplicateSequence(rows)
  BY <1>2 DEF DuplicateSequence
<1>4. rows[i].seq \notin seen => (RecordFails(rows, i) <=> WalkFails(i))
  <2>1. HAVE rows[i].seq \notin seen
  <2>2. IsExpectedPrev(rows, i, rows[i].prev) <=> rows[i].prev = expected
    BY <1>0, <1>1, <2>1, ExpectedIsThePrevious
  <2> QED
    BY <1>0, <2>1, <2>2 DEF RecordFails, WalkFails, GapsFound
<1>5. CASE WalkFails(i)
  <2>1. /\ verdict' = decide(gaps, TRUE) /\ first' = rows[i].seq /\ phase' = "done"
        /\ UNCHANGED <<archiveVars, verifier, gaps, todo, seen, expected>>
    BY <1>1, <1>5 DEF Conclude
  <2>2. DuplicateSequence(rows) \/ \E j \in DOMAIN rows : RecordFails(rows, j)
    BY <1>2, <1>3, <1>4, <1>5
  <2>3. verdict' = ChainVerdict(rows) /\ verdict' = TAMPERED
    BY <2>1, <2>2 DEF ChainVerdict, decide
  <2>4. GapsFound' /\ Walked' /\ ~torn' /\ rows' = rows
    BY <1>0, <2>1 DEF GapsFound, Walked, archiveVars
  <2>5. first' \in 1 .. MaxLength /\ \A j \in todo' : first' <= rows'[j].seq
    BY <1>0, <1>1, <1>2, <2>1, <2>4
  <2> QED
    BY <1>0, <2>1, <2>3, <2>4, <2>5 DEF WalkInv, Concluded
<1>6. CASE ~WalkFails(i)
  <2>1. /\ todo' = todo \ {i} /\ seen' = seen \cup {rows[i].seq} /\ expected' = rows[i].hash
        /\ UNCHANGED <<archiveVars, phase, verifier, gaps>>
    BY <1>1, <1>6
  <2>2. rows[i].seq \notin seen
    BY <1>0, <1>3, <1>6 DEF WalkFails
  <2>3. ~RecordFails(rows, i)
    BY <1>4, <1>6, <2>2
  <2>4. DOMAIN rows \ todo' = passed \cup {i} /\ rows' = rows /\ ~torn' = ~torn
    BY <1>2, <2>1 DEF archiveVars
  <2>5. Walked'
    <3>1. seen' = {rows[j].seq : j \in passed \cup {i}}
      BY <1>2, <2>1
    <3>2. \A j, k \in passed \cup {i} : rows[j].seq = rows[k].seq => j = k
      BY <1>2, <2>2
    <3>3. \A j \in passed \cup {i}, k \in todo \ {i} : rows[j].seq <= rows[k].seq
      BY <1>1, <1>2
    <3>4. \A j \in passed \cup {i} : ~RecordFails(rows, j)
      BY <1>2, <2>3
    <3>5. todo' \subseteq DOMAIN rows
      BY <1>2, <2>1
    <3> HIDE DEF passed
    <3> QED
      BY <2>1, <2>4, <3>1, <3>2, <3>3, <3>4, <3>5 DEF Walked
  <2>6. Linked'
    <3>1. \A k \in passed \cup {i} : rows[k].seq <= rows[i].seq
      BY <1>0, <1>2
    <3> HIDE DEF passed
    <3> QED
      BY <2>1, <2>4, <3>1 DEF Linked
  <2>7. GapsFound' /\ (verifier' = "local" => ~DuplicateSequence(rows'))
    BY <1>0, <2>1 DEF GapsFound, archiveVars
  <2> QED
    BY <1>0, <2>1, <2>5, <2>6, <2>7 DEF WalkInv
<1> QED
  BY <1>5, <1>6

LEMMA FinishKeeps ==
    ASSUME ArchiveInv, WalkInv, Finish
    PROVE  WalkInv'
<1>0. /\ todo = {} /\ GapsFound /\ Walked /\ verifier \in {"local", "store"}
  BY DEF Finish, WalkInv
<1>1. /\ verdict' = decide(gaps, FALSE) /\ phase' = "done"
      /\ UNCHANGED <<archiveVars, verifier, gaps, todo, seen, expected>>
  BY DEF Finish, Conclude
<1>2. ~DuplicateSequence(rows) /\ ~\E i \in DOMAIN rows : RecordFails(rows, i)
  BY <1>0 DEF Walked, DuplicateSequence
<1>3. verdict' = ChainVerdict(rows) /\ verdict' # TAMPERED
  BY <1>0, <1>1, <1>2 DEF ChainVerdict, decide, GapsFound, TAMPERED, INCOMPLETE, VALID
<1>4. GapsFound' /\ Walked' /\ ~torn' /\ rows' = rows /\ todo' = {}
  BY <1>0, <1>1 DEF GapsFound, Walked, archiveVars
<1> QED
  BY <1>0, <1>1, <1>3, <1>4 DEF WalkInv, Concluded

LEMMA VerifierStep ==
    ASSUME ArchiveInv, WalkInv, VerifierNext
    PROVE  ArchiveInv' /\ WalkInv'
<1>1. UNCHANGED archiveVars
  BY DEF VerifierNext, Load, CheckDuplicates, Walk, Finish, Conclude
<1>2. ArchiveInv'
  BY <1>1 DEF ArchiveInv, DamageCounted, Sealed, archiveVars
<1> QED
  BY <1>2, LoadKeeps, CheckDuplicatesKeeps, WalkKeeps, FinishKeeps DEF VerifierNext

-------------------------------------------------------------------------------
(* The export *)

BundleFile == {Documents, Receipt, Reports}

(* The records the export read are those the verifier reads, and a status is *)
(* what the verifier's result says.                                          *)
StatusInv ==
    /\ Built => phase = "done"
    /\ stage # "idle" => \A i \in DOMAIN read : i \in DOMAIN rows /\ read[i] = rows[i]
    /\ Built => status = [i \in DOMAIN read |-> RecordStatus(read[i].seq)]

(* While the files are written, the manifest that lies in the directory, if  *)
(* any, is the older bundle's; the documents are written first.              *)
Writing ==
    /\ left \in Seq(BundleFile)
    /\ TopLevel \subseteq BundleFile \cup {Stray}
    /\ \A f \in BundleFile \cap DOMAIN dir : dir[f] \in {Older, This}
    /\ Stray \in DOMAIN dir => dir[Stray] = Foreign
    /\ manifest = NoManifest \/ \E F \in SUBSET BundleFile : manifest = ListedBy(Older, F)
    /\ \/ left # << >> /\ Head(left) = Documents
       \/ Documents \in DOMAIN dir /\ dir[Documents] = This

BundleInv ==
    /\ handled => stage \in {"exported", "crashed"}
    /\ stage = "write" => Writing
    /\ UntouchedIsWhole

IInv == ArchiveInv /\ WalkInv /\ StatusInv /\ BundleInv

LEMMA InitIInv == EvidenceInit => IInv
<1> SUFFICES ASSUME EvidenceInit PROVE IInv
  OBVIOUS
<1>1. ArchiveInv
  <2>1. chain = [tail |-> 0, count |-> 0]
    BY TrailAssumption DEF EvidenceInit, Init, EmptyChain
  <2>2. rows \in [1 .. 0 -> Rec] /\ DOMAIN rows = {}
    BY DEF EvidenceInit, Init
  <2> QED
    BY <2>1, <2>2, TrailAssumption DEF ArchiveInv, DamageCounted, EvidenceInit, Init
<1>2. WalkInv
  BY DEF EvidenceInit, Init, WalkInv, Unwalked
<1>3. StatusInv /\ BundleInv
  BY DEF EvidenceInit, StatusInv, BundleInv, Built, UntouchedIsWhole
<1> QED
  BY <1>1, <1>2, <1>3 DEF IInv

(* A step of the writer, of a damage or of a verifier leaves the export      *)
(* alone, and what it has read stays in the archive.                         *)
LEMMA ArchiveKeepsExport ==
    ASSUME IInv, UNCHANGED evidenceVars,
           \/ stage = "idle" /\ (WriterNext \/ DamageNext \/ VerifierNext)
           \/ stage = "verify" /\ (AppendRecord \/ LoseRecord \/ VerifierNext)
    PROVE  IInv'
<1>1. ArchiveInv' /\ WalkInv'
  BY ArchiveStep, WriterKeepsWalk, VerifierStep DEF IInv, WriterNext
<1>2. stage' \in {"idle", "verify"} /\ ~Built'
      /\ stage' = stage /\ read' = read /\ UNCHANGED bundleVars
  BY DEF evidenceVars, Built
<1>3. StatusInv'
  <2>1. CASE stage = "idle"
    BY <1>2, <2>1 DEF StatusInv
  <2>2. CASE stage = "verify"
    <3>1. \A i \in DOMAIN rows : i \in DOMAIN rows' /\ rows'[i] = rows[i]
      <4>1. CASE AppendRecord
        <5> DEFINE r == [seq |-> MintedSeal(chain).seq, prev |-> MintedSeal(chain).prev,
                         hash |-> MintedSeal(chain).seq, selfOk |-> TRUE, bindOk |-> TRUE]
        <5>1. Insert(r) /\ chain.count < MaxLength
          BY <4>1 DEF AppendRecord
        <5>2. r \in Rec
          BY <5>1, TrailAssumption DEF IInv, ArchiveInv, MintedSeal, Rec
        <5> QED
          BY <5>1, <5>2, InsertFacts DEF IInv
      <4>2. CASE LoseRecord \/ VerifierNext
        BY <4>2 DEF LoseRecord, VerifierNext, Load, CheckDuplicates, Walk, Finish, Conclude, archiveVars
      <4> QED
        BY <2>2, <4>1, <4>2
    <3>2. \A i \in DOMAIN read : i \in DOMAIN rows /\ read[i] = rows[i]
      BY <2>2 DEF IInv, StatusInv
    <3> QED
      BY <1>2, <3>1, <3>2 DEF StatusInv
  <2> QED
    BY <2>1, <2>2
<1>4. BundleInv'
  BY <1>2 DEF IInv, BundleInv, bundleVars, UntouchedIsWhole
<1> QED
  BY <1>1, <1>3, <1>4 DEF IInv

(* A step of the export leaves the archive and the verifier alone.           *)
LEMMA ExportKeepsArchive ==
    ASSUME IInv, UNCHANGED <<archiveVars, phase, walkVars>>
    PROVE  ArchiveInv' /\ WalkInv'
<1> USE DEF archiveVars, walkVars
<1>1. ArchiveInv'
  BY DEF IInv, ArchiveInv, DamageCounted, Rec, Sealed
<1>2. WalkInv'
  BY DEF IInv, WalkInv, Unwalked, GapsFound, Walked, Linked, Concluded
<1> QED
  BY <1>1, <1>2

LEMMA ReadSessionKeeps == ASSUME IInv, ReadSession PROVE IInv'
<1>1. ArchiveInv' /\ WalkInv'
  BY ExportKeepsArchive DEF ReadSession
<1>2. StatusInv'
  BY DEF ReadSession, StatusInv, Built, archiveVars
<1>3. BundleInv'
  BY DEF ReadSession, IInv, BundleInv, bundleVars, UntouchedIsWhole
<1> QED
  BY <1>1, <1>2, <1>3 DEF IInv

(* The documents are the first of the files that are written.                *)
LEMMA OrderedFiles ==
    ASSUME NEW receipt, NEW reports
    PROVE  /\ Ordered(receipt, reports) \in Seq(BundleFile)
           /\ Ordered(receipt, reports) # << >>
           /\ Head(Ordered(receipt, reports)) = Documents
<1> DEFINE a == <<Documents>>
           b == IF receipt THEN <<Receipt>> ELSE << >>
           c == IF reports THEN <<Reports>> ELSE << >>
<1>1. a \in Seq(BundleFile) /\ Len(a) = 1 /\ a[1] = Documents
  BY DEF BundleFile
<1>2. b \in Seq(BundleFile)
  <2>1. <<Receipt>> \in Seq(BundleFile) /\ << >> \in Seq(BundleFile)
    BY DEF BundleFile
  <2> QED
    BY <2>1, Zenon
<1>3. c \in Seq(BundleFile)
  <2>1. <<Reports>> \in Seq(BundleFile) /\ << >> \in Seq(BundleFile)
    BY DEF BundleFile
  <2> QED
    BY <2>1, Zenon
<1>4. Ordered(receipt, reports) = (a \o b) \o c
  BY Zenon DEF Ordered
<1> HIDE DEF a, b, c
<1>5. a \o b \in Seq(BundleFile) /\ Len(a \o b) >= 1 /\ (a \o b)[1] = Documents
  BY <1>1, <1>2, ConcatProperties
<1>6. (a \o b) \o c \in Seq(BundleFile) /\ Len((a \o b) \o c) >= 1
      /\ ((a \o b) \o c)[1] = Documents
  BY <1>3, <1>5, ConcatProperties
<1> QED
  BY <1>4, <1>6

LEMMA BuildBundleKeeps == ASSUME IInv, BuildBundle PROVE IInv'
<1>1. ArchiveInv' /\ WalkInv'
  BY ExportKeepsArchive DEF BuildBundle
<1>2. StatusInv'
  BY DEF BuildBundle, IInv, StatusInv, Built, RecordStatus, archiveVars, walkVars
<1>3. ~handled'
  BY DEF BuildBundle, IInv, BundleInv
<1>4. CASE stage' \in {"built", "refused"}
  BY <1>1, <1>2, <1>3, <1>4 DEF IInv, BundleInv, UntouchedIsWhole
<1>5. CASE stage' \notin {"built", "refused"}
  <2>b. PICK receipt \in BOOLEAN, reports \in BOOLEAN, older \in BOOLEAN, force \in BOOLEAN,
             strays \in SUBSET {Stray, Nested}, files \in {Files(x, y) : x, y \in BOOLEAN} :
              OpenDirectory(receipt, reports, older, force, strays, files)
    <3> DEFINE Many == SUBSET {Stray, Nested}
               Sets == {Files(x, y) : x, y \in BOOLEAN}
    <3>1. \E receipt, reports, older, force \in BOOLEAN, strays \in Many, files \in Sets :
             OpenDirectory(receipt, reports, older, force, strays, files)
      BY <1>5 DEF BuildBundle
    <3> HIDE DEF Many, Sets
    <3>2. \E receipt \in BOOLEAN, reports \in BOOLEAN, older \in BOOLEAN, force \in BOOLEAN,
              strays \in Many, files \in Sets :
             OpenDirectory(receipt, reports, older, force, strays, files)
      BY <3>1
    <3> QED
      BY <3>2 DEF Many, Sets
  <2>c. stage' = "write"
    BY <1>5, <2>b DEF OpenDirectory
  <2>1. /\ dir' = [f \in strays \cup (IF older THEN files ELSE {}) |->
                       IF f \in strays THEN Foreign ELSE Older]
        /\ manifest' = IF older THEN ListedBy(Older, files) ELSE NoManifest
        /\ left' = Ordered(receipt, reports)
    BY <2>b, <2>c DEF OpenDirectory
  <2>2. files \subseteq BundleFile
    BY <2>1 DEF Files, BundleFile
  <2>3. left' \in Seq(BundleFile) /\ left' # << >> /\ Head(left') = Documents
    <3>1. /\ Ordered(receipt, reports) \in Seq(BundleFile)
          /\ Ordered(receipt, reports) # << >>
          /\ Head(Ordered(receipt, reports)) = Documents
      BY OrderedFiles
    <3>2. left' = Ordered(receipt, reports)
      BY <2>1
    <3> QED
      BY <3>1, <3>2
  <2>4. Writing'
    <3>1. manifest' = NoManifest \/ \E F \in SUBSET BundleFile : manifest' = ListedBy(Older, F)
      BY <2>1, <2>2
    <3>2. Stray \notin BundleFile /\ Nested \notin BundleFile
      BY DEF Stray, Nested, BundleFile, Documents, Receipt, Reports
    <3>3. DOMAIN dir' = strays \cup (IF older THEN files ELSE {})
      BY <2>1
    <3>4. \A f \in DOMAIN dir' : dir'[f] = IF f \in strays THEN Foreign ELSE Older
      BY <2>1
    <3>5. DOMAIN dir' \ {Nested} \subseteq BundleFile \cup {Stray}
      BY <2>1, <2>2, <3>3
    <3>6. \A f \in BundleFile \cap DOMAIN dir' : dir'[f] \in {Older, This}
      BY <2>1, <3>2, <3>4
    <3>7. Stray \in DOMAIN dir' => dir'[Stray] = Foreign
      BY <2>2, <3>2, <3>3, <3>4
    <3> QED
      BY <2>3, <3>1, <3>5, <3>6, <3>7 DEF Writing, TopLevel
  <2> QED
    BY <1>1, <1>2, <1>3, <2>c, <2>4 DEF IInv, BundleInv, UntouchedIsWhole
<1> QED
  BY <1>4, <1>5

(* The export's later steps leave what it knows of the records alone.        *)
LEMMA BundleStepKeeps ==
    ASSUME IInv, WriteFile \/ WriteManifest \/ ExportCrash \/ HandleBundle
    PROVE  ArchiveInv' /\ WalkInv' /\ StatusInv'
<1>1. ArchiveInv' /\ WalkInv'
  BY ExportKeepsArchive DEF WriteFile, WriteManifest, ExportCrash, HandleBundle
<1>2. Built /\ Built' /\ UNCHANGED <<phase, rows, read, status, verdict, first>>
  BY DEF WriteFile, WriteManifest, ExportCrash, HandleBundle, Built, archiveVars, walkVars
<1>3. StatusInv'
  BY <1>2 DEF IInv, StatusInv, Built, RecordStatus
<1> QED
  BY <1>1, <1>3

LEMMA WriteFileKeeps == ASSUME IInv, WriteFile PROVE IInv'
<1>1. Writing /\ left # << >> /\ ~handled
  BY DEF WriteFile, IInv, BundleInv
<1>2. /\ dir' = [g \in DOMAIN dir \cup {Head(left)} |-> IF g = Head(left) THEN This ELSE dir[g]]
      /\ left' = Tail(left)
      /\ UNCHANGED <<manifest, stage, handled>>
  BY DEF WriteFile, Put
<1>3. Head(left) \in BundleFile /\ left' \in Seq(BundleFile)
  BY <1>1, <1>2 DEF Writing
<1>4. Stray \notin BundleFile
  BY DEF Stray, BundleFile, Documents, Receipt, Reports
<1>5. Writing'
  BY <1>1, <1>2, <1>3, <1>4 DEF Writing, TopLevel
<1>6. BundleInv'
  BY <1>1, <1>2, <1>5 DEF WriteFile, BundleInv, UntouchedIsWhole
<1> QED
  BY <1>6, BundleStepKeeps DEF IInv

(* The manifest that the export writes in the end lists its own files, so    *)
(* with it the directory checks iff nothing else is at its top.              *)
LEMMA ThisManifestChecks ==
    ASSUME Writing, left = << >>, manifest' = ThisManifest, dir' = dir
    PROVE  Intact' <=> \A f \in TopLevel' : dir'[f] = This
<1> DEFINE F == Files(Receipt \in DOMAIN dir /\ dir[Receipt] = This,
                      Reports \in DOMAIN dir /\ dir[Reports] = This)
<1>1. manifest' = ListedBy(This, F)
  BY DEF ThisManifest
<1>2. F \subseteq BundleFile /\ F = {f \in BundleFile : f \in DOMAIN dir /\ dir[f] = This}
      /\ Nested \notin BundleFile /\ Stray \notin BundleFile /\ Foreign # This
  BY DEF Writing, Files, BundleFile, Documents, Receipt, Reports, Nested, Stray, Foreign, This
<1> HIDE DEF F
<1>3. manifest'.files = [f \in F |-> This] /\ manifest' \notin {NoManifest, TornManifest}
  <2>1. manifest'.by = This /\ manifest'.files = [f \in F |-> This]
    BY <1>1 DEF ListedBy
  <2>2. NoManifest.by # This /\ TornManifest.by # This
    BY DEF NoManifest, TornManifest, This
  <2> QED
    BY <2>1, <2>2
<1>4. Intact' <=> TopLevel \subseteq F
  BY <1>2, <1>3 DEF Intact, TopLevel
<1>5. TopLevel \subseteq F <=> \A f \in TopLevel : dir[f] = This
  BY <1>2 DEF Writing, TopLevel
<1> QED
  BY <1>4, <1>5 DEF TopLevel

LEMMA WriteManifestKeeps == ASSUME IInv, WriteManifest PROVE IInv'
<1>1. Writing /\ left = << >> /\ ~handled
  BY DEF WriteManifest, IInv, BundleInv
<1>2. manifest' = ThisManifest /\ stage' = "exported" /\ UNCHANGED <<dir, handled>>
  BY DEF WriteManifest
<1>3. Intact' <=> \A f \in TopLevel' : dir'[f] = This
  BY <1>1, <1>2, ThisManifestChecks
<1>4. BundleInv'
  BY <1>1, <1>2, <1>3 DEF BundleInv, UntouchedIsWhole
<1> QED
  BY <1>4, BundleStepKeeps DEF IInv

LEMMA ExportCrashKeeps == ASSUME IInv, ExportCrash PROVE IInv'
<1>1. Writing /\ ~handled /\ handled' = handled /\ stage' = "crashed"
  BY DEF ExportCrash, IInv, BundleInv
<1>2. ASSUME NEW F \in SUBSET BundleFile, manifest' = ListedBy(Older, F), Intact'
      PROVE  \A f \in TopLevel' : dir'[f] = Older
  <2>1. manifest'.files = [f \in F |-> Older]
    BY <1>2 DEF ListedBy
  <2> QED
    BY <1>2, <2>1 DEF Intact
<1>3. ASSUME Intact' PROVE \E version \in {Older, This} : \A f \in TopLevel' : dir'[f] = version
  <2>1. CASE manifest' = manifest
    <3>1. manifest' # NoManifest
      BY <1>3 DEF Intact
    <3>2. PICK F \in SUBSET BundleFile : manifest' = ListedBy(Older, F)
      BY <1>1, <2>1, <3>1 DEF Writing
    <3> QED
      BY <1>2, <1>3, <3>2
  <2>2. CASE left = << >> /\ manifest' = ThisManifest /\ dir' = dir
    BY <1>1, <1>3, <2>2, ThisManifestChecks
  <2>3. manifest' # TornManifest
    BY <1>3 DEF Intact
  <2> QED
    BY <2>1, <2>2, <2>3 DEF ExportCrash
<1>4. BundleInv'
  BY <1>1, <1>3 DEF BundleInv, UntouchedIsWhole
<1> QED
  BY <1>4, BundleStepKeeps DEF IInv

LEMMA HandleBundleKeeps == ASSUME IInv, HandleBundle PROVE IInv'
<1>1. BundleInv'
  BY DEF HandleBundle, IInv, BundleInv, UntouchedIsWhole
<1> QED
  BY <1>1, BundleStepKeeps DEF IInv

LEMMA IInvStep == IInv /\ [EvidenceNext]_<<vars, evidenceVars>> => IInv'
<1> SUFFICES ASSUME IInv, [EvidenceNext]_<<vars, evidenceVars>> PROVE IInv'
  OBVIOUS
<1>1. CASE UNCHANGED <<vars, evidenceVars>>
  <2>1. ArchiveInv' /\ WalkInv'
    BY <1>1, ExportKeepsArchive DEF vars
  <2>2. StatusInv'
    BY <1>1 DEF vars, archiveVars, walkVars, evidenceVars, bundleVars, IInv, StatusInv, Built, RecordStatus
  <2>3. BundleInv'
    BY <1>1 DEF evidenceVars, bundleVars, IInv, BundleInv, UntouchedIsWhole, Writing, Intact, TopLevel
  <2> QED
    BY <2>1, <2>2, <2>3 DEF IInv
<1>2. CASE EvidenceNext
  BY <1>2, ArchiveKeepsExport, ReadSessionKeeps, BuildBundleKeeps, WriteFileKeeps,
     WriteManifestKeeps, ExportCrashKeeps, HandleBundleKeeps
  DEF EvidenceNext
<1> QED
  BY <1>1, <1>2

LEMMA Invariance == EvidenceSpec => []IInv
  BY InitIInv, IInvStep, PTL DEF EvidenceSpec

-------------------------------------------------------------------------------
(* Theorems *)

(* A record that follows a present one sits behind no gap.                   *)
LEMMA NoGapBehindPresent ==
    ASSUME NEW present \in SUBSET (Nat \ {0}), NEW n \in present
    PROVE  ~explains_break(n + 1, missing_ranges(present))
<1> SUFFICES ASSUME NEW r \in missing_ranges(present), r[2] = (n + 1) - 1 PROVE FALSE
  BY DEF explains_break
<1>1. PICK a, b \in Nat \ {0} : r = <<a, b>> /\ a <= b /\ \A k \in a .. b : k \notin present
  BY RangeShape
<1> QED
  BY <1>1

(* The missing ranges cover exactly the absent numbers below a present one.  *)
LEMMA RangesCover ==
    ASSUME NEW present \in SUBSET (Nat \ {0}), NEW n \in Nat \ {0}
    PROVE  (\E r \in missing_ranges(present) : n \in r[1] .. r[2])
             <=> n \notin present /\ \E m \in present : m > n
<1>1. ASSUME NEW r \in missing_ranges(present), n \in r[1] .. r[2]
      PROVE  n \notin present /\ \E m \in present : m > n
  <2>1. PICK a, b \in Nat \ {0} : r = <<a, b>> /\ a <= b /\ b + 1 \in present
                                  /\ \A k \in a .. b : k \notin present
    BY RangeShape
  <2>2. n \in a .. b /\ b + 1 > n
    BY <1>1, <2>1
  <2> QED
    BY <2>1, <2>2
<1>2. ASSUME n \notin present, NEW m \in present, m > n
      PROVE  \E r \in missing_ranges(present) : n \in r[1] .. r[2]
  <2> DEFINE T == {x \in present : x > n}
  <2>1. T \subseteq Nat /\ T # {}
    BY <1>2
  <2>2. PICK k \in T : \A y \in T : k <= y
    BY <2>1, LeastMember
  <2>3. k \in present /\ k > n /\ \A y \in n .. (k - 1) : y \notin present
    BY <1>2, <2>2
  <2>4. k > 1 /\ k - 1 \notin present
    BY <2>3
  <2>5. PICK r \in missing_ranges(present) : r[2] = k - 1
    BY <2>3, <2>4, AbsentPredecessorIsExplained DEF explains_break
  <2>6. PICK a, b \in Nat \ {0} : r = <<a, b>> /\ a <= b /\ (a = 1 \/ a - 1 \in present)
                                  /\ \A y \in a .. b : y \notin present
    BY RangeShape
  <2>7. b = k - 1 /\ r[1] = a
    BY <2>5, <2>6
  <2>8. a <= n
    <3>1. SUFFICES ASSUME a > n PROVE FALSE
      BY <2>6
    <3>2. a - 1 \in n .. (k - 1) /\ a # 1
      BY <2>6, <2>7, <3>1
    <3> QED
      BY <2>3, <2>6, <3>2
  <2>9. n \in r[1] .. r[2]
    BY <2>3, <2>5, <2>6, <2>7, <2>8
  <2> QED
    BY <2>9
<1> QED
  BY <1>1, <1>2

(* verify_session_local and verify_chain, walking the records one by one     *)
(* with their scanned gaps, conclude exactly the declarative verdict, for    *)
(* archives of any length and damage, appended to while they are exported.   *)
THEOREM WalksAgree == EvidenceSpec => []WalkDecidesVerdict
<1>1. IInv => WalkDecidesVerdict
  BY DEF IInv, WalkInv, Concluded, GapsFound, WalkDecidesVerdict, Done
<1> QED
  BY <1>1, Invariance, PTL

(* Lost records make either verifier report INCOMPLETE, with ranges that     *)
(* name exactly the records lost below the last one that arrived.            *)
THEOREM LossesAreMissing == EvidenceSpec => []LossIsIncomplete
<1>1. ASSUME IInv PROVE LossIsIncomplete
  <2> SUFFICES ASSUME Done, ~torn, \A i \in DOMAIN rows : Original(i), ~DuplicateSequence(rows)
               PROVE  /\ verdict # TAMPERED
                      /\ UNION {r[1] .. r[2] : r \in gaps}
                           = {n \in 1 .. chain.count : /\ n \notin SequencesOf(rows)
                                                       /\ \E m \in SequencesOf(rows) : m > n}
    BY DEF LossIsIncomplete
  <2> DEFINE present == SequencesOf(rows)
  <2>1. verdict = ChainVerdict(rows) /\ gaps = missing_ranges(present)
    BY <1>1 DEF IInv, WalkInv, Concluded, GapsFound, Done
  <2>2. /\ \A i \in DOMAIN rows : rows[i] \in Rec /\ Sealed(rows[i], chain.count)
        /\ present \in SUBSET (Nat \ {0})
        /\ chain.count \in Nat
    BY <1>1, RowFacts DEF IInv, ArchiveInv
  <2>3. \A i \in DOMAIN rows : /\ rows[i].seq \in Nat \ {0}
                               /\ rows[i].selfOk = TRUE /\ rows[i].bindOk = TRUE
                               /\ rows[i].hash = rows[i].seq /\ rows[i].prev = rows[i].seq - 1
                               /\ rows[i].seq <= chain.count
    BY <2>2 DEF Original, Rec, Sealed
  <2>4. HonestArchive(rows)
    BY <2>3, TrailAssumption DEF HonestArchive, DuplicateSequence
  <2>5. verdict # TAMPERED
    BY <2>1, <2>4, HonestArchiveIsNotTampered
  <2>6. \A m \in present : m <= chain.count
    BY <2>3 DEF SequencesOf
  <2>7. \A n : n \in UNION {r[1] .. r[2] : r \in gaps}
                 <=> n \in Nat \ {0} /\ n \notin present /\ \E m \in present : m > n
    <3>1. TAKE n
    <3> HIDE DEF present
    <3>2. \A r \in gaps : r[1] \in Nat \ {0} /\ r[2] \in Nat
      BY <2>1, <2>2, RangeShape
    <3>3. n \in UNION {r[1] .. r[2] : r \in gaps}
            <=> n \in Nat \ {0} /\ \E r \in gaps : n \in r[1] .. r[2]
      <4>1. n \in UNION {r[1] .. r[2] : r \in gaps} <=> \E r \in gaps : n \in r[1] .. r[2]
        BY Zenon
      <4>2. \A r \in gaps : n \in r[1] .. r[2] => n \in Nat \ {0}
        BY <3>2
      <4> QED
        BY <4>1, <4>2, Zenon
    <3>4. CASE n \in Nat \ {0}
      <4>1. (\E r \in missing_ranges(present) : n \in r[1] .. r[2])
              <=> n \notin present /\ \E m \in present : m > n
        BY <2>2, <3>4, RangesCover
      <4> QED
        BY <2>1, <3>3, <3>4, <4>1, Zenon
    <3>5. CASE n \notin Nat \ {0}
      BY <3>3, <3>5
    <3> QED
      BY <3>4, <3>5
  <2>8. \A n : n \in Nat \ {0} /\ (\E m \in present : m > n) => n \in 1 .. chain.count
    BY <2>2, <2>6
  <2> HIDE DEF present
  <2>9. UNION {r[1] .. r[2] : r \in gaps}
          = {n \in 1 .. chain.count : n \notin present /\ \E m \in present : m > n}
    <3> DEFINE lost == UNION {r[1] .. r[2] : r \in gaps}
    <3>1. \A n \in 1 .. chain.count : n \in Nat \ {0}
      BY <2>2
    <3>2. \A n : n \in lost
                   <=> n \in 1 .. chain.count /\ n \notin present /\ \E m \in present : m > n
      BY <2>7, <2>8, <3>1, Zenon
    <3> HIDE DEF lost
    <3>3. lost = {n \in 1 .. chain.count : n \notin present /\ \E m \in present : m > n}
      BY <3>2
    <3> QED
      BY <3>3 DEF lost
  <2> QED
    BY <2>5, <2>9 DEF present
<1>2. IInv => LossIsIncomplete
  BY <1>1
<1> QED
  BY <1>2, Invariance, PTL

(* In an archive whose numbers a .. b are all there once and whose hashes    *)
(* check, with a rewritten record at a and an untouched one at b, some       *)
(* untouched record follows a rewritten one directly.                        *)
LEMMA RewritingEnds ==
    ASSUME ArchiveInv, ~DuplicateSequence(rows), \A k \in DOMAIN rows : rows[k].selfOk,
           NEW i \in DOMAIN rows, NEW j \in DOMAIN rows,
           rows[i].hash # rows[i].seq, rows[j].hash = rows[j].seq,
           rows[j].seq > rows[i].seq,
           rows[i].seq .. rows[j].seq \subseteq SequencesOf(rows)
    PROVE  \E k, m \in DOMAIN rows :
              /\ rows[m].seq = rows[k].seq + 1
              /\ rows[m].prev # rows[k].hash
<1>0. \A k \in DOMAIN rows :
         /\ rows[k].seq \in Nat \ {0} /\ rows[k].hash \in Int /\ rows[k].prev \in Int
         /\ rows[k].hash > 0 => rows[k].prev = rows[k].hash - 1
         /\ rows[k].hash = rows[k].seq \/ rows[k].hash < 0
  BY TrailAssumption DEF ArchiveInv, Rec, Sealed
<1>1. \A k, m \in DOMAIN rows : rows[k].seq = rows[m].seq => k = m
  BY DEF DuplicateSequence
<1> DEFINE T == {n \in rows[i].seq .. rows[j].seq :
                   \E k \in DOMAIN rows : rows[k].seq = n /\ rows[k].hash = n}
<1>2. T \subseteq Nat /\ rows[j].seq \in T
  <2>1. rows[i].seq \in Nat /\ rows[j].seq \in Nat /\ rows[j].seq \in rows[i].seq .. rows[j].seq
    BY <1>0
  <2> QED
    BY <2>1
<1>3. PICK n \in T : \A y \in T : n <= y
  BY <1>2, LeastMember
<1>4. PICK m \in DOMAIN rows : rows[m].seq = n /\ rows[m].hash = n
  BY <1>3
<1>5. n # rows[i].seq
  BY <1>1, <1>4
<1>6. n \in Nat /\ n - 1 \in rows[i].seq .. rows[j].seq /\ n - 1 \notin T
  BY <1>0, <1>2, <1>3, <1>5
<1>7. PICK k \in DOMAIN rows : rows[k].seq = n - 1
  BY <1>6 DEF SequencesOf
<1>8. rows[k].hash # n - 1
  BY <1>6, <1>7
<1>9. rows[m].prev = n - 1
  BY <1>0, <1>4
<1> QED
  BY <1>4, <1>6, <1>7, <1>8, <1>9

(* VALID archives: nothing is missing or doubled, and a record that still    *)
(* has the hash it was sealed with vouches for every record before it,       *)
(* whatever edits, replays and rewritings of any length were tried.          *)
THEOREM ValidIsHistory == EvidenceSpec => []ValidMeansHistory
<1>1. ASSUME IInv PROVE ValidMeansHistory
  <2> SUFFICES ASSUME Done, verdict = VALID
               PROVE  /\ ~DuplicateSequence(rows)
                      /\ \A i \in DOMAIN rows : \A n \in 1 .. rows[i].seq :
                            \E j \in DOMAIN rows : /\ rows[j].seq = n
                                                   /\ rows[i].hash = rows[i].seq => Original(j)
    BY DEF ValidMeansHistory
  <2>1. ChainVerdict(rows) = VALID
    BY <1>1 DEF IInv, WalkInv, Concluded, Done, VALID, TAMPERED
  <2>2. /\ \A i \in DOMAIN rows : rows[i] \in Rec /\ Sealed(rows[i], chain.count)
        /\ \A i \in DOMAIN rows : rows[i].seq \in Nat \ {0}
        /\ ArchiveInv
    BY <1>1 DEF IInv, ArchiveInv, Rec
  <2>3. /\ \A i, j \in DOMAIN rows : rows[i].seq = rows[j].seq => i = j
        /\ \A i \in DOMAIN rows : \A k \in 1 .. rows[i].seq :
              \E j \in DOMAIN rows : rows[j].seq = k
        /\ \A i \in DOMAIN rows : rows[i].selfOk /\ rows[i].bindOk
        /\ \A i, j \in DOMAIN rows :
              rows[i].seq = rows[j].seq + 1 => rows[i].prev = rows[j].hash
    BY <2>1, <2>2, ValidIsLinked
  <2>4. ~DuplicateSequence(rows)
    BY <2>3 DEF DuplicateSequence
  <2>5. ASSUME NEW i \in DOMAIN rows, NEW n \in 1 .. rows[i].seq
        PROVE  \E j \in DOMAIN rows : /\ rows[j].seq = n
                                      /\ rows[i].hash = rows[i].seq => Original(j)
    <3>1. PICK j \in DOMAIN rows : rows[j].seq = n
      BY <2>3
    <3>2. ASSUME rows[i].hash = rows[i].seq PROVE Original(j)
      <4>1. rows[j].hash = rows[j].seq
        <5>1. SUFFICES ASSUME rows[j].hash # rows[j].seq PROVE FALSE
          OBVIOUS
        <5>2. rows[i].seq > rows[j].seq
          <6>1. rows[i].seq # n
            BY <2>3, <3>1, <3>2, <5>1
          <6> QED
            BY <2>2, <3>1, <6>1
        <5>3. rows[j].seq .. rows[i].seq \subseteq SequencesOf(rows)
          <6>1. \A x \in rows[j].seq .. rows[i].seq : x \in 1 .. rows[i].seq
            BY <2>2
          <6> QED
            BY <2>3, <6>1 DEF SequencesOf
        <5> QED
          BY <2>2, <2>3, <2>4, <3>2, <5>1, <5>2, <5>3, RewritingEnds
      <4>2. rows[j].prev = rows[j].seq - 1
        BY <2>2, <4>1 DEF Rec, Sealed
      <4> QED
        BY <2>3, <4>1, <4>2 DEF Original
    <3> QED
      BY <3>1, <3>2
  <2> QED
    BY <2>4, <2>5
<1>2. IInv => ValidMeansHistory
  BY <1>1
<1> QED
  BY <1>2, Invariance, PTL

(* An edited record, or a rewriting of any length that ends before the       *)
(* chain does, makes the verdict TAMPERED whatever else is missing.          *)
THEOREM AlterationsShow == EvidenceSpec => []AlterationDetected
<1>1. ASSUME IInv PROVE AlterationDetected
  <2> SUFFICES ASSUME Done,
                      NEW i \in DOMAIN rows,
                      \/ ~rows[i].selfOk
                      \/ ~rows[i].bindOk
                      \/ /\ rows[i].hash # rows[i].seq
                         /\ \E j \in DOMAIN rows :
                               /\ rows[j].seq > rows[i].seq
                               /\ rows[j].hash = rows[j].seq
                               /\ rows[i].seq .. rows[j].seq \subseteq SequencesOf(rows)
               PROVE  verdict = TAMPERED
    BY DEF AlterationDetected
  <2>1. torn => verdict = TAMPERED
    BY <1>1 DEF IInv, WalkInv, Concluded, Done
  <2>2. ~torn => verdict = ChainVerdict(rows)
    BY <1>1 DEF IInv, WalkInv, Concluded, Done
  <2>3. DuplicateSequence(rows) \/ \E k \in DOMAIN rows : RecordFails(rows, k)
    <3>1. CASE \E k \in DOMAIN rows : ~rows[k].selfOk \/ ~rows[k].bindOk
      BY <3>1 DEF RecordFails
    <3>2. CASE /\ \A k \in DOMAIN rows : rows[k].selfOk
               /\ ~DuplicateSequence(rows)
               /\ rows[i].hash # rows[i].seq
               /\ \E j \in DOMAIN rows :
                     /\ rows[j].seq > rows[i].seq
                     /\ rows[j].hash = rows[j].seq
                     /\ rows[i].seq .. rows[j].seq \subseteq SequencesOf(rows)
      <4>1. ArchiveInv /\ SequencesOf(rows) \in SUBSET (Nat \ {0})
            /\ \A k \in DOMAIN rows : rows[k].seq \in Nat \ {0}
        <5>1. ArchiveInv
          BY <1>1 DEF IInv
        <5> QED
          BY <5>1, RowFacts DEF Rec
      <4>2. PICK k, m \in DOMAIN rows : rows[m].seq = rows[k].seq + 1 /\ rows[m].prev # rows[k].hash
        BY <3>2, <4>1, RewritingEnds
      <4>3. rows[k].seq \in SequencesOf(rows)
        BY DEF SequencesOf
      <4>4. ~explains_break(rows[m].seq, missing_ranges(SequencesOf(rows)))
        BY <4>1, <4>2, <4>3, NoGapBehindPresent
      <4>5. ~IsExpectedPrev(rows, m, rows[m].prev)
        <5>1. SUFFICES ASSUME NEW x \in DOMAIN rows, rows[x].seq < rows[m].seq,
                              rows[k].seq <= rows[x].seq,
                              rows[m].prev = rows[x].hash
                       PROVE  FALSE
          <6>1. ~(rows[k].seq >= rows[m].seq) /\ rows[k].seq < rows[m].seq
            BY <4>1, <4>2
          <6> QED
            BY <4>2, <6>1, Zenon DEF IsExpectedPrev
        <5>2. rows[x].seq = rows[k].seq
          BY <4>1, <4>2, <5>1
        <5>3. x = k
          BY <3>2, <5>2 DEF DuplicateSequence
        <5> QED
          BY <4>2, <5>1, <5>3
      <4> QED
        BY <4>4, <4>5 DEF RecordFails
    <3> QED
      BY <3>1, <3>2
  <2>4. ~torn => verdict = TAMPERED
    BY <2>2, <2>3 DEF ChainVerdict, decide
  <2> QED
    BY <2>1, <2>4
<1>2. IInv => AlterationDetected
  BY <1>1
<1> QED
  BY <1>2, Invariance, PTL

(* A record that an exported bundle calls verified was walked by the         *)
(* verifier, and its own hashes match, whatever was appended between the     *)
(* export's two readings.                                                    *)
THEOREM StatusesAreEarned == EvidenceSpec => []WalkedStatusEarned
<1>1. ASSUME IInv PROVE WalkedStatusEarned
  <2> SUFFICES ASSUME Built, ~torn, ~(verifier = "local" /\ DuplicateSequence(rows)),
                      NEW i \in DOMAIN read, status[i] = "verified"
               PROVE  read[i].seq \in seen /\ read[i].selfOk /\ read[i].bindOk
    BY DEF WalkedStatusEarned
  <2>1. /\ phase = "done"
        /\ i \in DOMAIN rows /\ read[i] = rows[i]
        /\ RecordStatus(read[i].seq) = "verified"
    BY <1>1 DEF IInv, StatusInv, Built
  <2>2. /\ Walked
        /\ verdict # TAMPERED => todo = {}
        /\ verdict = TAMPERED => /\ first \in 1 .. MaxLength
                                 /\ \A j \in todo : first <= rows[j].seq
    BY <1>1, <2>1 DEF IInv, WalkInv, Concluded
  <2>3. i \notin todo
    <3>1. SUFFICES ASSUME i \in todo PROVE FALSE
      OBVIOUS
    <3>2. verdict = TAMPERED /\ first \in 1 .. MaxLength /\ first <= rows[i].seq
      BY <2>2, <3>1
    <3>3. rows[i].seq < first
      BY <2>1, <3>2 DEF RecordStatus, NoSequence, TAMPERED, VALID
    <3>4. rows[i].seq \in Nat
      BY <1>1, <2>1, RowFacts DEF IInv, Rec
    <3> QED
      BY <3>2, <3>3, <3>4
  <2> QED
    BY <2>1, <2>2, <2>3 DEF Walked, RecordFails
<1>2. IInv => WalkedStatusEarned
  BY <1>1
<1> QED
  BY <1>2, Invariance, PTL

(* Whatever was in the directory and wherever the export died, before,       *)
(* between or inside its writes, what then checks as intact is one whole     *)
(* bundle, the older or the new one; and an export that ended checks exactly *)
(* when every file at the top of the directory is its own.                   *)
THEOREM CrashedExportShows == EvidenceSpec => []UntouchedIsWhole
<1>1. IInv => UntouchedIsWhole
  BY DEF IInv, BundleInv
<1> QED
  BY <1>1, Invariance, PTL

================================================================================
