------------------------------ MODULE VerdictProofs ------------------------------
(***************************************************************************)
(* What Verdict's chain walk concludes, for chains of any length.          *)
(***************************************************************************)
EXTENDS Verdict, WellFoundedInduction, TLAPS

(* A set of naturals that is not empty has a least member.                   *)
LEMMA LeastMember ==
    ASSUME NEW T, T \subseteq Nat, T # {}
    PROVE  \E x \in T : \A y \in T : x <= y
<1> DEFINE R == OpToRel(<, Nat)
<1>1. \E x \in T : \A y \in T : ~ (<<y, x>> \in R)
  <2>1. IsWellFoundedOn(R, Nat)
    BY NatLessThanWellFounded
  <2> HIDE DEF R
  <2> QED
    BY <2>1, WFMin
<1>2. \A x, y \in Nat : y < x => <<y, x>> \in R
  <2>1. R = {ss \in Nat \X Nat : ss[1] < ss[2]}
    BY Zenon DEF OpToRel
  <2> HIDE DEF R
  <2> QED
    BY <2>1
<1> HIDE DEF R
<1>3. PICK x \in T : \A y \in T : ~ (<<y, x>> \in R)
  BY <1>1
<1>4. ASSUME NEW y \in T PROVE x <= y
  <2>1. ~ (<<y, x>> \in R)
    BY <1>3, <1>4
  <2>2. x \in Nat /\ y \in Nat
    BY <1>4
  <2>3. ~ (y < x)
    BY <1>2, <2>1, <2>2
  <2> QED
    BY <2>2, <2>3
<1> QED
  BY <1>4

(* verdict.missing_ranges and explains_break: a record whose predecessor is  *)
(* absent sits at the far side of one of the ranges.                         *)
LEMMA AbsentPredecessorIsExplained ==
    ASSUME NEW present \in SUBSET (Nat \ {0}), NEW n \in present, n > 1, n - 1 \notin present
    PROVE  explains_break(n, missing_ranges(present))
<1> DEFINE T == {a \in 1 .. (n - 1) : \A k \in a .. (n - 1) : k \notin present}
<1>1. n - 1 \in T /\ T \subseteq Nat
  OBVIOUS
<1>2. PICK a \in T : \A y \in T : a <= y
  BY <1>1, LeastMember
<1>3. a = 1 \/ a - 1 \in present
  <2>1. SUFFICES ASSUME a # 1, a - 1 \notin present PROVE FALSE
    OBVIOUS
  <2>2. a - 1 \in 1 .. (n - 1)
    BY <1>2, <2>1
  <2>3. \A k \in (a - 1) .. (n - 1) : k = a - 1 \/ k \in a .. (n - 1)
    BY <1>2
  <2>4. a - 1 \in T
    BY <1>2, <2>1, <2>2, <2>3
  <2> QED
    BY <1>2, <2>4
<1>4. <<a, n - 1>> \in missing_ranges(present)
  <2>1. <<a, n - 1>> \in UNION {{<<b, s - 1>> : b \in 1 .. (s - 1)} : s \in present}
    BY <1>2
  <2> QED
    BY <1>2, <1>3, <2>1 DEF missing_ranges
<1> QED
  BY <1>4 DEF explains_break

(* A number absent below one that is present leaves a range behind.          *)
LEMMA AbsenceIsReported ==
    ASSUME NEW present \in SUBSET (Nat \ {0}), NEW k \in Nat \ {0}, k \notin present,
           NEW m \in present, m > k
    PROVE  missing_ranges(present) # {}
<1> DEFINE T == {x \in present : x > k}
<1>1. T \subseteq Nat /\ m \in T
  OBVIOUS
<1>2. PICK n \in T : \A y \in T : n <= y
  BY <1>1, LeastMember
<1>3. n - 1 \notin present
  <2>1. n - 1 \in present => n - 1 > k
    BY <1>2
  <2> QED
    BY <1>2, <2>1
<1>4. explains_break(n, missing_ranges(present))
  BY <1>2, <1>3, AbsentPredecessorIsExplained
<1> QED
  BY <1>4 DEF explains_break

(* The records of an honest archive: numbered from 1 without repetition,     *)
(* hashes intact, each linked to the record numbered just before it, where   *)
(* that record is in the archive.                                            *)
HonestArchive(recs) ==
    /\ \A i \in DOMAIN recs :
          recs[i].seq \in Nat \ {0} /\ recs[i].selfOk = TRUE /\ recs[i].bindOk = TRUE
    /\ \A i, j \in DOMAIN recs : recs[i].seq = recs[j].seq => i = j
    /\ \A i \in DOMAIN recs : recs[i].seq = 1 => recs[i].prev = NoHash
    /\ \A i, j \in DOMAIN recs : recs[i].seq = recs[j].seq + 1 => recs[i].prev = recs[j].hash

(* An honest archive never reads as tampered with, whichever of its records  *)
(* are missing (verify_session_local, verify_chain).                         *)
THEOREM HonestArchiveIsNotTampered ==
    ASSUME NEW recs, HonestArchive(recs)
    PROVE  ChainVerdict(recs) # TAMPERED
<1>1. ~DuplicateSequence(recs)
  BY DEF HonestArchive, DuplicateSequence
<1>2. ASSUME NEW i \in DOMAIN recs PROVE ~RecordFails(recs, i)
  <2> DEFINE present == SequencesOf(recs)
  <2>1. present \in SUBSET (Nat \ {0}) /\ recs[i].seq \in present
    BY <1>2 DEF SequencesOf, HonestArchive
  <2>2. recs[i].seq \in Nat \ {0} /\ recs[i].selfOk = TRUE /\ recs[i].bindOk = TRUE
    BY <1>2 DEF HonestArchive
  <2>3. CASE recs[i].seq = 1
    <3>1. \A j \in DOMAIN recs : recs[j].seq >= recs[i].seq
      BY <2>3 DEF HonestArchive
    <3>2. IsExpectedPrev(recs, i, recs[i].prev)
      BY <1>2, <2>3, <3>1 DEF IsExpectedPrev, HonestArchive
    <3> QED
      BY <2>2, <3>2 DEF RecordFails
  <2>4. CASE recs[i].seq # 1 /\ \E j \in DOMAIN recs : recs[i].seq = recs[j].seq + 1
    <3>1. PICK j \in DOMAIN recs : recs[i].seq = recs[j].seq + 1
      BY <2>4
    <3>2. recs[j].seq < recs[i].seq /\ recs[i].prev = recs[j].hash
      BY <1>2, <3>1 DEF HonestArchive
    <3>3. \A k \in DOMAIN recs : recs[k].seq < recs[i].seq => recs[k].seq <= recs[j].seq
      BY <1>2, <3>1 DEF HonestArchive
    <3>4. IsExpectedPrev(recs, i, recs[i].prev)
      BY <3>1, <3>2, <3>3 DEF IsExpectedPrev
    <3> QED
      BY <2>2, <3>4 DEF RecordFails
  <2>5. CASE recs[i].seq # 1 /\ ~\E j \in DOMAIN recs : recs[i].seq = recs[j].seq + 1
    <3>1. recs[i].seq - 1 \notin present
      BY <1>2, <2>2, <2>5 DEF SequencesOf, HonestArchive
    <3>2. explains_break(recs[i].seq, missing_ranges(present))
      BY <2>1, <2>2, <2>5, <3>1, AbsentPredecessorIsExplained
    <3> QED
      BY <2>2, <3>2 DEF RecordFails
  <2> QED
    BY <2>3, <2>4, <2>5
<1> QED
  BY <1>1, <1>2 DEF ChainVerdict, decide, TAMPERED, INCOMPLETE, VALID

(* A missing record below a present one is never reported as VALID.          *)
THEOREM GapIsNotValid ==
    ASSUME NEW recs, \A i \in DOMAIN recs : recs[i].seq \in Nat \ {0},
           NEW k \in Nat \ {0}, \A i \in DOMAIN recs : recs[i].seq # k,
           NEW m \in DOMAIN recs, recs[m].seq > k
    PROVE  ChainVerdict(recs) # VALID
<1>1. SequencesOf(recs) \in SUBSET (Nat \ {0})
  BY DEF SequencesOf
<1>2. k \notin SequencesOf(recs) /\ recs[m].seq \in SequencesOf(recs)
  BY DEF SequencesOf
<1>3. missing_ranges(SequencesOf(recs)) # {}
  BY <1>1, <1>2, AbsenceIsReported
<1> QED
  BY <1>3 DEF ChainVerdict, decide, TAMPERED, INCOMPLETE, VALID

(* VALID is evidence: no number is doubled or missing, every stored hash is  *)
(* right, and every record names the hash of the one before it, so changing  *)
(* any record but the last shows.                                            *)
THEOREM ValidIsLinked ==
    ASSUME NEW recs, \A i \in DOMAIN recs : recs[i].seq \in Nat \ {0},
           ChainVerdict(recs) = VALID
    PROVE  /\ \A i, j \in DOMAIN recs : recs[i].seq = recs[j].seq => i = j
           /\ \A i \in DOMAIN recs : \A k \in 1 .. recs[i].seq :
                 \E j \in DOMAIN recs : recs[j].seq = k
           /\ \A i \in DOMAIN recs : recs[i].selfOk /\ recs[i].bindOk
           /\ \A i, j \in DOMAIN recs :
                 recs[i].seq = recs[j].seq + 1 => recs[i].prev = recs[j].hash
<1>1. /\ ~DuplicateSequence(recs)
      /\ \A i \in DOMAIN recs : ~RecordFails(recs, i)
      /\ missing_ranges(SequencesOf(recs)) = {}
  BY DEF ChainVerdict, decide, TAMPERED, INCOMPLETE, VALID
<1>2. \A i, j \in DOMAIN recs : recs[i].seq = recs[j].seq => i = j
  BY <1>1 DEF DuplicateSequence
<1>3. ASSUME NEW i \in DOMAIN recs, NEW k \in 1 .. recs[i].seq
      PROVE  \E j \in DOMAIN recs : recs[j].seq = k
  <2>1. SUFFICES ASSUME \A j \in DOMAIN recs : recs[j].seq # k PROVE FALSE
    OBVIOUS
  <2>2. k \in Nat \ {0} /\ recs[i].seq > k
    BY <1>3, <2>1
  <2> QED
    BY <1>3, <2>1, <2>2, GapIsNotValid
<1>4. \A i \in DOMAIN recs : recs[i].selfOk /\ recs[i].bindOk
  BY <1>1 DEF RecordFails
<1>5. ASSUME NEW i \in DOMAIN recs, NEW j \in DOMAIN recs, recs[i].seq = recs[j].seq + 1
      PROVE  recs[i].prev = recs[j].hash
  <2>1. ~explains_break(recs[i].seq, missing_ranges(SequencesOf(recs)))
    BY <1>1 DEF explains_break
  <2>2. IsExpectedPrev(recs, i, recs[i].prev)
    BY <1>1, <1>5, <2>1 DEF RecordFails
  <2>3. recs[j].seq < recs[i].seq
    BY <1>5
  <2>4. PICK m \in DOMAIN recs :
            /\ recs[m].seq < recs[i].seq
            /\ \A k \in DOMAIN recs : recs[k].seq < recs[i].seq => recs[k].seq <= recs[m].seq
            /\ recs[i].prev = recs[m].hash
    BY <1>5, <2>2, <2>3 DEF IsExpectedPrev
  <2>5. recs[m].seq = recs[j].seq
    BY <1>5, <2>3, <2>4
  <2> QED
    BY <1>2, <2>4, <2>5
<1> QED
  BY <1>2, <1>3, <1>4, <1>5

===============================================================================
