----------------------------- MODULE TrailVerifier -----------------------------
(***************************************************************************)
(* One session's archive and its two verifiers, step by step:              *)
(*   "local" - verify_session_local on a JSONL file (sdk/chain.py)         *)
(*   "store" - CRUDAction.verify_chain on the actions table                *)
(*             (crud/action.py)                                            *)
(* The archive grows by honestly sealed records and may be damaged: records*)
(* lost, edited, stored twice, or rewritten together with any number of    *)
(* their successors.  Verdict states what the walk must conclude; the      *)
(* properties compare the two and relate both to what happened.            *)
(*                                                                         *)
(* Hashes: the n-th record is sealed with hash n.  A rewritten record gets *)
(* a negative hash, another for each record and each rewriting: a hash     *)
(* covers the record's own fields and its link.  NoHash is 0.              *)
(***************************************************************************)
EXTENDS Verdict, FiniteSets

CONSTANTS
    MaxLength,    \* bound on the records sealed
    MaxDamage     \* bound on the damaging steps

ASSUME TrailAssumption == MaxLength \in Nat /\ MaxDamage \in Nat /\ NoHash = 0

VARIABLES
    chain,      \* the ChainState that seals the records
    rows,       \* row -> stored record; a row is a line number or primary key
    torn,       \* the file ends in a half-written line
    damage,     \* damaging steps taken
    phase,      \* "archive", then the verifier's "dups", "walk", "done"
    verifier,   \* which verifier runs
    gaps,       \* its missing_ranges
    todo,       \* the rows it has not walked
    seen,       \* the numbers it has walked
    expected,   \* expected_prev
    verdict,    \* its result
    first       \* first_invalid_sequence of its result

archiveVars == <<chain, rows, torn, damage>>
walkVars == <<verifier, gaps, todo, seen, expected, verdict, first>>
vars == <<archiveVars, phase, walkVars>>

NoVerdict == "none"
NoSequence == 0

-------------------------------------------------------------------------------
(* The archive *)

Init ==
    /\ chain = EmptyChain
    /\ rows = << >>
    /\ torn = FALSE
    /\ damage = 0
    /\ phase = "archive"
    /\ verifier \in {"local", "store"}
    /\ gaps = {}
    /\ todo = {}
    /\ seen = {}
    /\ expected = NoHash
    /\ verdict = NoVerdict
    /\ first = NoSequence

(* rows with r stored under a fresh row number, or in place of row i. *)
Insert(r) == rows' = [i \in 1 .. (Cardinality(DOMAIN rows) + 1) |->
                         IF i \in DOMAIN rows THEN rows[i] ELSE r]
Alter(i, r) == rows' = [rows EXCEPT ![i] = r]

(* A record is sealed and stored: JsonlIngestClient._build_action and        *)
(* _append_line, or CRUDAction.create_with_hash.                             *)
AppendRecord ==
    /\ phase = "archive"
    /\ ~torn
    /\ chain.count < MaxLength
    /\ LET seal == MintedSeal(chain)
       IN  /\ Insert([seq |-> seal.seq, prev |-> seal.prev, hash |-> seal.seq,
                      selfOk |-> TRUE, bindOk |-> TRUE])
           /\ chain' = AfterMint(chain, seal.seq)
    /\ UNCHANGED <<torn, damage, phase, walkVars>>

(* A record is sealed but its write fails, so it is never stored.            *)
LoseRecord ==
    /\ phase = "archive"
    /\ ~torn
    /\ chain.count < MaxLength
    /\ chain' = AfterMint(chain, chain.count + 1)
    /\ UNCHANGED <<rows, torn, damage, phase, walkVars>>

(* The process dies inside the last append of the file.                      *)
TearLastLine ==
    /\ phase = "archive"
    /\ verifier = "local"
    /\ ~torn
    /\ chain.count < MaxLength
    /\ chain' = AfterMint(chain, chain.count + 1)
    /\ torn' = TRUE
    /\ UNCHANGED <<rows, damage, phase, walkVars>>

Damage ==
    /\ phase = "archive"
    /\ damage < MaxDamage
    /\ damage' = damage + 1
    /\ UNCHANGED <<chain, torn, phase, walkVars>>

(* A canonical field is rewritten; the number may move. *)
EditField ==
    /\ Damage
    /\ \E i \in DOMAIN rows, n \in 1 .. MaxLength :
          Alter(i, [rows[i] EXCEPT !.seq = n, !.selfOk = FALSE])

(* A redacted payload is rewritten, its hash is not. *)
EditPayload ==
    /\ Damage
    /\ \E i \in DOMAIN rows : Alter(i, [rows[i] EXCEPT !.bindOk = FALSE])

(* The hash that this damage gives to the record numbered n. *)
Rehashed(n) == -((damage + 1) * (MaxLength + 1) + n)

(* Record i is rewritten consistently, and so are those after it up to the   *)
(* number `last`: every one links onto its rewritten predecessor and its     *)
(* hashes are recomputed.  The chain is not keyed, so nothing prevents it.   *)
Reseal ==
    /\ Damage
    /\ \E i \in DOMAIN rows : \E last \in rows[i].seq .. MaxLength :
          LET after == {j \in DOMAIN rows : rows[j].seq \in rows[i].seq + 1 .. last}
              numbers == {rows[j].seq : j \in after \cup {i}}
          IN  rows' = [j \in DOMAIN rows |->
                 IF j \notin after \cup {i} THEN rows[j]
                 ELSE [rows[j] EXCEPT
                          !.prev = IF j # i /\ rows[j].seq - 1 \in numbers
                                   THEN Rehashed(rows[j].seq - 1) ELSE @,
                          !.hash = Rehashed(rows[j].seq),
                          !.selfOk = TRUE,
                          !.bindOk = TRUE]]

(* A record is stored a second time. *)
Replay ==
    /\ Damage
    /\ \E i \in DOMAIN rows : Insert(rows[i])

-------------------------------------------------------------------------------
(* The verifiers *)

(* The loop of verdict.missing_ranges: scan[c] is its state after candidate  *)
(* c, start = 0 standing for None.                                           *)
ScanRanges(present, last) ==
    LET scan[c \in 0 .. last] ==
            IF c = 0 THEN [start |-> 0, ranges |-> {}]
            ELSE LET s == scan[c - 1]
                 IN  CASE c \in present /\ s.start # 0 ->
                              [start |-> 0, ranges |-> s.ranges \cup {<<s.start, c - 1>>}]
                       [] c \notin present /\ s.start = 0 -> [s EXCEPT !.start = c]
                       [] OTHER -> s
    IN  scan[last].ranges

Least(S) == CHOOSE m \in S : \A n \in S : m <= n
Greatest(S) == CHOOSE m \in S : \A n \in S : n <= m

(* _tampered at the number `at`, or the verdict of a walk that ended, which  *)
(* points at the first gap.                                                  *)
Conclude(failed, at) ==
    /\ verdict' = decide(gaps, failed)
    /\ first' = at
    /\ phase' = "done"
    /\ UNCHANGED <<archiveVars, verifier, gaps, todo, seen, expected>>

(* The verifier is called: the archive is read and, unless that alone gives  *)
(* the answer, the gaps are computed before the walk.  rows are the actions: *)
(* the file also holds its other lines, so a file without actions is not     *)
(* empty, and its chain is valid.                                            *)
Load ==
    /\ phase = "archive"
    /\ IF torn \/ DOMAIN rows = {}
       THEN /\ verdict' = IF torn THEN TAMPERED ELSE VALID
            /\ first' = NoSequence
            /\ phase' = "done"
            /\ UNCHANGED <<archiveVars, verifier, gaps, todo, seen, expected>>
       ELSE LET present == SequencesOf(rows)
            IN  /\ gaps' = ScanRanges(present, Greatest(present))
                /\ todo' = DOMAIN rows
                /\ phase' = IF verifier = "local" THEN "dups" ELSE "walk"
                /\ UNCHANGED <<archiveVars, verifier, seen, expected, verdict, first>>

(* verify_session_local compares neighbours of the sorted records first.     *)
CheckDuplicates ==
    /\ phase = "dups"
    /\ IF DuplicateSequence(rows)
       THEN Conclude(TRUE, Least({rows[i].seq : i \in
                               {j \in DOMAIN rows : \E k \in DOMAIN rows \ {j} : rows[k].seq = rows[j].seq}}))
       ELSE /\ phase' = "walk"
            /\ UNCHANGED <<archiveVars, walkVars>>

(* Mutant of WalkFails: repeated numbers pass. *)
WalkIgnoresSeen(i) ==
    \/ ~rows[i].selfOk
    \/ rows[i].prev # expected /\ ~explains_break(rows[i].seq, gaps)
    \/ ~rows[i].bindOk

(* Mutant of WalkFails: prev_action_hash is not compared. *)
WalkIgnoresLinks(i) ==
    \/ verifier = "store" /\ rows[i].seq \in seen
    \/ ~rows[i].selfOk
    \/ ~rows[i].bindOk

(* One iteration of either walk, in the order of the code: number seen       *)
(* before (store only), self hash, link unless a gap explains it, payloads.  *)
WalkFails(i) ==
    \/ verifier = "store" /\ rows[i].seq \in seen
    \/ ~rows[i].selfOk
    \/ rows[i].prev # expected /\ ~explains_break(rows[i].seq, gaps)
    \/ ~rows[i].bindOk

Walk ==
    /\ phase = "walk"
    /\ \E i \in todo :
          /\ \A j \in todo : rows[i].seq <= rows[j].seq
          /\ IF WalkFails(i)
             THEN Conclude(TRUE, rows[i].seq)
             ELSE /\ todo' = todo \ {i}
                  /\ seen' = seen \cup {rows[i].seq}
                  /\ expected' = rows[i].hash
                  /\ UNCHANGED <<archiveVars, phase, verifier, gaps, verdict, first>>

Finish ==
    /\ phase = "walk"
    /\ todo = {}
    /\ Conclude(FALSE, IF gaps = {} THEN NoSequence ELSE Least({r[1] : r \in gaps}))

WriterNext == AppendRecord \/ LoseRecord \/ TearLastLine
DamageNext == EditField \/ EditPayload \/ Reseal \/ Replay
VerifierNext == Load \/ CheckDuplicates \/ Walk \/ Finish

-------------------------------------------------------------------------------
(* Properties *)

Done == phase = "done"

(* The record in row i is the one that was sealed. *)
Original(i) ==
    /\ rows[i].selfOk
    /\ rows[i].bindOk
    /\ rows[i].hash = rows[i].seq
    /\ rows[i].prev = rows[i].seq - 1

(* Either loop concludes exactly what Verdict defines, ranges included: "the *)
(* two can never disagree about the same session" (crud/action.py:191).      *)
WalkDecidesVerdict ==
    Done /\ ~torn => /\ verdict = ChainVerdict(rows)
                     /\ gaps = missing_ranges(SequencesOf(rows))

(* Records that never arrived are reported as missing, never as tampering,   *)
(* and the ranges name them all up to the last record that did arrive.       *)
LossIsIncomplete ==
    Done /\ ~torn /\ (\A i \in DOMAIN rows : Original(i)) /\ ~DuplicateSequence(rows) =>
        /\ verdict # TAMPERED
        /\ UNION {r[1] .. r[2] : r \in gaps}
             = {n \in 1 .. chain.count : /\ n \notin SequencesOf(rows)
                                         /\ \E m \in SequencesOf(rows) : m > n}

(* README.md:24: "Modify any record after the fact and `rootsign verify`     *)
(* detects it" - what verifies VALID holds the records that were sealed.     *)
(* It does not hold.                                                         *)
EditsDetected ==
    Done /\ verdict = VALID => \A i \in DOMAIN rows : Original(i)

(* What VALID does mean: nothing is missing or doubled, and a record that    *)
(* still has the hash it was sealed with vouches for all before it.  Whoever *)
(* noted the hash of the last record knows the whole history.                *)
ValidMeansHistory ==
    Done /\ verdict = VALID =>
        /\ ~DuplicateSequence(rows)
        /\ \A i \in DOMAIN rows : \A n \in 1 .. rows[i].seq :
              \E j \in DOMAIN rows : /\ rows[j].seq = n
                                     /\ rows[i].hash = rows[i].seq => Original(j)

(* A gap elsewhere never downgrades an alteration: a record edited in place, *)
(* or rewritten - with or without successors - in front of one that still    *)
(* has the hash it was sealed with and no gap between them, makes the        *)
(* verdict TAMPERED.                                                         *)
AlterationDetected ==
    Done /\ (\E i \in DOMAIN rows :
                \/ ~rows[i].selfOk
                \/ ~rows[i].bindOk
                \/ /\ rows[i].hash # rows[i].seq
                   /\ \E j \in DOMAIN rows :
                         /\ rows[j].seq > rows[i].seq
                         /\ rows[j].hash = rows[j].seq
                         /\ rows[i].seq .. rows[j].seq \subseteq SequencesOf(rows))
        => verdict = TAMPERED

================================================================================
