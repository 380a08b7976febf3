-------------------------------- MODULE Verdict --------------------------------
(***************************************************************************)
(* The verdict vocabulary and precedence rule of rootsign/verdict.py, and  *)
(* the chain walk of rootsign/sdk/chain.py that feeds it.                  *)
(*                                                                         *)
(* A chain under verification is a finite family of ACTION_RECORDs: a      *)
(* function from any index set (line numbers, row ids) to records          *)
(*   [seq, prev, hash   - sequence_number, prev_action_hash, self_hash     *)
(*    selfOk            - self_hash equals its recomputation               *)
(*    bindOk]           - the redacted payloads hash to input/output_hash  *)
(* The code sorts the records by seq and walks them; here the record       *)
(* walked just before r is the one with the greatest smaller number.       *)
(***************************************************************************)
EXTENDS Integers, ChainState

VALID == "VALID"
TAMPERED == "TAMPERED"
INCOMPLETE == "INCOMPLETE"

SequencesOf(recs) == {recs[i].seq : i \in DOMAIN recs}

(* verdict.missing_ranges: the maximal runs of numbers absent below the     *)
(* highest number present, as inclusive pairs.                              *)
missing_ranges(present) ==
    {r \in UNION {{<<a, s - 1>> : a \in 1 .. (s - 1)} : s \in present} :
        /\ \A n \in r[1] .. r[2] : n \notin present
        /\ r[1] = 1 \/ (r[1] - 1) \in present}

(* Mutant of explains_break: the gap must end at the record itself. *)
ExplainsOffByOne(seq, ranges) == \E r \in ranges : r[2] = seq

(* verdict.explains_break: the record numbered seq sits just after a gap.   *)
explains_break(seq, ranges) == \E r \in ranges : r[2] = seq - 1

(* Mutant of decide: gaps are not reported. *)
DecideNoGaps(missing, failed) == IF failed THEN TAMPERED ELSE VALID

(* Mutant of decide: a gap outranks a failure. *)
DecideGapFirst(missing, failed) ==
    IF missing # {} THEN INCOMPLETE ELSE IF failed THEN TAMPERED ELSE VALID

(* verdict.decide: the worst finding wins. *)
decide(missing, failed) ==
    IF failed THEN TAMPERED ELSE IF missing # {} THEN INCOMPLETE ELSE VALID

DuplicateSequence(recs) ==
    \E i, j \in DOMAIN recs : i # j /\ recs[i].seq = recs[j].seq

(* The self_hash the walk carries into record i as expected_prev. *)
IsExpectedPrev(recs, i, h) ==
    \/ /\ \A j \in DOMAIN recs : recs[j].seq >= recs[i].seq
       /\ h = NoHash
    \/ \E j \in DOMAIN recs :
          /\ recs[j].seq < recs[i].seq
          /\ \A k \in DOMAIN recs : recs[k].seq < recs[i].seq => recs[k].seq <= recs[j].seq
          /\ h = recs[j].hash

(* One iteration of the walk fails at record i. *)
RecordFails(recs, i) ==
    \/ ~recs[i].selfOk
    \/ /\ ~IsExpectedPrev(recs, i, recs[i].prev)
       /\ ~explains_break(recs[i].seq, missing_ranges(SequencesOf(recs)))
    \/ ~recs[i].bindOk

(* verify_session_local, from the point where the ACTION_RECORDs of the     *)
(* file are parsed.  No action at all is a valid, empty chain.              *)
ChainVerdict(recs) ==
    decide(missing_ranges(SequencesOf(recs)),
           DuplicateSequence(recs) \/ \E i \in DOMAIN recs : RecordFails(recs, i))

================================================================================
