------------------------------- MODULE SpoolSync -------------------------------
(***************************************************************************)
(* `rootsign-admin sync` for one spooled session: rootsign/cli.py reads    *)
(* the spool file (sdk/spool.py), replays it in batches (replay.py), files *)
(* a receipt (sdk/receipt.py) and retires the file and the receipt to      *)
(* synced/.  The writer of the session may still append, a run may die     *)
(* between any two steps, and the next run starts over from the files.     *)
(*                                                                         *)
(* A record is the number of its line among all the lines the writer made. *)
(* The server is external: it stores an event once, and may refuse it, be  *)
(* unavailable or lose its answer.                                         *)
(***************************************************************************)
EXTENDS Integers, Sequences, SequencesExt

CONSTANTS
    MaxRecords,   \* bound on the lines the writer appends
    BatchSize,    \* DEFAULT_BATCH_SIZE
    MaxRuns       \* bound on runs of the command

ASSUME SyncAssumption == MaxRecords \in Nat /\ BatchSize \in Nat \ {0} /\ MaxRuns \in Nat

VARIABLES
    written,    \* lines the writer has appended so far
    file,       \* sessions/<id>.jsonl: its records; <<>> when there is none
    torn,       \* its last line is cut off
    wire,       \* records that had reached the server before they were spooled
    server,     \* records the server has
    synced,     \* files retired to synced/, by suffix
    receipt,    \* receipts/<id>.sync.json
    siblings,   \* its *.corrupt-<n> siblings
    archive,    \* suffix -> receipt in synced/receipts/
    unread,     \* records retired with a file that was read before they came
    runs,       \* runs started; attempt n is the one run n files
    pc,         \* where the run is
    envelopes,  \* the records it read
    sha,        \* the records under the hash it took of the file
    responses,  \* ReplayReport.responses
    suffix      \* the suffix mark_synced gave the file

diskVars == <<synced, receipt, siblings, archive>>
runVars == <<runs, pc, envelopes, sha, responses, suffix>>
vars == <<written, file, torn, wire, server, diskVars, unread, runVars>>

Record == 1 .. MaxRecords

(* A receipt file: the attempts in it, and whether it parses.                *)
NoReceipt == [exists |-> FALSE, legible |-> TRUE, attempts |-> <<>>]

Response == {"accepted", "duplicate", "rejected", "unavailable"}

(* Mutant of IsSuccess: a record the server has ruled on is done with. *)
AnsweredForGood(r) == r # "unavailable"

(* _is_success: DUPLICATE_EVENT is what a re-run wants to hear.              *)
IsSuccess(r) == r \in {"accepted", "duplicate"}

(* ReplayReport.failed_index, counted from 1; 0 for None.                    *)
FailedIndex(rs) == SelectInSeq(rs, LAMBDA r : ~IsSuccess(r))

-------------------------------------------------------------------------------
(* Receipts *)

(* One step of compress_ranges' loop over the sorted positions.              *)
ExtendRanges(ranges, p) ==
    IF ranges # <<>> /\ Last(ranges)[2] + 1 = p
    THEN ReplaceAt(ranges, Len(ranges), <<Last(ranges)[1], p>>)
    ELSE Append(ranges, <<p, p>>)

(* compress_ranges: the positions, which are records, in ascending order.    *)
CompressRanges(positions) ==
    LET walk[p \in 0 .. MaxRecords] ==
            IF p = 0 THEN <<>>
            ELSE IF p \in positions THEN ExtendRanges(walk[p - 1], p) ELSE walk[p - 1]
    IN walk[MaxRecords]

ExpandRanges(ranges) == UNION {p[1] .. p[2] : p \in ToSet(ranges)}

(* Mutant of BuildAttempt: not_attempted starts at the last answer. *)
HaltIsTheEnd(n, read, hash, rs, raised) ==
    LET At(r) == {i \in DOMAIN rs : rs[i] = r} IN
    [id |-> n, read |-> read, hash |-> hash, raised |-> raised,
     accepted |-> CompressRanges(At("accepted")),
     duplicate |-> CompressRanges(At("duplicate")),
     rejected |-> At("rejected") \cup At("unavailable"),
     notAttempted |-> CompressRanges(Len(rs) .. Len(read)),
     disposition |-> IF FailedIndex(rs) = 0 THEN "fully_accepted" ELSE "partial"]

(* build_attempt                                                             *)
BuildAttempt(n, read, hash, rs, raised) ==
    LET At(r)   == {i \in DOMAIN rs : rs[i] = r}
        halting == FailedIndex(rs)
    IN [id |-> n, read |-> read, hash |-> hash, raised |-> raised,
        accepted |-> CompressRanges(At("accepted")),
        duplicate |-> CompressRanges(At("duplicate")),
        rejected |-> At("rejected") \cup At("unavailable"),
        notAttempted |-> CompressRanges(Len(rs) + 1 .. Len(read)),
        disposition |->
            CASE raised \/ (halting # 0 /\ rs[halting] = "unavailable") -> "transport_failed"
              [] OTHER -> IF halting = 0 THEN "fully_accepted" ELSE "partial"]

(* append_attempt: the receipt is rewritten by a rename, or a sibling made.  *)
AppendAttempt(a) ==
    \/ /\ receipt.legible
       /\ receipt' = [receipt EXCEPT !.exists = TRUE, !.attempts = Append(@, a)]
       /\ UNCHANGED siblings
    \/ /\ ~receipt.legible
       /\ siblings' = Append(siblings, <<a>>)
       /\ UNCHANGED receipt

-------------------------------------------------------------------------------
Init ==
    /\ written = 0
    /\ file = <<>>
    /\ torn = FALSE
    /\ wire = {}
    /\ server = {}
    /\ synced = <<>>
    /\ receipt = NoReceipt
    /\ siblings = <<>>
    /\ archive = [n \in {} |-> NoReceipt]
    /\ unread = {}
    /\ runs = 0
    /\ pc = "idle"
    /\ envelopes = <<>>
    /\ sha = <<>>
    /\ responses = <<>>
    /\ suffix = 0

(* The writer appends a line, making the file when there is none; a record   *)
(* whose POST timed out may be at the server already.                        *)
WriterAppend ==
    /\ written < MaxRecords
    /\ ~torn
    /\ written' = written + 1
    /\ file' = Append(file, written')
    /\ \E landed \in SUBSET {written'} : wire' = wire \cup landed /\ server' = server \cup landed
    /\ UNCHANGED <<torn, diskVars, unread, runVars>>

(* The writing process dies in the middle of an append.                      *)
WriterCrash ==
    /\ file # <<>> /\ ~torn
    /\ torn' = TRUE
    /\ UNCHANGED <<written, file, wire, server, diskVars, unread, runVars>>

(* The disk or a hand makes the live receipt illegible.                      *)
ReceiptDamaged ==
    /\ receipt.exists /\ receipt.legible
    /\ receipt' = [receipt EXCEPT !.legible = FALSE]
    /\ UNCHANGED <<written, file, torn, wire, server, synced, siblings, archive, unread, runVars>>

(* The operator empties synced/, which mark_synced's comment invites.        *)
EmptySynced ==
    /\ synced # <<>>
    /\ synced' = <<>>
    /\ UNCHANGED <<written, file, torn, wire, server, receipt, siblings, archive, unread, runVars>>

(* A run reads the file; a truncated final line makes it skip the session.   *)
ReadSpool ==
    /\ pc = "idle"
    /\ runs < MaxRuns
    /\ file # <<>>
    /\ runs' = runs + 1
    /\ pc' = IF torn THEN "idle" ELSE "hash"
    /\ envelopes' = IF torn THEN <<>> ELSE file
    /\ UNCHANGED <<written, file, torn, wire, server, diskVars, unread, sha, responses, suffix>>

(* sha256_file reads the file a second time. *)
HashSpool ==
    /\ pc = "hash"
    /\ pc' = "send"
    /\ sha' = file
    /\ UNCHANGED <<written, file, torn, wire, server, diskVars, unread, runs, envelopes, responses, suffix>>

(* The next batch of replay_envelopes. *)
NextBatch == SubSeq(envelopes, Len(responses) + 1,
                    IF Len(responses) + BatchSize < Len(envelopes)
                    THEN Len(responses) + BatchSize ELSE Len(envelopes))

(* Mutant of Halts: the walk goes on behind a refusal. *)
NeverHalts(rs) == FALSE

(* No batch is sent after one with a refusal. *)
Halts(rs) == FailedIndex(rs) # 0

(* One batch: the server stores what it accepts, knows what it has, refuses  *)
(* or is unavailable; without its answer a record may still have landed.     *)
SendBatch ==
    /\ pc = "send"
    /\ \E rs \in [1 .. Len(NextBatch) -> Response], lost \in SUBSET ToSet(NextBatch) :
          /\ \A i \in DOMAIN rs :
                /\ rs[i] = "duplicate" => NextBatch[i] \in server
                /\ rs[i] = "accepted" => NextBatch[i] \notin server
                /\ NextBatch[i] \in lost => rs[i] = "unavailable"
          /\ server' = server \cup lost \cup {NextBatch[i] : i \in {j \in DOMAIN rs : rs[j] = "accepted"}}
          /\ responses' = responses \o rs
          /\ pc' = IF Halts(responses') \/ Len(responses') = Len(envelopes) THEN "file" ELSE "send"
    /\ UNCHANGED <<written, file, torn, wire, diskVars, unread, runs, envelopes, sha, suffix>>

(* The transport raises in a batch, some of which may have landed: the       *)
(* responses so far are given up with the report they were collected in.     *)
SendRaises ==
    /\ pc = "send"
    /\ \E landed \in SUBSET ToSet(NextBatch) : server' = server \cup landed
    /\ responses' = <<>>
    /\ pc' = "raised"
    /\ UNCHANGED <<written, file, torn, wire, diskVars, unread, runs, envelopes, sha, suffix>>

(* The command ends; what it knew is gone. *)
EndRun ==
    /\ pc' = "idle"
    /\ envelopes' = <<>> /\ sha' = <<>> /\ responses' = <<>> /\ suffix' = 0
    /\ UNCHANGED runs

(* Mutant of Outcome: the file is retired on any answer of the server. *)
RetireAnswered == IF pc = "file" THEN "retire" ELSE "idle"

(* What _sync_one does after the receipt: only a complete report retires.    *)
Outcome == IF pc = "file" /\ FailedIndex(responses) = 0 THEN "retire" ELSE "idle"

(* The receipt comes first, whatever the outcome; an unfinished session is   *)
(* left in place.                                                            *)
FileReceipt ==
    /\ pc \in {"file", "raised"}
    /\ AppendAttempt(BuildAttempt(runs, envelopes, sha, responses, pc = "raised"))
    /\ IF Outcome = "retire"
       THEN pc' = "retire" /\ UNCHANGED <<runs, envelopes, sha, responses, suffix>>
       ELSE EndRun
    /\ UNCHANGED <<written, file, torn, wire, server, synced, archive, unread>>

(* mark_synced moves the file as it is by now under the next free suffix.    *)
Retire ==
    /\ pc = "retire"
    /\ suffix' = Len(synced)
    /\ synced' = Append(synced, [lines |-> file, read |-> envelopes])
    /\ unread' = unread \cup (ToSet(file) \ ToSet(envelopes))
    /\ file' = <<>>
    /\ pc' = "move"
    /\ UNCHANGED <<written, torn, wire, server, receipt, siblings, archive,
                   runs, envelopes, sha, responses>>

(* Mutant of FreeSuffix: a receipt with the file's suffix is overwritten. *)
SameSuffix(n) == n = suffix

(* mark_receipt_synced: the file's suffix, or the next one no receipt has.   *)
FreeSuffix(n) == n >= suffix /\ n \notin DOMAIN archive /\ suffix .. n - 1 \subseteq DOMAIN archive

(* _move_receipt: the receipt follows its file.                              *)
MoveReceipt ==
    /\ pc = "move"
    /\ \E n \in 0 .. MaxRuns :
          /\ FreeSuffix(n)
          /\ archive' = [m \in DOMAIN archive \cup {n} |-> IF m = n THEN receipt ELSE archive[m]]
    /\ receipt' = NoReceipt
    /\ EndRun
    /\ UNCHANGED <<written, file, torn, wire, server, synced, siblings, unread>>

(* The command dies between two steps, or with a batch in the air.           *)
SyncCrash ==
    /\ pc # "idle"
    /\ \E landed \in SUBSET (IF pc = "send" THEN ToSet(NextBatch) ELSE {}) :
          server' = server \cup landed
    /\ EndRun
    /\ UNCHANGED <<written, file, torn, wire, diskVars, unread>>

Sync == ReadSpool \/ HashSpool \/ SendBatch \/ SendRaises \/ FileReceipt \/ Retire \/ MoveReceipt

Next == WriterAppend \/ WriterCrash \/ ReceiptDamaged \/ EmptySynced \/ Sync \/ SyncCrash

Spec == Init /\ [][Next]_vars

-------------------------------------------------------------------------------
(* Properties *)

(* The receipts on disk, wherever they are. *)
Receipts ==
    {receipt.attempts} \cup ToSet(siblings) \cup {archive[n].attempts : n \in DOMAIN archive}

Attempts == UNION {ToSet(r) : r \in Receipts}

(* Positions of the records an attempt says the server has.                  *)
Delivered(a) == ExpandRanges(a.accepted) \cup ExpandRanges(a.duplicate)

(* A receipt can be believed without its writer: the buckets of an attempt   *)
(* cover its records once each (partition_is_total), what it calls delivered *)
(* is at the server, and fully_accepted means all of it, through crashes,    *)
(* lost answers and re-runs.                                                 *)
ReceiptIsTrue ==
    \A a \in Attempts :
        LET buckets == <<ExpandRanges(a.accepted), ExpandRanges(a.duplicate), a.rejected,
                         ExpandRanges(a.notAttempted)>>
        IN /\ UNION ToSet(buckets) = DOMAIN a.read
           /\ \A i, j \in DOMAIN buckets : i # j => buckets[i] \cap buckets[j] = {}
           /\ \A p \in Delivered(a) : a.read[p] \in server
           /\ a.disposition = "fully_accepted" <=> Delivered(a) = DOMAIN a.read

(* "delivery stays a prefix, so the spool file alone answers where the next  *)
(* run starts" (replay.py:156), up to the batch of the refusal: no record is *)
(* uploaded from a batch behind one that the server lacks a record of.       *)
GapsStayInBatch ==
    \A f \in {file} \cup {s.lines : s \in ToSet(synced)} : \A p, q \in DOMAIN f :
        (p - 1) \div BatchSize < (q - 1) \div BatchSize /\ f[q] \in server \ wire
            => f[p] \in server

(* "Append-only across attempts" (receipt.py:366): an attempt that was filed *)
(* stays on disk, whatever crashes, damaged receipts, retirements and        *)
(* colliding names do to the files around it.                                *)
AttemptsSurvive == [][Attempts \subseteq Attempts']_vars

(* A file is retired only behind a fully accepted attempt that accounts for  *)
(* it as far as it was read: the server has all of that, what the receipt    *)
(* hashed is at least that, and the file has grown since at most.            *)
RetiredIsReceipted ==
    \A s \in ToSet(synced) :
        /\ ToSet(s.read) \subseteq server
        /\ \E a \in Attempts :
              /\ a.disposition = "fully_accepted"
              /\ a.read = s.read
              /\ IsPrefix(a.read, a.hash) /\ IsPrefix(a.hash, s.lines)

(* "Hashed BEFORE the upload, over the bytes actually about to be replayed"  *)
(* (cli.py:433): an attempt's hash is that of the records it replayed.       *)
(* It does not hold.                                                         *)
HashIsOfTheReplayed == \A a \in Attempts : a.hash = a.read

(* "Fully-uploaded files move to `spool/synced/`" (README.md:433): the       *)
(* server has every record of a retired file.                                *)
(* It does not hold.                                                         *)
RetiredIsUploaded == \A s \in ToSet(synced) : ToSet(s.lines) \subseteq server

(* The spool and its upload as a store-and-forward component.                *)
Promise == INSTANCE Delivery WITH
    held <- ToSet(file),
    reached <- server,
    refused <- {},
    abandoned <- unread

(* A spooled record leaves the spool only when the server has it: nothing a  *)
(* crash, a refusal or a lost answer does retires it early.  The exception   *)
(* is a line that came after the run had read the file.                      *)
ImplementsDelivery == Promise!Spec

================================================================================
