------------------------------ MODULE CloudClient ------------------------------
(***************************************************************************)
(* HttpIngestClient (rootsign/sdk/client.py) with the parts it drives: the *)
(* ChainRegistry it seals with, the JsonlIngestClient it fails over to     *)
(* (the spool, which shares the registry and adopts the seals), and the    *)
(* per-session LossLedger.                                                 *)
(*                                                                         *)
(* Tasks are asyncio tasks that call handle_batch on one client.  A task   *)
(* keeps the event loop (running = t) from one suspension to the next: it  *)
(* gives it up only while it waits for an HTTP answer or a backoff sleep.  *)
(* The spool's locks are never contended, so a spool write is no           *)
(* suspension.  The hosted server and the disk are external and answer     *)
(* in any way the code provides for.                                       *)
(***************************************************************************)
EXTENDS Integers, Sequences, FiniteSets, Verdict

CONSTANTS
    Task,           \* asyncio tasks calling handle_batch
    Envelope,       \* the envelopes the SDK emits
    Session,        \* session ids
    SessionOf,      \* envelope -> session
    TypeOf,         \* envelope -> "auto" | "pending" | "approval" | "other" | "close"
    MaxRetries,     \* total POST attempts per call (HTTP_MAX_RETRIES)
    Buffered,       \* the callers go through BufferedIngestClient
    MaxBatch,       \* the longest batch it flushes (BUFFER_MAX_SIZE)
    SpoolEnabled,   \* enable_spool
    OnRecordLoss,   \* "warn" | "fail"
    MaxLines,       \* bound on a spool file that fsync failures lengthen
    NoTask

(* __init__ clamps max_retries to at least one attempt. *)
ASSUME CloudAssumption ==
    /\ SessionOf \in [Envelope -> Session]
    /\ TypeOf \in [Envelope -> {"auto", "pending", "approval", "other", "close"}]
    /\ MaxRetries \in Nat \ {0}
    /\ Buffered \in BOOLEAN
    /\ MaxBatch \in Nat \ {0}
    /\ SpoolEnabled \in BOOLEAN
    /\ OnRecordLoss \in {"warn", "fail"}
    /\ MaxLines \in Nat
    /\ NoTask \notin Task
    /\ NoHash \notin Envelope

VARIABLES
    chains,      \* session -> ChainState, shared by the wire and the spool
    seals,       \* envelope -> its chain fields; seq 0 while unsealed
    spooling,    \* _spooling: the client has given up on the network
    server,      \* envelopes the server has stored
    refused,     \* envelopes the server rejected for good
    file,        \* session -> envelopes in the spool file, in file order
    handled,     \* envelopes in the spool's IdempotencyStore
    ledger,      \* session -> envelopes the LossLedger accounts for
    annotation,  \* session -> envelopes the file's RECORD_LOSS lines account for
    answer,      \* envelope -> the response its caller holds
    pc,          \* task -> where handle_batch is
    batch,       \* task -> the envelopes of the call
    todo,        \* task -> the slots of the batch still to seal, post or spool
    attempt,     \* task -> POST attempts used
    running      \* the task holding the event loop

chainVars == <<chains, seals>>
storeVars == <<server, refused, file, handled, ledger, annotation>>
taskVars == <<pc, batch, todo, attempt, running>>
vars == <<chainVars, spooling, storeVars, answer, taskVars>>

IsAction(e) == TypeOf[e] \in {"auto", "pending"}

(* client._is_control_record *)
IsControl(e) == TypeOf[e] \in {"pending", "approval"}

Sealed(e) == seals[e].seq > 0

(* Mutant of NeedsSeal: a resent action is sealed again. *)
ResealsOnResend(e) == IsAction(e)

NeedsSeal(e) == IsAction(e) /\ ~Sealed(e)

Spooled(e) == \E i \in DOMAIN file[SessionOf[e]] : file[SessionOf[e]][i] = e

Durable(e) == e \in server \/ Spooled(e)

InBatch(t) == {batch[t][i] : i \in DOMAIN batch[t]}

(* What a caller may pass.  Unbuffered, every envelope is a batch of its own *)
(* and nobody sends one twice.  BufferedIngestClient flushes auto-authorized *)
(* actions together and, once the call has ended, re-queues those that came  *)
(* back retryable or raised, in front of the ones it has not sent yet.       *)
Sendable ==
    {e \in Envelope :
        \/ answer[e] = "new"
        \/ /\ Buffered /\ TypeOf[e] = "auto"
           /\ answer[e] \in {"retryable", "raised"}
           /\ \A t \in Task : e \notin InBatch(t)}

Batches ==
    {<<e>> : e \in Sendable} \cup
    {b \in UNION {[1 .. n -> {e \in Sendable : TypeOf[e] = "auto"}] : n \in 2 .. MaxBatch} :
        /\ Buffered
        /\ \A i, j \in DOMAIN b : i # j => b[i] # b[j]
        /\ \A i, j \in DOMAIN b : i < j /\ Sealed(b[j]) => Sealed(b[i])}

Slot(t, i) == i \in todo[t] /\ \A j \in todo[t] : i <= j

-------------------------------------------------------------------------------
Init ==
    /\ chains = [s \in Session |-> EmptyChain]
    /\ seals = [e \in Envelope |-> [seq |-> 0, prev |-> NoHash]]
    /\ spooling = FALSE
    /\ server = {}
    /\ refused = {}
    /\ file = [s \in Session |-> <<>>]
    /\ handled = {}
    /\ ledger = [s \in Session |-> {}]
    /\ annotation = [s \in Session |-> {}]
    /\ answer = [e \in Envelope |-> "new"]
    /\ pc = [t \in Task |-> "idle"]
    /\ batch = [t \in Task |-> <<>>]
    /\ todo = [t \in Task |-> {}]
    /\ attempt = [t \in Task |-> 0]
    /\ running = NoTask

(* handle_batch is called. *)
HandleBatch(t) ==
    /\ running = NoTask
    /\ pc[t] = "idle"
    /\ \E b \in Batches :
          /\ batch' = [batch EXCEPT ![t] = b]
          /\ todo' = [todo EXCEPT ![t] = DOMAIN b]
          /\ answer' = [e \in Envelope |->
                           IF \E i \in DOMAIN b : b[i] = e THEN "inflight" ELSE answer[e]]
    /\ pc' = [pc EXCEPT ![t] = "seal"]
    /\ attempt' = [attempt EXCEPT ![t] = 0]
    /\ running' = t
    /\ UNCHANGED <<chainVars, spooling, storeVars>>

(* _seal, one envelope: an unsealed action gets its chain fields, in place.  *)
Seal(t) ==
    /\ running = t
    /\ pc[t] = "seal"
    /\ \E i \in DOMAIN batch[t] :
          LET e == batch[t][i]
              s == SessionOf[e]
          IN  /\ Slot(t, i)
              /\ todo' = [todo EXCEPT ![t] = @ \ {i}]
              /\ IF NeedsSeal(e)
                 THEN /\ seals' = [seals EXCEPT ![e] = MintedSeal(chains[s])]
                      /\ chains' = [chains EXCEPT ![s] = AfterMint(@, e)]
                 ELSE UNCHANGED chainVars
    /\ UNCHANGED <<spooling, storeVars, answer, pc, batch, attempt, running>>

(* The whole batch is sealed: spool it if the client is in spool mode, POST  *)
(* it otherwise, which suspends the task.                                    *)
Dispatch(t) ==
    /\ running = t
    /\ pc[t] = "seal"
    /\ todo[t] = {}
    /\ todo' = [todo EXCEPT ![t] = DOMAIN batch[t]]
    /\ pc' = [pc EXCEPT ![t] = IF spooling THEN "spool" ELSE "post"]
    /\ running' = IF spooling THEN t ELSE NoTask
    /\ UNCHANGED <<chainVars, spooling, storeVars, answer, batch, attempt>>

(* handle_batch returns or raises: its locals die with the call. *)
Leave(t) ==
    /\ pc' = [pc EXCEPT ![t] = "idle"]
    /\ batch' = [batch EXCEPT ![t] = <<>>]
    /\ todo' = [todo EXCEPT ![t] = {}]
    /\ attempt' = [attempt EXCEPT ![t] = 0]
    /\ running' = NoTask

(* Mutant of Results: every envelope gets the first response. *)
MisalignedResults(t, res) ==
    [e \in Envelope |->
        IF \E i \in todo[t] : batch[t][i] = e
        THEN res[CHOOSE i \in todo[t] : Slot(t, i)]
        ELSE answer[e]]

(* Each response goes to the envelope of its slot. *)
Results(t, res) ==
    [e \in Envelope |->
        IF \E i \in todo[t] : batch[t][i] = e
        THEN res[CHOOSE i \in todo[t] : batch[t][i] = e]
        ELSE answer[e]]

(* What handle_batch does with one round of answers: retry the retryable     *)
(* slots while attempts remain; then fail over to the spool, or return.      *)
Settle(t, res) ==
    LET left == {i \in todo[t] : res[i] = "retryable"}
        spent == attempt[t] = MaxRetries - 1
    IN  /\ answer' = Results(t, res)
        /\ \/ /\ left # {}
              /\ ~spent
              /\ todo' = [todo EXCEPT ![t] = left]
              /\ attempt' = [attempt EXCEPT ![t] = @ + 1]
              /\ UNCHANGED <<spooling, pc, batch, running>>
           \/ /\ left # {}
              /\ spent
              /\ SpoolEnabled
              /\ spooling' = TRUE
              /\ todo' = [todo EXCEPT ![t] = left]
              /\ pc' = [pc EXCEPT ![t] = "spool"]
              /\ running' = t
              /\ UNCHANGED <<batch, attempt>>
           \/ /\ left = {} \/ (spent /\ ~SpoolEnabled)
              /\ Leave(t)
              /\ UNCHANGED spooling
        /\ UNCHANGED <<chainVars, file, handled, ledger, annotation>>

(* Timeout, connection error, 429, 5xx or an unreadable 200: every element   *)
(* is retryable, and the server may have stored any of them.                 *)
TransportFailure(t) ==
    /\ running = NoTask
    /\ pc[t] = "post"
    /\ \E landed \in SUBSET {batch[t][i] : i \in todo[t]} : server' = server \cup landed
    /\ UNCHANGED refused
    /\ Settle(t, [i \in todo[t] |-> "retryable"])

(* 401, 403 and the other 4xx without a body: a final refusal of the batch.  *)
BatchRefused(t) ==
    /\ running = NoTask
    /\ pc[t] = "post"
    /\ refused' = refused \cup {batch[t][i] : i \in todo[t]}
    /\ UNCHANGED server
    /\ Settle(t, [i \in todo[t] |-> "rejected"])

(* A well-formed body: one answer per element.  The server knows its events  *)
(* by event_id and answers one it holds "accepted" again or DUPLICATE_EVENT. *)
BatchAnswered(t) ==
    /\ running = NoTask
    /\ pc[t] = "post"
    /\ \E res \in [todo[t] -> {"accepted", "duplicate", "rejected", "retryable"}] :
          /\ \A i \in todo[t] :
                IF batch[t][i] \in server
                THEN res[i] \in {"accepted", "duplicate"}
                ELSE res[i] # "duplicate"
          /\ server' = server \cup {batch[t][i] : i \in {j \in todo[t] : res[j] = "accepted"}}
          /\ refused' = refused \cup {batch[t][i] : i \in {j \in todo[t] : res[j] = "rejected"}}
          /\ Settle(t, res)

(* Mutant of SpoolNext: the loop stays on its envelope. *)
SpoolStays(t, i) == UNCHANGED <<todo, pc, batch, attempt, running>>

(* _write_to_spool moves on to the next envelope. *)
SpoolNext(t, i) ==
    /\ todo' = [todo EXCEPT ![t] = @ \ {i}]
    /\ UNCHANGED <<pc, batch, attempt, running>>

(* handle_batch raises: the caller learns nothing about any element.         *)
Raise(t) ==
    /\ answer' = [e \in Envelope |-> IF e \in InBatch(t) THEN "raised" ELSE answer[e]]
    /\ Leave(t)

(* _flush_ledger at SESSION_CLOSE: the tally is appended if the disk lets it.*)
FlushLedger(e) ==
    \/ /\ TypeOf[e] = "close"
       /\ ledger'[SessionOf[e]] # {}
       /\ annotation' = [annotation EXCEPT ![SessionOf[e]] = @ \cup ledger'[SessionOf[e]]]
    \/ UNCHANGED annotation

(* JsonlIngestClient._build_action on a sealed payload adopts the seal       *)
(* before the line is written.                                               *)
AdoptSeal(e) ==
    chains' = IF IsAction(e)
              THEN [chains EXCEPT ![SessionOf[e]] = AfterAdopt(@, e, seals[e].seq)]
              ELSE chains

(* JsonlIngestClient._should_fsync under the spool's policy "chain". *)
ShouldFsync(e) == TypeOf[e] \in {"auto", "pending", "approval"}

(* JsonlIngestClient._append_line *)
AppendLine(e) == file' = [file EXCEPT ![SessionOf[e]] = Append(@, e)]

(* The spool has handled the event: DUPLICATE_EVENT, nothing written.        *)
SpoolDuplicate(t) ==
    /\ running = t
    /\ pc[t] = "spool"
    /\ \E i \in DOMAIN batch[t] :
          LET e == batch[t][i]
          IN  /\ Slot(t, i)
              /\ e \in handled
              /\ answer' = [answer EXCEPT ![e] = "duplicate"]
              /\ UNCHANGED ledger
              /\ FlushLedger(e)
              /\ SpoolNext(t, i)
    /\ UNCHANGED <<chainVars, spooling, server, refused, file, handled>>

(* The line is appended, and then the event is entered as handled.           *)
SpoolWrite(t) ==
    /\ running = t
    /\ pc[t] = "spool"
    /\ \E i \in DOMAIN batch[t] :
          LET e == batch[t][i]
          IN  /\ Slot(t, i)
              /\ e \notin handled
              /\ AdoptSeal(e)
              /\ AppendLine(e)
              /\ handled' = handled \cup {e}
              /\ answer' = [answer EXCEPT ![e] = "accepted"]
              /\ UNCHANGED ledger
              /\ FlushLedger(e)
              /\ SpoolNext(t, i)
    /\ UNCHANGED <<seals, spooling, server, refused>>

(* Mutant of RecordLoss: a loss without a number is not counted. *)
NumberedLossOnly(e) ==
    ledger' = IF IsControl(e) \/ ~IsAction(e)
              THEN ledger
              ELSE [ledger EXCEPT ![SessionOf[e]] = @ \cup {e}]

(* LossLedger.record, which a control record never reaches. *)
RecordLoss(e) ==
    ledger' = IF IsControl(e)
              THEN ledger
              ELSE [ledger EXCEPT ![SessionOf[e]] = @ \cup {e}]

(* Mutant of RaisesOnLoss: control records follow the loss policy. *)
RaisesByPolicy(e) == OnRecordLoss = "fail"

RaisesOnLoss(e) == IsControl(e) \/ OnRecordLoss = "fail"

(* OSError from the open or the write, or from the fsync with the line       *)
(* already in the file: a control record raises, telemetry is entered in the *)
(* ledger and then raises ("fail") or is dropped ("warn").                   *)
SpoolWriteFailure(t) ==
    /\ running = t
    /\ pc[t] = "spool"
    /\ \E i \in DOMAIN batch[t] :
          LET e == batch[t][i]
          IN  /\ Slot(t, i)
              /\ e \notin handled
              /\ AdoptSeal(e)
              /\ \/ UNCHANGED file
                 \/ /\ ShouldFsync(e)
                    /\ Len(file[SessionOf[e]]) < MaxLines
                    /\ AppendLine(e)
              /\ RecordLoss(e)
              /\ IF RaisesOnLoss(e)
                 THEN Raise(t) /\ UNCHANGED annotation
                 ELSE /\ answer' = [answer EXCEPT ![e] = "rejected"]
                      /\ FlushLedger(e)
                      /\ SpoolNext(t, i)
    /\ UNCHANGED <<seals, spooling, server, refused, handled>>

(* The spool has taken or lost every envelope: handle_batch returns.         *)
SpoolDone(t) ==
    /\ running = t
    /\ pc[t] = "spool"
    /\ todo[t] = {}
    /\ Leave(t)
    /\ UNCHANGED <<chainVars, spooling, storeVars, answer>>

Post(t) == TransportFailure(t) \/ BatchRefused(t) \/ BatchAnswered(t)

Compute(t) ==
    Seal(t) \/ Dispatch(t) \/ SpoolDuplicate(t) \/ SpoolWrite(t)
            \/ SpoolWriteFailure(t) \/ SpoolDone(t)

Next == \E t \in Task : HandleBatch(t) \/ Post(t) \/ Compute(t)

Spec == Init /\ [][Next]_vars

(* A task that holds the loop runs on; httpx bounds every POST by its        *)
(* timeout, and asyncio resumes a ready task however busy the others are.    *)
Fairness == \A t \in Task : WF_vars(Compute(t)) /\ SF_vars(Post(t))

FairSpec == Spec /\ Fairness

-------------------------------------------------------------------------------
(* Properties *)

(* The verifier's input once every durable record has reached one store:     *)
(* the records on the server together with those sync will upload.           *)
Evidence(s) == {e \in Envelope : SessionOf[e] = s /\ IsAction(e) /\ Durable(e)}

EvidenceChain(s) ==
    [e \in Evidence(s) |->
        [seq |-> seals[e].seq, prev |-> seals[e].prev, hash |-> e,
         selfOk |-> TRUE, bindOk |-> TRUE]]

(* The variables keep their types; a call's open slots are slots of its      *)
(* batch, and an idle task has none.                                         *)
TypeOK ==
    /\ chains \in [Session -> ChainStates(Envelope)]
    /\ seals \in [Envelope -> [seq : Nat, prev : Envelope \cup {NoHash}]]
    /\ spooling \in BOOLEAN
    /\ server \subseteq Envelope
    /\ refused \subseteq Envelope
    /\ file \in [Session -> Seq(Envelope)]
    /\ handled \subseteq Envelope
    /\ ledger \in [Session -> SUBSET Envelope]
    /\ annotation \in [Session -> SUBSET Envelope]
    /\ answer \in [Envelope -> {"new", "inflight", "accepted", "duplicate",
                                "rejected", "retryable", "raised"}]
    /\ pc \in [Task -> {"idle", "seal", "post", "spool"}]
    /\ batch \in [Task -> Seq(Envelope)]
    /\ \A t \in Task : todo[t] \subseteq DOMAIN batch[t]
    /\ DOMAIN todo = Task
    /\ attempt \in [Task -> Nat]
    /\ running \in Task \cup {NoTask}

(* A session's actions are numbered densely from 1, no number twice, whoever *)
(* sealed them and however often they were retried, spooled and adopted: the *)
(* chain "is 1-based and dense by construction" (verdict.py:77), which is    *)
(* what lets a verifier read a hole in the numbers as a lost record.         *)
DenseNumbering ==
    /\ \A e, f \in Envelope :
          Sealed(e) /\ Sealed(f) /\ SessionOf[e] = SessionOf[f]
              /\ seals[e].seq = seals[f].seq => e = f
    /\ \A s \in Session : \A n \in 1 .. chains[s].count :
          \E e \in Envelope : SessionOf[e] = s /\ seals[e].seq = n

(* A seal, once given, is the record's for good: no retry, resend or spool   *)
(* write renumbers or relinks a record the server may already hold (_seal).  *)
SealIsFinal == [][\A e \in Envelope : Sealed(e) => seals'[e] = seals[e]]_vars

(* A response that says accepted or duplicate is backed by a copy that       *)
(* outlives the process: on the server or in the spool file.                 *)
AcknowledgedIsDurable ==
    \A e \in Envelope : answer[e] \in {"accepted", "duplicate"} => Durable(e)

(* No record disappears unaccounted: one that handle_batch settled as        *)
(* rejected was refused by the server for good or is in the loss ledger.     *)
NoSilentLoss ==
    \A e \in Envelope :
        answer[e] = "rejected" => e \in refused \/ e \in ledger[SessionOf[e]]

(* A control record (an approval, or the pending action it votes on) is      *)
(* never dropped with mere accounting: if neither the server nor the spool   *)
(* has it, the caller got an exception, a refusal or no answer yet.          *)
ControlFailsClosed ==
    \A e \in Envelope : IsControl(e) =>
        /\ e \notin ledger[SessionOf[e]]
        /\ answer[e] = "rejected" => e \in refused

(* What an honest client leaves behind never reads as tampering, whatever    *)
(* was retried, refused, spooled or lost on the way.                         *)
NoFalseTamper == \A s \in Session : ChainVerdict(EvidenceChain(s)) # TAMPERED

(* A lost action that some later action of its session outlived shows up as  *)
(* a gap: the session does not verify VALID.                                 *)
LossIsEvident ==
    \A e, f \in Envelope :
        /\ IsAction(e) /\ e \in ledger[SessionOf[e]] /\ ~Durable(e)
        /\ f \in Evidence(SessionOf[e]) /\ seals[f].seq > seals[e].seq
        => ChainVerdict(EvidenceChain(SessionOf[e])) # VALID

(* "missing sequences + hash discontinuity => INCOMPLETE, never VALID [...]  *)
(* Silent-drop-without-evidence is the one failure mode this product must    *)
(* not have, and the hash chain structurally rules it out" (ADR-013:183-187),*)
(* as it is said: when no call is under way, a lost action of a session that *)
(* left records is visible to its verifier or accounted for in its file.     *)
(* It does not hold.                                                         *)
LossLeavesEvidence ==
    (\A t \in Task : pc[t] = "idle") =>
        \A e \in Envelope :
            /\ IsAction(e) /\ e \in ledger[SessionOf[e]] /\ ~Durable(e)
            /\ Evidence(SessionOf[e]) # {}
            => \/ ChainVerdict(EvidenceChain(SessionOf[e])) # VALID
               \/ e \in annotation[SessionOf[e]]

(* handle_batch always returns or raises: the retry loop is bounded and the  *)
(* failover and the spool never wait.                                        *)
EveryCallReturns == \A t \in Task : pc[t] # "idle" ~> pc[t] = "idle"

================================================================================
