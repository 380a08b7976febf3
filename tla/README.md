# RootSign in TLA+

RootSign records what an AI agent does as a tamper-evident trail: every tool call
becomes an ACTION_RECORD, the records of a session form a hash chain, and a verifier
later says VALID, TAMPERED or INCOMPLETE. This directory holds TLA+ models of the parts
of that system which are hard to get right, TLC configurations that check them on small
instances, and TLAPS proofs of the results that matter most. Paths below are relative to
`src/rootsign/`.

`PROJECT.json` is the index: components, runs, mutants, the map from definitions to
source lines, findings, hazards and theorems.

## 1. Inventory

| Component | State | Operations | Hard part |
|---|---|---|---|
| Chain tail (`chain_state.py`) | `tail`, `count` per session | `seal` mints, `_adopt` takes over a seal made elsewhere | adoption of an older seal |
| Verdict rules (`verdict.py`) | none | `missing_ranges`, `explains_break`, `decide` | telling loss from alteration |
| Verifiers (`sdk/chain.py`, `crud/action.py`) | loop variables | walk over a JSONL file or the actions table | two loops, one answer |
| Cloud client (`sdk/client.py`) | spool mode, ledgers, shared chains | `handle_batch`: seal, POST with retries, fail over, record loss | concurrent tasks, lost answers, half-accepted batches, dead disk |
| JSONL writer and spool (`sdk/jsonl_client.py`) | session files, handled events | build, append, fsync, annotate | fsync failure, restart |
| Loss ledger (`sdk/loss_ledger.py`) | counts per session | `record`, flush at close | no loss unaccounted |
| Buffered client (`sdk/buffered_client.py`) | FIFO buffer, flush task | buffer, flush, re-queue, close | overlapping flushes, cancellation |
| Session and emission (`sdk/session.py`, `sdk/context.py`, `sdk/decorator.py`, `sdk/facade.py`) | counter, decision slot, ambient session | open, decide, act, gate, close | slot filled after an await, failure isolation, cancellation |
| HiTL gate (`sdk/hitl.py`, `sdk/decorator.py`) | one waiting call | submit pending, poll, time out, run the tool | the deadline racing humans |
| Approval store (`crud/approval.py`, migration 0004) | approvals, `authorization_status` | two writers under a row lock | stale reads before the lock |
| Operator CLI (`sdk/cli.py`) | none | `approve`, `export`, `export --check`, `verify` | loses races; half-written bundles |
| Ingest handler (`ingest/handler.py`, `ingest/idempotency.py`) | idempotency cache, sessions | one handler per event type | check-then-act, cache before commit |
| Action store (`crud/action.py`) | actions, session counters | `create_with_hash` | stale object under the row lock |
| Spool sync (`sdk/spool.py`, `replay.py`, `cli.py`, `sdk/receipt.py`) | spool files, receipts | read, replay in batches, receipt, retire | live writer, crash between steps |
| Registration (`sdk/registration.py`, `sdk/jsonl_registry.py`) | agents | register or reuse | concurrent first registration |
| Evidence export (`sdk/export.py`) | bundle directory, manifest | load, verify, build, write, check | two readings, overwriting, torn files |
| Report, redaction, hashing, MCP, adapters, schemas, migrations | - | pure or read-only | none that a state machine shows |

Interactions. The `@trace` decorator sends envelopes of the ambient session to an ingest
client. The cloud client seals records with a `ChainRegistry` it shares with its spool, a
`JsonlIngestClient` that adopts those seals. The buffered client wraps any other and calls
`handle_batch` where there is one. On Postgres the handler assigns chain fields itself; a
gated call polls the approvals table that the CLI and the ingest path write.
`rootsign-admin sync` uploads spool files and retires them; `rootsign export` turns a
session file or a stored session into a bundle that someone else checks.

What makes each part correct:

- chain and client: numbering is dense, seals are final, an acknowledgement means a
  durable copy, no loss is silent, control records fail closed, honest evidence never
  reads as tampered;
- buffer and spool: a record is held until the store has it or has refused it; order at
  the inner client; close flushes; receipts are true, kept, and precede retirement;
- session: a decision links to one action, the caller gets the tool's outcome, a gated
  tool runs with consent on record, the session is closed once with the right status;
- store: accepted means stored, one row per event, links resolve, a closed session stays
  closed, one agent identity;
- verifiers and export: both give the defined verdict; loss reads as INCOMPLETE,
  an edit as TAMPERED; VALID means that nothing is missing or doubled and that a record
  whose sealed hash is known vouches for all before it; a bundle claims what was
  verified, and what an export leaves behind checks only as one whole bundle;
- gate: one resolution per action, never overwritten, the caller is told what the
  resolving row says, the tool runs only on an approval, the wait ends.

The hazards behind these properties are listed, each at its line, in `PROJECT.json`.

## 2. Modules

| Module | Models |
|---|---|
| `ChainState` | `ChainState` as operators on `[tail, count]`: `MintedSeal`, `AfterMint`, `AfterAdopt` |
| `Verdict` | `verdict.py` and the declarative meaning of the chain walk, `ChainVerdict` |
| `TrailVerifier` | an archive, its damages and both verifiers step by step |
| `Evidence` | extends `TrailVerifier` by export, bundle and bundle check |
| `CloudClient` | `HttpIngestClient` with its chains, spool, ledger; tasks, server and disk |
| `BufferedClient` | `BufferedIngestClient` over any inner client |
| `SpoolSync` | `rootsign-admin sync` for one session: spool file, replay, receipts |
| `Delivery` | the abstract store-and-forward promise that `BufferedClient` and `SpoolSync` refine |
| `SessionTrace` | `session()`, decisions, traced and gated calls of concurrent tasks |
| `IngestStore` | registration, handler, idempotency cache and chain write on Postgres |
| `HitlGate` | a gated call, operators, the ingest path, the approvals table |
| `VerdictProofs`, `CloudClientProofs`, `HitlGateProofs`, `EvidenceProofs`, `IngestStoreProofs`, `SpoolSyncProofs`, `SessionTraceProofs`, `BufferedClientProofs` | theorems about the module they are named after (`EvidenceProofs` covers `TrailVerifier` too) |
| `MCCloudClient`, `MCHitlGate`, `MCBufferedClient`, `MCIngestStore`, `MCSessionTrace` | instances for TLC |

How they fit together. `Verdict` is the abstract specification of verification:
`TrailVerifier` is shown to conclude it (`WalkDecidesVerdict`), `CloudClient` uses it as
the judge of what the client leaves behind (`NoFalseTamper`, `LossIsEvident`), and
`Evidence` builds on the verifier. `Delivery` is the abstract specification of holding
records until they are delivered; `BufferedClient` and `SpoolSync` each instantiate it
with a refinement mapping and have its `Spec` as the property `ImplementsDelivery`.
`SessionTrace` sees a client only through its answers, which `CloudClient`,
`BufferedClient` and `IngestStore` produce; its gate on Postgres is `HitlGate`.

Some definitions carry a comment "Mutant of X": a version of X with a plausible bug, used
to see that a property notices it. Nothing else refers to them.

### CloudClient

State: `chains` is the `ChainRegistry`; `seals` the chain fields written into the payloads;
`spooling` is `_spooling`; `file`, `handled` and `annotation` are the spool (lines of each
session file, its `IdempotencyStore`, the RECORD_LOSS lines); `ledger` the `LossLedger`s;
`server` and `refused` what the hosted endpoint stored or rejected for good; `answer` the
response each caller holds. `pc`, `batch`, `todo`, `attempt` are the locals of each task's
`handle_batch`, and `running` says which task holds the event loop.

Actions, in the order of the code: `HandleBatch` (the call), `Seal` (one envelope of
`_seal`), `Dispatch` (spool or POST), one of `TransportFailure`, `BatchRefused`,
`BatchAnswered` (`_post_once`, `_interpret`, `_parse_body`), each ending in `Settle` (the
retry loop and the failover), then `SpoolDuplicate`, `SpoolWrite` or `SpoolWriteFailure`
per envelope (`_spool_one` with `_on_spool_write_failure` and `_flush_ledger`), and
`SpoolDone`. A task gives up the loop only while a POST or a backoff sleep is pending;
`JsonlIngestClient.handle` takes uncontended locks and does not suspend.

Abstractions. An envelope is a model value with a session and a kind; a record's hash is
the envelope itself, since the canonical input contains a fresh `action_id`. The server
answers in any way the client provides for, with event-id idempotency; a request is not
modelled as landing after the client has given up on it and moved on. The ledger is the
set of envelopes it counts, so losing the same record twice counts once here and twice in
the code. The spool's idempotency TTL and size cap are out of reach of these instances. A
write is whole or fails; a failing fsync may leave the line (only for the kinds
`_should_fsync` names).

### HitlGate

State: `clock`; `open` (the session runs); `admitted` (an APPROVAL_RECORD has passed the
session check but has not reached the row lock); `status` and `rows` (the action's
`authorization_status` and approvals); `gate` (the program counter or outcome of the waiting
call); `oper` and `choice` (each run of `rootsign approve`).

Actions: `SubmitPending`, `CheckDeadline`, `Poll`, `Wake`, `RecordTimeout`, `Repoll` and
`GateFails` are the gated call; `SelectPending` and `SubmitApproval` the CLI; `AdmitApproval`
and `IngestApproval` the ingest path; `CloseSession` and `Tick` the environment. A
transaction from its row lock to its commit is one step; what was read before the lock is
kept. `SubmitApproval` does not look at the current status because the locking SELECT of
`create_with_chain_link` returns the object the session already holds.

Abstractions. One action; `parent_approval_id` checks only refuse more; approver ids,
reasons and contexts are left out. Rows written in the store get distinct time stamps.
An ingested record is a person's or of the time-out type (`IngestTypes`), both of which
the schema accepts. The ingest path derives the status from the decision alone, so after a
record of the time-out type exception and status differ (`TimeoutIsRecorded` is false); `OutcomeIsTheRow`
says what the caller can rely on all the same.

### BufferedClient

State: `buffer`, `closed` and `kinds` (the envelopes handed to `handle()`, whose positions
are the records); per flusher (the agent's tasks, the loop, `close()`) what it waits for
and its `job`, the flush it is in; `attempted` (the order of first inner calls), `stored`
and `refused` (what the inner client made of them), `cancelled`.

Actions: `Buffer` and `Passthrough` are `handle()`, `LoopFlush` the flush loop, `Close` and
`CloseFlush` the two halves of `close()`; each contains `Flush` up to its first inner call.
`Answer` is the return of an inner call: part accepted, part refused, the rest retried or
re-queued at the front (`Requeue`), then the passthrough envelope that waited behind the
flush. `CancelTask` and `Close` cancel a flush in flight (`Abort`).

The buffer's lock guards no await, so it is never contended and is not a variable. The
inner client either has `handle_batch` or not (`Inners`).

Where the promise ends, as the model shows: with a sequential inner client a passthrough
envelope may overtake the rest of a batch that the loop is sending one by one, so
`NeverOvertaken` is false and `NoOvertaking` restates it for batching ones; re-queuing
overlapping flushes can change the order of later attempts; after `close()` new buffered
records wait for the next size or passthrough flush; the batch of a cancelled flush is gone
(`cancelled`), also when it is `close()` that cancels it, against `FinalFlush`. Order is
that of the starts of inner calls.

### SpoolSync

State: the spool `file` as its record numbers, whether its last line is `torn`, the
`server`, files retired to `synced`, the live `receipt`, its corrupt `siblings`, the
`archive` of moved receipts, and the locals of the run.

Actions, in the order of `_sync_one`: `ReadSpool`, `HashSpool`, `SendBatch` or
`SendRaises`, `FileReceipt`, `Retire`, `MoveReceipt`; `SyncCrash` ends a run anywhere.
`WriterAppend`, `WriterCrash`, `ReceiptDamaged` and `EmptySynced` are the world around it.
`CompressRanges` and `ExpandRanges` are the receipt's range arithmetic.

Worth knowing: the hash is taken after the read and may cover lines the attempt does not
(`HashIsOfTheReplayed` is false); a line appended between read and retirement leaves with
the file (so is `RetiredIsUploaded`; `unread`, Delivery's `abandoned`).
`RetiredIsReceipted` says what remains: all that was read is at the server and accounted
for, and the three versions of the file are prefixes of one another. A transport that
raises in a later batch discards the answers of earlier ones, so delivered records are
filed as not attempted. A file that is malformed or out of order is skipped like a torn
one. Two sync commands at once, and a server that answers a batch short, which
`HttpIngestClient` never passes on, are not modelled.

### IngestStore

State: the `session` row, `rows` of actions and decisions, the row `lock`; per process the
place in its transaction, the session as its ORM session read it (`seen`) and its
idempotency `cache`; what each caller was told (`answer`); the `agents` table.

Actions: `InsertAgent`, `SelectAgent` (registration); `AnswerCached`, `Refuse`,
`ReadSession` (up to the unlocked read), `Execute` (the row lock, the flushed writes and
the caching of the response), `ExecuteFails`, then `Commit`, `CommitUnknown` or
`CommitFails`; `Expire`. `Written` and `Inserted` compute from `seen`, because the locking
SELECT returns the object the ORM session already holds.

Hence two processes on one session can give a number twice, against `NoFork`;
`LinksResolve` states what remains: every link resolves, and a fork has two processes in
it. Within one process the client's lock keeps the chain straight. The status check has the
same weakness: a row may be added after another process closed the session, against
`NothingAfterClose`; by `QuietAfterClose` its transaction had read the session as running.
A SCHEMA or payload rejection is a refusal like any other. APPROVAL_RECORD is in
`HitlGate`. The JSONL registry's check-then-append, by which two first runs may get two
ids, is not modelled.

### SessionTrace

State: where `session()` is (`phase`), how its body ended, the tasks that inherited the
ambient session, the shared context (`slot`, `counter`), each task's await and operation,
and the `log` of envelopes with the sender's view of their fate.

Actions: `Open`, `Spawn`, `BodyEnds`, `FlushEnds`, `CloseAnswered`, `CutShort` are
`session()`; `BeginDecision`/`DecisionAnswered` is `record_decision`;
`BeginCall`/`ToolEnds`/`IngestAnswered` a traced call;
`BeginGated`/`PendingAnswered`/`Consent`/`ApprovalAnswered`/`GatedToolEnds` a gated one on
either backend, `BeginUnsent` a call that ends before it sent anything (no terminal to ask
at, or arguments that cannot be captured); `Cancel` a cancellation in an await of the SDK.
`ToolEnds` includes the capture of the result, which may raise. Every step runs from one
await to the next.

Worth knowing: tasks that share a session may consume each other's decision (the slot is
single by design), so `LinkedInSeries` speaks of sessions one task uses; a decision whose
recording raised leaves its predecessor in the slot; a record that was stored although its
answer failed is not counted in `total_actions`, and a buffered one that is discarded later
is; a result that cannot be captured reaches the caller as an exception
(`OutcomeIsTheTools` is false, `OutcomeIsKept` holds); on the JSONL backend a failed or
rejected APPROVAL_RECORD is swallowed and the gated tool runs (`ApprovalIsOnRecord`); an
exception from SESSION_OPEN leaves a client that `session()` built unclosed, and a
cancellation inside its `finally` skips SESSION_CLOSE (`CloseAlwaysFires`).

### TrailVerifier and Evidence

State of `TrailVerifier`: the honest `chain`, the stored `rows`, whether the last line is
`torn`, then the verifier's own loop variables with its `verdict` and `first`
(first_invalid_sequence). `AppendRecord` and `LoseRecord` build the archive,
`TearLastLine`, `EditField`, `EditPayload`, `Reseal` (a record and any number of its
successors rewritten with hashes and links recomputed) and `Replay` damage it; `Load`,
`CheckDuplicates`, `Walk`, `Finish` are the verifiers. `ScanRanges` is the loop of
`missing_ranges`, checked against the set `Verdict!missing_ranges` defines. Deleted records
need no action of their own: a record that was never stored and one that was removed leave
the same archive.

`Evidence` adds the records the export `read`, their `status`, the bundle directory
(`dir`, `manifest`), and the `anchor` printed. `ReadSession` collects the records, the
verifier then reads the archive again (a writer may have appended), `BuildBundle` gives
each record its chain_status and opens the directory, which may hold an older bundle and
files of somebody else (`OpenDirectory`), `WriteFile` and `WriteManifest` write,
`ExportCrash` dies before, between or inside the writes, or before the anchor is printed,
`HandleBundle` is whoever has the directory afterwards, `Intact` is `check_bundle`, which
looks at the top level only. A file is the export that wrote it, a digest identifies its
file. The timeline and redaction documents are one file with the verification.

Worth knowing: exporting with `--force` over an older bundle that had more files leaves
those in place, so the fresh bundle checks as ALTERED (`UntouchedIsWhole` says exactly
when); an export that dies before its first write leaves the older bundle intact. With a
repeated number the local verifier names that number before it walks, so the records below
it are called verified unwalked; with a torn line it names none, and all are
(`StatusEarned`).

## 3. Runs

All runs say CHECK_DEADLOCK FALSE: the systems stop when every envelope is sent, the gate
has ended and the clock is out, the bound on operations is used up, or the verdict is in.

| Run | Instance | Checks |
|---|---|---|
| `CloudSerial` | 1 task, 2 actions, a pending action, an approval, a close; 2 attempts; warn; unbuffered; fsync failures | `NoFalseTamper`, `LossIsEvident`, `ControlFailsClosed`, `NoSilentLoss` |
| `CloudConcurrent` | 2 tasks, 2 actions and a pending one; batches of 2; 2 attempts; fail; buffered; fairness | `DenseNumbering`, `AcknowledgedIsDurable`, `SealIsFinal`, `EveryCallReturns` |
| `HitlRace` | 2 operators, prompt records of people and of the time-out type, fairness | `GateSound`, `OutcomeIsTheRow`, `OneResolution`, `ResolutionIsFinal`, `GateEnds`, `ApprovalReachesGate` |
| `BufferedFlush` | 2 tasks, loop and closer; 3 records, buffer of 2, 2 attempts, both kinds of inner client; fairness | `NoOvertaking`, `CloseFlushes`, `EveryRecordAttempted`, `ImplementsDelivery` |
| `SpoolSync` | 3 records, batches of 2, 2 runs | `ReceiptIsTrue`, `GapsStayInBatch`, `RetiredIsReceipted`, `AttemptsSurvive`, `ImplementsDelivery` |
| `IngestStore` | 2 processes; open, action, decision, close and another process's action; 1 resend; cache of 1 | `AcceptedOrUndone`, `OneRowPerEvent`, `LinksResolve`, `OneAgentIdentity`, `QuietAfterClose` |
| `SessionTrace` | the owner and a spawned task, 3 operations, both backends | `DecisionLinks`, `OutcomeIsKept`, `ConsentBeforeTool`, `ExitIsComplete` |
| `Evidence` | 4 records, 3 damages, both verifiers; bundles of sessions of up to 1 record written out | `WalkDecidesVerdict`, `LossIsIncomplete`, `ValidMeansHistory`, `AlterationDetected`, `WalkedStatusEarned`, `UntouchedIsWhole` |

Four runs end in a violation; each is a place where the code does not do what one of its
own comments says:

| Run | Property | What TLC shows |
|---|---|---|
| `CloudBatchTamper` | `NoFalseTamper` | a half-accepted batch rewinds the tail (`chain_state.py:147`), the honest session verifies TAMPERED |
| `HitlDelayed` | `GateSound` | a late escalation stamped after a rejection opens the gate (`sdk/hitl.py:250`) |
| `IngestCommit` | `AcceptedIsStored` | the response is cached before the commit (`ingest/handler.py:119`); after a failed commit the resend is answered accepted with nothing stored |
| `IngestFork` | `NoFork` | two processes write the same number on the same predecessor from stale readings (`crud/action.py:94`) |

The passing runs are the same models without the condition that makes the difference (one
task and no batches; prompt records) or with the property that remains true
(`AcceptedOrUndone`, `LinksResolve`), so each pair says when the property holds.

Thirteen more claims of comments and documents are stated as definitions and hold only in
part. No run is listed for them: each is refuted by TLC within seconds when its definition
takes the place of the properties in the cfg of the run named. The last column is the
property of that run, in most cases proved as well, which says what does hold. The quoted
claims are under `findings`.

| Definition | cfg | What TLC shows | What holds |
|---|---|---|---|
| `LossLeavesEvidence` | `CloudSerial` | the last record of a session is lost and the session verifies VALID (`verdict.py:90`), although the client logs INCOMPLETE | `LossIsEvident` |
| `TimeoutIsRecorded` | `HitlRace` | an ingested record of the time-out type sets a human status (`crud/approval.py:163`) under a HiTLTimeoutError | `OutcomeIsTheRow` |
| `NeverOvertaken` | `BufferedFlush` | a passthrough envelope finds the buffer empty while the loop sends its batch one by one (`sdk/buffered_client.py:153`) | `NoOvertaking` |
| `FinalFlush` | `BufferedFlush` | `close()` cancels the loop with its batch in flight (`sdk/buffered_client.py:266`) | `CloseFlushes` |
| `HashIsOfTheReplayed` | `SpoolSync` | the file grows between reading and hashing (`cli.py:435`) | `RetiredIsReceipted` |
| `RetiredIsUploaded` | `SpoolSync` | a file is retired with a line appended after it was read (`cli.py:468`) | `RetiredIsReceipted` |
| `NothingAfterClose` | `IngestStore` | a record is inserted after another process closed the session (`ingest/handler.py:309`) | `QuietAfterClose` |
| `OutcomeIsTheTools` | `SessionTrace` | a result that cannot be captured becomes an exception (`sdk/decorator.py:338`) | `OutcomeIsKept` |
| `CloseAlwaysFires` | `SessionTrace` | a cancellation in the exit's flush skips SESSION_CLOSE (`sdk/session.py:154`) | `ExitIsComplete` |
| `ApprovalIsOnRecord` | `SessionTrace` | a failed APPROVAL_RECORD is swallowed and the gated tool runs (`sdk/decorator.py:791`) | `ConsentBeforeTool` |
| `StatusEarned` | `Evidence` | a session with a torn line, at which verification stops before the walk, is exported with every record `verified` (`sdk/export.py:385`) | `WalkedStatusEarned` |
| `EditsDetected` | `Evidence` | a record rewritten with all its successors verifies VALID (`sdk/chain.py:230`) | `ValidMeansHistory`, `AlterationDetected` |
| `AdditionsShow` | `Evidence` | a file added in a subdirectory of a bundle goes unnoticed (`sdk/export.py:950`) | `UntouchedIsWhole` |

Further boundaries of the code that the models contain and no run is spent on: two tasks may
reach the spool in another order than they sealed, and the reader refuses the file
(`sdk/spool.py:157`); a line whose fsync failed is written again on resend
(`sdk/jsonl_client.py:117`); the operator who loses a race gets an `IntegrityError` that
`_submit_approval` does not catch (`sdk/cli.py:606`).

Bounds. `MaxRetries` 2 gives a first attempt, a retry and an exhausted budget; two tasks
are enough for every pairwise interleaving of sealing, posting and spooling; batches of two
split into accepted, refused and unsent. `MaxLines` bounds the file that failing fsyncs
lengthen (0 where only whole failures of the disk are wanted). `Deadline` 2 and `Horizon` 4
leave room for decisions before, at and after the deadline; `Horizon` bounds the clock, and
`MaxDelay` how old an ingested record's stamp may be. In `BufferedFlush`, `MaxRecords` 3
with a buffer of 2 gives a size flush with a record or an envelope behind it while the loop
and a task are both sending. In `SpoolSync`, three records and batches of two give a second
batch behind a refusal, and `MaxRuns` 2 a re-run after every partial outcome and a second
retirement. In `IngestStore`, `MaxEntries` 1 makes every second event push one out;
`MaxResends` bounds the resends after an exception. `MaxOps` 3 is a decision, an action and
one operation of another task in between. Four records with three damages (`MaxLength`,
`MaxDamage`) contain every pattern of gap, alteration and duplicate next to each other;
the files of a bundle do not depend on the number of records, so `MaxWritten` 1 suffices
for them. Actions of the automatic kind, and operators, are interchangeable, so symmetry
is used in runs without liveness.

Fairness. In `CloudClient` a task that holds the event loop runs on (WF on `Compute`), and
a POST ends because httpx bounds it with a timeout, after which asyncio resumes the task
however busy the loop is; the loop may be taken and given up infinitely often in between,
hence SF on `Post`. In `BufferedClient` the flush loop's sleep ends and inner calls return
or raise, being bounded by their transports' time-outs (WF on `LoopFlush` and on each
`Answer`). In `HitlGate` time passes and the event loop resumes the waiting call (WF on
`Tick` and `Waiter`). No operator owes an answer, no server owes an acceptance, and no file
system owes a successful write.

## 4. Proofs

All theorems hold for every value of the constants (any sets of tasks, envelopes, sessions,
operators, processes; any bounds, batch and buffer sizes) under the named assumptions of
the modules (`CloudAssumption`, `GateAssumption`, `TrailAssumption`, `EvidenceAssumption`,
`IngestAssumption`, `SyncAssumption`, `SessionAssumption`, `BufferAssumption`). They type the
constants, require at least one attempt and non-empty batches, as the code's clamps do, and
keep the tasks of a client apart. The type invariants and `LandedDecisionHolds` are proved
and not repeated in the runs.

The proofs have one shape. Every step is shown to be of one of a few kinds, by what it
changes; an inductive invariant, a conjunction of named parts, is preserved by each kind;
the property follows from the invariant.

- `VerdictProofs`: for chains of any length, `HonestArchiveIsNotTampered` (missing records
  never turn an honestly linked chain into TAMPERED, because the record after a gap is
  explained by the range that ends just before it), `GapIsNotValid`, `ValidIsLinked`. They
  rest on `LeastMember`, the one place where well-ordering is needed; the other modules use
  it to reason about recursive functions over `0 .. n`, by the least index at which the
  function would go wrong.
- `CloudClientProofs`: `TypeCorrect`; `NumberingIsDense` from the invariant `Numbering`
  (numbers in use are exactly `1..count`), which needs only that adoption never lowers the
  count below a sealed number; `SealsAreFinal`; `AcknowledgedAreDurable`,
  `LossesAreAccounted` and `ControlNeverDropped` from `AnswerInv`, where each answer names
  its witness (server, file, refused, ledger); `LossesAreEvident` from `SealedInv` (what
  is posted, stored or spooled is sealed) together with `Numbering` and `GapIsNotValid`;
  and `NoSpoolNoTamper`: without a spool nothing is adopted, so the invariant `Linked`
  (every sealed record names its predecessor, the tail names the last) is preserved and
  the evidence is an honest archive. `CloudBatchTamper` shows that adoption breaks `Linked`.
- `HitlGateProofs`: `Inv` joins the types, the consistency of the table (`StoreInv`: one
  resolution, stamps in the past, who can have seen a row) and `LandedDecisionHolds`; it
  yields `TypeCorrect`, `ResolvedOnce`, `LandedHolds` and `ResolutionNeverChanges`, late
  records included. `GateIsSound` adds that the resolving row is the latest one, which needs
  MaxDelay = 0; `OutcomeIsTheResolution` follows from it under the same condition, for
  whatever types of approval are ingested. `HitlDelayed` shows that the condition cannot be
  dropped.
- `EvidenceProofs`: the loop of each verifier, for archives of any length with any number
  of damages, concludes what `Verdict` defines (`WalksAgree`), because `WalkInv` says at
  every iteration what the records walked so far call for. `LossesAreMissing`,
  `ValidIsHistory` and `AlterationsShow` then speak about that definition and `ArchiveInv`,
  what writing and damages leave behind: only a hash that was never recomputed is a sealed
  one, and it still comes with the link it was sealed with. The recursive `ScanRanges`
  equals the declarative `missing_ranges` for every input. For the export, `StatusInv` (the
  records read are still the stored ones) gives `StatusesAreEarned`, and `BundleInv` (while
  files are written, the manifest in the directory is the older bundle's, and from the
  first file on the documents are not) gives `CrashedExportShows`.
- `IngestStoreProofs`: `AcceptedMeansStored`, `ResendStoresOnce`, `ChainLinks`,
  `RegistrationAgrees` and `ClosedStaysQuiet`. None is inductive alone: each needs what a
  transaction carries from its unlocked reading to its commit (`AcceptedInv`, `OnceInv`,
  `LinkInv`, `ForkInv`, `QuietInv`).
- `SpoolSyncProofs`: `ReceiptsAreTrue`, `UploadsStayOrdered`, `RetiredFilesAreReceipted`,
  `AttemptsAreKept`. `RunInv` relates what was read, hashed and answered to the file, as
  prefixes of one another; `RetireInv` places a fully accepted attempt behind a retired
  file. `CompressExpands` shows that expanding a receipt's ranges gives back exactly the
  numbers compressed. `SyncImplementsDelivery` is the refinement: `WriterAppend` accepts,
  a batch that lands and `Retire` forward, every other step stutters.
- `SessionTraceProofs`: `DecisionsLinkOnce` (decisions are numbered upwards, so the one that
  fills the slot is carried by nobody yet; while one task uses the session, the slot or the
  link taken from it is what the log calls for), `CallerGetsOutcome`,
  `GatedToolHasConsent`, `ExitsAreComplete`.
- `BufferedClientProofs`: `AttemptsKeepOrder`, `CloseFlushesAll` and the refinement
  `BufferImplementsDelivery`. `KnownInv`, `PlaceInv` and `ApartInv` say that a record is in
  the buffer or in exactly one flush; without that a cancelled flush could give up a record
  that is still held. `SentInv` (what a flush re-queues has been attempted) is what keeps
  re-queueing at the front compatible with `OrderInv`, in which only the records never
  attempted are in order. `Without` is shown to keep exactly the other records, in order.

Only model-checked: `NoFalseTamper` with the spool (one task, unbuffered), and all liveness
(`EveryCallReturns`, `EveryRecordAttempted`, `GateEnds`, `ApprovalReachesGate`), which TLAPS
does not cover.

## 5. Not modelled, and the plan

Next, proofs: `CloudClient`'s `NoFalseTamper` for one unbuffered task with the spool, where
adoption is always of the tail.

Models that could still be added: the JSONL backend across a restart (a fresh chain on an
existing file), the JSONL agent registry, two sync commands at once, torn writes in the
middle of a file.

Left out for good: redaction, hashing and canonical form (pure functions on strings, taken
as collision-free), the text of timeline and reports, the MCP server (read-only) and proxy
(a call into the paths modelled), framework adapters (glue), schemas, configuration and
schema DDL (declarations whose constraints appear as guards).
