----------------------------- MODULE SessionTrace -----------------------------
(***************************************************************************)
(* A rootsign.session() and the tasks that run inside it (sdk/session.py,  *)
(* sdk/context.py, sdk/decorator.py, sdk/facade.py): traced calls, gated   *)
(* calls and recorded decisions of several asyncio tasks share one         *)
(* SessionContext, with its counter and its single decision slot, and one  *)
(* ingest client.  The session is entered and left by the task Owner; the  *)
(* tasks it spawns inherit the ambient session and may outlive its body.   *)
(*                                                                         *)
(* The client is whichever backend is configured, seen from here: every    *)
(* handle() is an await, answered by one of Answer (modules CloudClient,   *)
(* BufferedClient and IngestStore say when).  No other await separates a   *)
(* task's answer from what it does with it: the context's lock is never    *)
(* held across one.                                                        *)
(***************************************************************************)
EXTENDS Naturals, Sequences, FiniteSets

CONSTANTS
    Task,      \* the asyncio tasks
    Owner,     \* the one that runs session()
    MaxOps     \* bound on the operations begun

ASSUME SessionAssumption == Owner \in Task /\ MaxOps \in Nat

VARIABLES
    phase,     \* where session() is
    raised,    \* its body raised
    cut,       \* session() was cancelled on its way out
    closed,    \* it has closed the client it built
    jsonl,     \* _is_jsonl_backend(client)
    spawned,   \* the tasks whose context carries the session
    slot,      \* _pending_decision_id
    counter,   \* _sequence
    ops,       \* operations begun
    pc,        \* task -> the await it is in
    op,        \* task -> its latest operation
    log        \* the tasks' envelopes in the order of their answers, and SESSION_CLOSE

sessionVars == <<phase, raised, cut, closed, jsonl>>
ctxVars == <<slot, counter>>
vars == <<sessionVars, spawned, ctxVars, ops, pc, op, log>>

NoDecision == 0

(* What client.handle returns or raises: "raised" is any exception that the  *)
(* failure isolation swallows, "lost" is RecordPersistenceError; "buffered"  *)
(* only answers an auto-authorized action.                                   *)
Answer == {"accepted", "buffered", "rejected", "raised", "lost"}
Unbuffered == Answer \ {"buffered"}

(* The sender's view of an envelope after its answer. *)
Fate(a) ==
    CASE a \in {"accepted", "buffered"} -> "taken"
      [] a = "lost"                     -> "lost"
      [] OTHER                          -> "failed"

(* A task's latest operation: the decision it took, what its tool did, what  *)
(* the call is about to end with, and what the caller saw.                   *)
NoOp == [link |-> NoDecision, tool |-> "none", end |-> "none", approved |-> FALSE, seen |-> "none"]

Init ==
    /\ phase = "opening"
    /\ raised = FALSE
    /\ cut = FALSE
    /\ closed = FALSE
    /\ jsonl \in BOOLEAN
    /\ spawned = {}
    /\ slot = NoDecision
    /\ counter = 0
    /\ ops = 0
    /\ pc = [t \in Task |-> "idle"]
    /\ op = [t \in Task |-> NoOp]
    /\ log = << >>

-------------------------------------------------------------------------------
(* session() *)

Envelope(t, kind, fate, id) == [task |-> t, kind |-> kind, fate |-> fate, id |-> id]

Logged(t, kind, fate, id) == log' = Append(log, Envelope(t, kind, fate, id))

(* SESSION_OPEN: only an exception keeps the body from running; a rejection  *)
(* is not looked at.  The ambient session is set after it.                   *)
Open ==
    /\ phase = "opening"
    /\ \E a \in Unbuffered :
          phase' = IF a \in {"raised", "lost"} THEN "unopened" ELSE "body"
    /\ UNCHANGED <<raised, cut, closed, jsonl, spawned, ctxVars, ops, pc, op, log>>

(* A task created in the body copies the context, ambient session included.  *)
Spawn(t) ==
    /\ phase = "body"
    /\ pc[Owner] = "idle"
    /\ t \in Task \ ({Owner} \cup spawned)
    /\ spawned' = spawned \cup {t}
    /\ UNCHANGED <<sessionVars, ctxVars, ops, pc, op, log>>

(* The body returns or raises; the ambient session of the owner is reset.    *)
BodyEnds ==
    /\ phase = "body"
    /\ pc[Owner] = "idle"
    /\ raised' \in BOOLEAN
    /\ phase' = "flush"
    /\ UNCHANGED <<cut, closed, jsonl, spawned, ctxVars, ops, pc, op, log>>

(* Mutant of FlushEnds: a failing flush leaves session(). *)
FlushPropagates ==
    /\ phase = "flush"
    /\ \/ /\ phase' = "closing"
          /\ Logged(Owner, "close", IF raised THEN "failed" ELSE "completed", counter)
       \/ phase' = "ended" /\ log' = log
    /\ UNCHANGED <<raised, cut, closed, jsonl, spawned, ctxVars, ops, pc, op>>

(* flush() returns or fails, and SESSION_CLOSE is sent either way, with the  *)
(* body's status and total_actions = current_sequence.                       *)
FlushEnds ==
    /\ phase = "flush"
    /\ phase' = "closing"
    /\ Logged(Owner, "close", IF raised THEN "failed" ELSE "completed", counter)
    /\ UNCHANGED <<raised, cut, closed, jsonl, spawned, ctxVars, ops, pc, op>>

(* The answer to SESSION_CLOSE is not looked at, an exception is logged; a   *)
(* client built here is closed.                                              *)
CloseAnswered ==
    /\ phase = "closing"
    /\ phase' = "ended"
    /\ closed' = TRUE
    /\ UNCHANGED <<raised, cut, jsonl, spawned, ctxVars, ops, pc, op, log>>

(* The owner is cancelled in an await of the finally block, which catches    *)
(* Exception only.                                                           *)
CutShort ==
    /\ phase \in {"flush", "closing"}
    /\ phase' = "ended"
    /\ cut' = TRUE
    /\ UNCHANGED <<raised, closed, jsonl, spawned, ctxVars, ops, pc, op, log>>

-------------------------------------------------------------------------------
(* The operations of a task *)

(* _resolve_ctx_client finds the session: in the body, or in the context     *)
(* that a spawned task inherited.                                            *)
Begin(t, await) ==
    /\ pc[t] = "idle"
    /\ IF t = Owner THEN phase = "body" ELSE t \in spawned
    /\ ops < MaxOps
    /\ ops' = ops + 1
    /\ pc' = [pc EXCEPT ![t] = await]
    /\ UNCHANGED <<sessionVars, spawned, counter, log>>

Goto(t, await) ==
    /\ pc' = [pc EXCEPT ![t] = await]
    /\ UNCHANGED <<sessionVars, spawned, ops>>

Return(t, seen) ==
    /\ Goto(t, "idle")
    /\ op' = [op EXCEPT ![t] = [NoOp EXCEPT !.tool = op[t].tool, !.seen = seen]]

(* record_decision sends its DECISION_RECORD. *)
BeginDecision(t) ==
    /\ Begin(t, "recording")
    /\ op' = [op EXCEPT ![t] = NoOp]
    /\ UNCHANGED slot

NextDecision ==
    1 + Cardinality({i \in DOMAIN log : log[i].kind = "decision" /\ log[i].fate = "taken"})

(* Mutant of SlotAfter: a decision that was not recorded leaves the slot.    *)
SlotKept(a) == IF a = "accepted" THEN NextDecision ELSE slot

(* The slot becomes what _emit_decision_record returned, None included; a    *)
(* RecordPersistenceError passes it by.                                      *)
SlotAfter(a) ==
    CASE a = "accepted" -> NextDecision
      [] a = "lost"     -> slot
      [] OTHER          -> NoDecision

DecisionAnswered(t) ==
    /\ pc[t] = "recording"
    /\ \E a \in Unbuffered :
          /\ slot' = SlotAfter(a)
          /\ Logged(t, "decision", Fate(a), NextDecision)
          /\ Return(t, IF a = "lost" THEN "lost" ELSE "none")
    /\ UNCHANGED counter

(* _consume_pending_decision_id *)
Consume(t) ==
    /\ op' = [op EXCEPT ![t] = [NoOp EXCEPT !.link = slot]]
    /\ slot' = NoDecision

(* _emit_action_record: the decision is consumed before the tool runs.       *)
BeginCall(t) ==
    /\ Begin(t, "tool")
    /\ Consume(t)

(* The tool returns or raises, a cancellation included; either is kept.  The *)
(* result is serialised, redacted and hashed in the same try: when one of    *)
(* these raises, its exception takes the place of the result.                *)
ToolEnds(t) ==
    /\ pc[t] = "tool"
    /\ \/ \E end \in {"result", "uncaptured"} :
             op' = [op EXCEPT ![t] = [@ EXCEPT !.tool = "result", !.end = end]]
       \/ op' = [op EXCEPT ![t] = [@ EXCEPT !.tool = "error", !.end = "error"]]
    /\ Goto(t, "ingest")
    /\ UNCHANGED <<ctxVars, log>>

(* _try_ingest advances the counter for what the client took. *)
Counted(a) == IF Fate(a) = "taken" THEN counter + 1 ELSE counter

(* Mutant of AfterIngest: a swallowed failure hides the tool's outcome.      *)
AfterIngestNone(t, a) == IF a \in {"lost", "raised"} THEN a ELSE op[t].end

(* What a traced call ends with once its record was sent. *)
AfterIngest(t, a) == IF a = "lost" THEN "lost" ELSE op[t].end

IngestAnswered(t) ==
    /\ pc[t] = "ingest"
    /\ \E a \in Answer :
          /\ counter' = Counted(a)
          /\ Logged(t, "action", Fate(a), op[t].link)
          /\ Return(t, AfterIngest(t, a))
    /\ UNCHANGED slot

(* A call ends before it has taken the decision or sent anything: a gated    *)
(* one on the JSONL backend without a terminal is refused, and serialising,  *)
(* redacting or hashing the arguments, or presenting them, may raise.        *)
BeginUnsent(t) ==
    /\ Begin(t, "idle")
    /\ \E seen \in {"uncaptured"} \cup IF jsonl THEN {"unsupported"} ELSE {} :
          op' = [op EXCEPT ![t] = [NoOp EXCEPT !.seen = seen]]
    /\ UNCHANGED slot

(* A gated call submits its pending ACTION_RECORD. *)
BeginGated(t) ==
    /\ Begin(t, "pending")
    /\ Consume(t)

(* Mutant of Submitted: any answer will do. *)
AnySubmitted(a) == a # "lost"

(* The gate needs the row's id. *)
Submitted(a) == a = "accepted"

PendingAnswered(t) ==
    /\ pc[t] = "pending"
    /\ \E a \in Unbuffered :
          /\ counter' = Counted(a)
          /\ Logged(t, "pending", Fate(a), op[t].link)
          /\ IF Submitted(a)
             THEN Goto(t, "consent") /\ op' = op
             ELSE Return(t, IF a = "lost" THEN "lost" ELSE "not submitted")
    /\ UNCHANGED slot

(* The prompt is answered, or wait_for_approval returns or raises (HitlGate).*)
(* Only the inline gate sends the APPROVAL_RECORD itself.                    *)
Consent(t) ==
    /\ pc[t] = "consent"
    /\ \E yes \in BOOLEAN :
          CASE jsonl -> /\ Goto(t, "approval")
                        /\ op' = [op EXCEPT ![t].approved = yes]
            [] ~jsonl /\ yes -> /\ Goto(t, "gated tool")
                                /\ op' = [op EXCEPT ![t].approved = yes]
            [] OTHER -> Return(t, "refused")
    /\ UNCHANGED <<ctxVars, log>>

ApprovalAnswered(t) ==
    /\ pc[t] = "approval"
    /\ \E a \in Unbuffered :
          /\ Logged(t, "approval", Fate(a), 0)
          /\ IF a # "lost" /\ op[t].approved
             THEN Goto(t, "gated tool") /\ op' = op
             ELSE Return(t, IF a = "lost" THEN "lost" ELSE "refused")
    /\ UNCHANGED ctxVars

(* The approved tool runs; nothing is recorded after it. *)
GatedToolEnds(t) ==
    /\ pc[t] = "gated tool"
    /\ \E r \in {"result", "error"} :
          op' = [op EXCEPT ![t] = [NoOp EXCEPT !.tool = r, !.seen = r]]
    /\ Goto(t, "idle")
    /\ UNCHANGED <<ctxVars, log>>

(* A task is cancelled in an await of the SDK; whether the client took the   *)
(* envelope stays unknown.                                                   *)
Cancel(t) ==
    /\ pc[t] \in {"recording", "ingest", "pending", "consent", "approval"}
    /\ Return(t, "cancelled")
    /\ CASE pc[t] = "recording" -> Logged(t, "decision", "cancelled", 0)
         [] pc[t] = "ingest"    -> Logged(t, "action", "cancelled", op[t].link)
         [] pc[t] = "pending"   -> Logged(t, "pending", "cancelled", op[t].link)
         [] OTHER               -> log' = log
    /\ UNCHANGED ctxVars

Next ==
    \/ Open \/ BodyEnds \/ FlushEnds \/ CloseAnswered \/ CutShort
    \/ \E t \in Task :
          \/ Spawn(t)
          \/ BeginDecision(t) \/ DecisionAnswered(t)
          \/ BeginCall(t) \/ ToolEnds(t) \/ IngestAnswered(t)
          \/ BeginUnsent(t) \/ BeginGated(t) \/ PendingAnswered(t)
          \/ Consent(t) \/ ApprovalAnswered(t) \/ GatedToolEnds(t)
          \/ Cancel(t)

Spec == Init /\ [][Next]_vars

-------------------------------------------------------------------------------
(* Properties *)

IsAction(e) == e.kind \in {"action", "pending"}

(* The decisions that actions carry, answered or still to be sent. *)
Carried ==
    {<<i, log[i].id>> : i \in {j \in DOMAIN log : IsAction(log[j])}}
        \cup {<<t, op[t].link>> : t \in {u \in Task : pc[u] \in {"tool", "ingest", "pending"}}}

(* No two actions carry the same decision, and a carried one has left the    *)
(* slot, across tasks, failures and cancellations.                           *)
LinkedOnce ==
    \A x, y \in Carried : x[2] # NoDecision => /\ x[2] = y[2] => x = y
                                               /\ x[2] # slot

(* As long as one task uses the session, an action carries the decision      *)
(* recorded just before it and no older one: none when that decision failed  *)
(* or another action came in between.  Only a decision whose recording       *)
(* raised into the caller leaves its predecessor in place.                   *)
LinkedInSeries ==
    Cardinality({log[i].task : i \in {j \in DOMAIN log : log[j].kind # "close"}}
                    \cup {t \in Task : pc[t] # "idle"}) = 1 =>
        \A i \in DOMAIN log : IsAction(log[i]) =>
            LET before == {j \in 1 .. i - 1 :
                              \/ IsAction(log[j])
                              \/ log[j].kind = "decision" /\ log[j].fate \notin {"lost", "cancelled"}}
                last == CHOOSE j \in before : \A k \in before : k <= j
            IN  log[i].id = IF before # {} /\ log[last].kind = "decision"
                                           /\ log[last].fate = "taken"
                            THEN log[last].id ELSE NoDecision

(* "One Decision links to one Action" (context.py:30): at most to one, and   *)
(* in a session that one task uses to the action that follows it.            *)
DecisionLinks == LinkedOnce /\ LinkedInSeries

(* "The wrapped function's success/failure is the ONLY thing that bubbles    *)
(* up" (decorator.py:14-15), as it is said: a call whose tool ran ends with  *)
(* the tool's outcome, unless its record could be persisted nowhere or the   *)
(* call was cancelled while it was being sent.                               *)
(* It does not hold.                                                         *)
OutcomeIsTheTools ==
    \A t \in Task : pc[t] = "idle" /\ op[t].tool # "none" =>
        op[t].seen = op[t].tool \/ op[t].seen \in {"lost", "cancelled"}

LastOf(t, kind) ==
    LET mine == {i \in DOMAIN log : log[i].task = t /\ log[i].kind = kind}
    IN  CHOOSE i \in mine : \A j \in mine : j <= i

(* What the failure isolation does keep: no answer of the client replaces    *)
(* the outcome of a tool that ran, but the loss of this very call's record   *)
(* or a cancellation while it was being sent.  Only capturing the result can *)
(* turn a success into an exception, and a tool's exception always gets out. *)
OutcomeIsKept ==
    \A t \in Task : pc[t] = "idle" /\ op[t].tool # "none" =>
        \/ op[t].seen = op[t].tool
        \/ op[t].seen \in {"lost", "cancelled"} /\ log[LastOf(t, "action")].fate = op[t].seen
        \/ op[t].seen = "uncaptured" /\ op[t].tool = "result"

(* A gated tool runs only after a human's consent, with its pending row in   *)
(* the store under the decision that led to it, and on the JSONL backend     *)
(* with an APPROVAL_RECORD that did not get lost.                            *)
ConsentBeforeTool ==
    \A t \in Task : pc[t] = "gated tool" =>
        /\ op[t].approved
        /\ log[LastOf(t, "pending")] = Envelope(t, "pending", "taken", op[t].link)
        /\ jsonl => log[LastOf(t, "approval")].fate # "lost"

(* "A control whose record can be lost is not a control" (ADR-013:193): on   *)
(* the JSONL backend, which keeps the approval itself, a gated tool runs     *)
(* only with its APPROVAL_RECORD taken.                                      *)
(* It does not hold.                                                         *)
ApprovalIsOnRecord ==
    \A t \in Task : pc[t] = "gated tool" /\ jsonl => log[LastOf(t, "approval")].fate = "taken"

Closes == {i \in DOMAIN log : log[i].kind = "close"}

(* "SESSION_CLOSE always fires on exit" (session.py:10), as it is said.      *)
(* It does not hold.                                                         *)
CloseAlwaysFires == phase = "ended" => Closes # {}

(* What the exit does guarantee: a session whose body ran ends with exactly  *)
(* one SESSION_CLOSE of the right status and with its own client closed,     *)
(* whatever failed on the way, unless the owner was cancelled once more      *)
(* while it was leaving; and there are never two.                            *)
ExitIsComplete ==
    /\ Cardinality(Closes) <= 1
    /\ phase = "ended" /\ ~cut =>
          /\ \E i \in Closes : log[i].fate = IF raised THEN "failed" ELSE "completed"
          /\ closed

================================================================================
