--------------------------- MODULE SessionTraceProofs ---------------------------
(***************************************************************************)
(* Theorems about SessionTrace, for any tasks and any number of            *)
(* operations.                                                             *)
(*                                                                         *)
(* Every step is one of seven kinds (StepKinds): a step of session(), or   *)
(* one of a task that prepares, takes the decision slot, runs its tool,    *)
(* ends a decision, sends an action or goes on in the gate.  The inductive *)
(* invariant is preserved by each kind:                                    *)
(*   - LinkInv:  decisions are numbered upwards, so the one that fills the *)
(*     slot is carried by nobody yet;                                      *)
(*   - SeriesInv: while one task uses the session, the slot, or the link   *)
(*     taken from it, is what the log calls for;                           *)
(*   - ToolInv, ConsentInv: what a call has behind it at each await;       *)
(*   - ExitInv: where session() is tells whether SESSION_CLOSE is sent.    *)
(***************************************************************************)
EXTENDS SessionTrace, FiniteSetTheorems, SequenceTheorems, TLAPS

Kinds == {"decision", "action", "pending", "approval", "close"}
Fates == {"taken", "lost", "failed", "completed", "cancelled"}
Envelopes == [task : Task, kind : Kinds, fate : Fates, id : Nat]

Awaits == {"idle", "recording", "tool", "ingest", "pending", "consent", "approval", "gated tool"}
InGate == {"consent", "approval", "gated tool"}
Tools == {"none", "result", "error"}
Ends == {"none", "result", "error", "uncaptured", "lost", "cancelled", "unsupported", "not submitted", "refused"}
Operations == [link : Nat, tool : Tools, end : Ends, approved : BOOLEAN, seen : Ends]

(* The envelopes of the log that are in E. *)
Where(l, E) == {i \in DOMAIN l : l[i] \in E}

DecisionsTaken == {e \in Envelopes : e.kind = "decision" /\ e.fate = "taken"}

Types ==
    /\ phase \in {"opening", "unopened", "body", "flush", "closing", "ended"}
    /\ raised \in BOOLEAN /\ cut \in BOOLEAN /\ closed \in BOOLEAN /\ jsonl \in BOOLEAN
    /\ spawned \subseteq Task
    /\ slot \in Nat
    /\ counter \in Nat
    /\ ops \in Nat
    /\ pc \in [Task -> Awaits]
    /\ op \in [Task -> Operations]
    /\ log \in Seq(Envelopes)

Carrying(t) == pc[t] \in {"tool", "ingest", "pending"}

-------------------------------------------------------------------------------
(* Logs *)

LEMMA LogAppend ==
    ASSUME NEW l \in Seq(Envelopes), NEW e \in Envelopes
    PROVE  /\ Append(l, e) \in Seq(Envelopes)
           /\ Len(l) \in Nat
           /\ DOMAIN l = 1 .. Len(l)
           /\ DOMAIN Append(l, e) = DOMAIN l \cup {Len(l) + 1}
           /\ Len(l) + 1 \notin DOMAIN l
           /\ Len(Append(l, e)) = Len(l) + 1
           /\ \A i \in DOMAIN l : Append(l, e)[i] = l[i] /\ l[i] \in Envelopes /\ i <= Len(l) /\ i \in Nat
           /\ Append(l, e)[Len(l) + 1] = e
<1> DEFINE En == Envelopes
<1> HIDE DEF En
<1>0. l \in Seq(En) /\ e \in En
  BY DEF En
<1>1. /\ Append(l, e) \in Seq(En)
      /\ Len(Append(l, e)) = Len(l) + 1
      /\ \A i \in 1 .. Len(l) : Append(l, e)[i] = l[i]
      /\ Append(l, e)[Len(l) + 1] = e
  BY <1>0, AppendProperties
<1>2. Len(l) \in Nat /\ DOMAIN l = 1 .. Len(l)
  BY <1>0
<1>3. DOMAIN Append(l, e) = 1 .. Len(l) + 1
  BY <1>0, <1>1
<1>4. \A i \in 1 .. Len(l) : l[i] \in En
  BY <1>0, ElementOfSeq
<1>5. 1 .. Len(l) + 1 = 1 .. Len(l) \cup {Len(l) + 1}
  BY <1>2
<1>6. Len(l) + 1 \notin 1 .. Len(l) /\ \A i \in 1 .. Len(l) : i <= Len(l) /\ i \in Nat
  BY <1>2
<1> QED
  BY <1>1, <1>2, <1>3, <1>4, <1>5, <1>6 DEF En

LEMMA LogElements ==
    ASSUME NEW l \in Seq(Envelopes)
    PROVE  /\ Len(l) \in Nat
           /\ DOMAIN l = 1 .. Len(l)
           /\ \A i \in DOMAIN l : l[i] \in Envelopes /\ i \in Nat /\ 1 <= i /\ i <= Len(l)
<1> DEFINE En == Envelopes
<1> HIDE DEF En
<1>1. l \in Seq(En)
  BY DEF En
<1>2. Len(l) \in Nat /\ DOMAIN l = 1 .. Len(l)
  BY <1>1
<1>3. \A i \in 1 .. Len(l) : l[i] \in En
  BY <1>1, ElementOfSeq
<1> QED
  BY <1>2, <1>3 DEF En

LEMMA WhereFinite ==
    ASSUME NEW l \in Seq(Envelopes), NEW E
    PROVE  IsFiniteSet(Where(l, E)) /\ Cardinality(Where(l, E)) \in Nat
<1>1. Len(l) \in Nat /\ DOMAIN l = 1 .. Len(l)
  OBVIOUS
<1>2. IsFiniteSet(1 .. Len(l))
  BY <1>1, FS_Interval
<1>3. Where(l, E) \subseteq 1 .. Len(l)
  BY <1>1 DEF Where
<1> QED
  BY <1>2, <1>3, FS_Subset, FS_CardinalityType

LEMMA WhereAppend ==
    ASSUME NEW l \in Seq(Envelopes), NEW e \in Envelopes, NEW E
    PROVE  Cardinality(Where(Append(l, e), E)) =
              Cardinality(Where(l, E)) + (IF e \in E THEN 1 ELSE 0)
<1>1. CASE e \in E
  <2>1. Where(Append(l, e), E) = Where(l, E) \cup {Len(l) + 1}
    BY <1>1, LogAppend DEF Where
  <2>2. Len(l) + 1 \notin Where(l, E)
    BY LogAppend DEF Where
  <2> QED
    BY <1>1, <2>1, <2>2, WhereFinite, FS_AddElement
<1>2. CASE e \notin E
  <2>1. Where(Append(l, e), E) = Where(l, E)
    BY <1>2, LogAppend DEF Where
  <2> QED
    BY <1>2, <2>1, WhereFinite
<1> QED
  BY <1>1, <1>2

LEMMA NextDecisionIs ==
    ASSUME log \in Seq(Envelopes)
    PROVE  /\ NextDecision = 1 + Cardinality(Where(log, DecisionsTaken))
           /\ NextDecision \in Nat
<1>0. \A i \in DOMAIN log : log[i] \in Envelopes
  BY LogElements
<1>1. Where(log, DecisionsTaken) =
        {i \in DOMAIN log : log[i].kind = "decision" /\ log[i].fate = "taken"}
  BY <1>0 DEF Where, DecisionsTaken
<1>2. NextDecision = 1 + Cardinality(Where(log, DecisionsTaken))
  BY <1>1, Zenon DEF NextDecision
<1>3. Cardinality(Where(log, DecisionsTaken)) \in Nat
  BY WhereFinite
<1> QED
  BY <1>2, <1>3

-------------------------------------------------------------------------------
(* Steps *)

(* What a call whose tool ran may end with, but for its record. *)
Captured(tool, end) == end = tool \/ (end = "uncaptured" /\ tool = "result")

(* Only task t moves. *)
Alone(t) == \A u \in Task \ {t} : pc'[u] = pc[u] /\ op'[u] = op[u]

(* A step of session(): at most SESSION_CLOSE is sent. *)
SessionStep ==
    /\ pc' = pc /\ op' = op /\ slot' = slot /\ counter' = counter
    /\ \/ log' = log
       \/ /\ log' = Append(log, Envelope(Owner, "close", IF raised THEN "failed" ELSE "completed", counter))
          /\ phase = "flush" /\ phase' = "closing"

(* A decision or a refused call begins. *)
Prepares(t) ==
    /\ pc[t] = "idle" /\ pc'[t] \in {"idle", "recording"}
    /\ op'[t].tool = "none"
    /\ slot' = slot /\ counter' = counter /\ log' = log

(* An action begins and takes what the slot holds. *)
Takes(t) ==
    /\ pc[t] = "idle" /\ pc'[t] \in {"tool", "pending"}
    /\ op'[t] = [NoOp EXCEPT !.link = slot]
    /\ slot' = NoDecision /\ counter' = counter /\ log' = log

(* The tool of a traced call ends. *)
Runs(t) ==
    /\ pc[t] = "tool" /\ pc'[t] = "ingest"
    /\ op'[t].link = op[t].link
    /\ Captured(op'[t].tool, op'[t].end)
    /\ slot' = slot /\ counter' = counter /\ log' = log

(* A decision was answered, or its recording cancelled. *)
Decides(t) ==
    /\ pc[t] = "recording" /\ pc'[t] = "idle"
    /\ op'[t].tool = op[t].tool
    /\ counter' = counter
    /\ \E fate \in {"taken", "failed", "lost", "cancelled"}, id \in Nat :
          /\ log' = Append(log, Envelope(t, "decision", fate, id))
          /\ fate = "taken" => slot' = NextDecision /\ id = NextDecision
          /\ fate = "failed" => slot' = NoDecision
          /\ fate \in {"lost", "cancelled"} => slot' = slot

(* An action was answered, or its sending cancelled. *)
Sends(t) ==
    /\ slot' = slot
    /\ \E fate \in {"taken", "failed", "lost", "cancelled"}, kind \in {"action", "pending"} :
          /\ pc[t] = IF kind = "action" THEN "ingest" ELSE "pending"
          /\ log' = Append(log, Envelope(t, kind, fate, op[t].link))
          /\ counter' = IF fate = "taken" THEN counter + 1 ELSE counter
          /\ \/ pc'[t] = "consent" /\ kind = "pending" /\ fate = "taken" /\ op'[t] = op[t]
             \/ /\ pc'[t] = "idle"
                /\ op'[t].tool = op[t].tool
                /\ kind = "action" =>
                      op'[t].seen = op[t].end \/ (op'[t].seen = fate /\ fate \in {"lost", "cancelled"})

(* A gated call goes on after its pending record. *)
Gates(t) ==
    /\ pc[t] \in InGate /\ pc'[t] \in (InGate \ {"consent"}) \cup {"idle"}
    /\ slot' = slot /\ counter' = counter
    /\ \E fate \in {"taken", "failed", "lost"} :
          /\ log' = log \/ log' = Append(log, Envelope(t, "approval", fate, 0))
          /\ pc'[t] = "gated tool" =>
                /\ op'[t].approved
                /\ jsonl => fate # "lost" /\ log' # log
    /\ pc'[t] # "idle" => op'[t].link = op[t].link /\ op'[t].tool = op[t].tool
    /\ pc'[t] = "idle" => op'[t].tool \in {op[t].tool, op'[t].seen}

LEMMA AnswerFate ==
    ASSUME NEW a \in Answer
    PROVE  /\ Fate(a) \in {"taken", "failed", "lost"}
           /\ Fate(a) = "lost" <=> a = "lost"
           /\ a \in Unbuffered => (Fate(a) = "taken" <=> a = "accepted")
BY DEF Answer, Unbuffered, Fate

LEMMA StepKinds ==
    ASSUME Types, [Next]_vars
    PROVE  \/ SessionStep
           \/ \E t \in Task :
                 /\ Alone(t)
                 /\ Prepares(t) \/ Takes(t) \/ Runs(t) \/ Decides(t) \/ Sends(t) \/ Gates(t)
<1> USE DEF Types
<1>0. \A t \in Task : op[t] \in Operations
  OBVIOUS
<1>1. CASE Open
  BY <1>1 DEF Open, SessionStep, ctxVars
<1>2. CASE BodyEnds
  BY <1>2 DEF BodyEnds, SessionStep, ctxVars
<1>3. CASE FlushEnds
  BY <1>3 DEF FlushEnds, SessionStep, ctxVars, Logged
<1>4. CASE CloseAnswered
  BY <1>4 DEF CloseAnswered, SessionStep, ctxVars
<1>5. CASE CutShort
  BY <1>5 DEF CutShort, SessionStep, ctxVars
<1>6. CASE UNCHANGED vars
  BY <1>6 DEF SessionStep, vars, ctxVars, sessionVars
<1>7. ASSUME NEW t \in Task, Spawn(t)
      PROVE  SessionStep
  BY <1>7 DEF Spawn, SessionStep, ctxVars, sessionVars
<1>8. ASSUME NEW t \in Task, BeginDecision(t)
      PROVE  Alone(t) /\ Prepares(t)
  BY <1>8 DEF BeginDecision, Begin, NoOp, Alone, Prepares
<1>9. ASSUME NEW t \in Task, BeginUnsent(t)
      PROVE  Alone(t) /\ Prepares(t)
  BY <1>9 DEF BeginUnsent, Begin, NoOp, Alone, Prepares
<1>10. ASSUME NEW t \in Task, BeginCall(t)
       PROVE  Alone(t) /\ Takes(t)
  BY <1>10 DEF BeginCall, Begin, Consume, Alone, Takes
<1>11. ASSUME NEW t \in Task, BeginGated(t)
       PROVE  Alone(t) /\ Takes(t)
  BY <1>11 DEF BeginGated, Begin, Consume, Alone, Takes
<1>12. ASSUME NEW t \in Task, ToolEnds(t)
       PROVE  Alone(t) /\ Runs(t)
  <2>1. /\ pc[t] = "tool" /\ pc'[t] = "ingest"
        /\ slot' = slot /\ counter' = counter /\ log' = log
        /\ \A u \in Task \ {t} : pc'[u] = pc[u]
    BY <1>12 DEF ToolEnds, Goto, ctxVars
  <2>2. PICK tool \in Tools, end \in Ends :
            Captured(tool, end) /\ op' = [op EXCEPT ![t] = [@ EXCEPT !.tool = tool, !.end = end]]
    BY <1>12 DEF ToolEnds, Captured, Tools, Ends
  <2>3. /\ op'[t] = [op[t] EXCEPT !.tool = tool, !.end = end]
        /\ \A u \in Task \ {t} : op'[u] = op[u]
    BY <2>2
  <2>4. op'[t].link = op[t].link /\ op'[t].tool = tool /\ op'[t].end = end
    BY <1>0, <2>3 DEF Operations
  <2> QED
    BY <2>1, <2>2, <2>3, <2>4 DEF Alone, Runs
<1>13. ASSUME NEW t \in Task, DecisionAnswered(t)
       PROVE  Alone(t) /\ Decides(t)
  <2> PICK a \in Unbuffered : /\ slot' = SlotAfter(a)
                              /\ Logged(t, "decision", Fate(a), NextDecision)
                              /\ Return(t, IF a = "lost" THEN "lost" ELSE "none")
    BY <1>13 DEF DecisionAnswered
  <2>1. pc[t] = "recording" /\ counter' = counter
    BY <1>13 DEF DecisionAnswered
  <2>2. pc'[t] = "idle" /\ op'[t].tool = op[t].tool /\ Alone(t)
    BY <1>0 DEF Return, Goto, NoOp, Operations, Alone
  <2>3. log' = Append(log, Envelope(t, "decision", Fate(a), NextDecision)) /\ NextDecision \in Nat
    BY NextDecisionIs DEF Logged
  <2>4. /\ Fate(a) \in {"taken", "failed", "lost"}
        /\ Fate(a) = "taken" => slot' = NextDecision
        /\ Fate(a) = "failed" => slot' = NoDecision
        /\ Fate(a) = "lost" => slot' = slot
    BY DEF SlotAfter, Fate, Unbuffered, Answer
  <2> QED
    BY <2>1, <2>2, <2>3, <2>4 DEF Decides
<1>14. ASSUME NEW t \in Task, IngestAnswered(t)
       PROVE  Alone(t) /\ Sends(t)
  <2> PICK a \in Answer : /\ counter' = Counted(a)
                          /\ Logged(t, "action", Fate(a), op[t].link)
                          /\ Return(t, AfterIngest(t, a))
    BY <1>14 DEF IngestAnswered
  <2>1. pc[t] = "ingest" /\ slot' = slot
    BY <1>14 DEF IngestAnswered
  <2>2. /\ pc'[t] = "idle" /\ op'[t].tool = op[t].tool /\ Alone(t)
        /\ op'[t].seen = op[t].end \/ (op'[t].seen = "lost" /\ a = "lost")
    BY <1>0 DEF Return, Goto, NoOp, Operations, Alone, AfterIngest
  <2>3. Fate(a) \in {"taken", "failed", "lost"} /\ (a = "lost" => Fate(a) = "lost")
    BY AnswerFate
  <2>4. /\ log' = Append(log, Envelope(t, "action", Fate(a), op[t].link))
        /\ counter' = IF Fate(a) = "taken" THEN counter + 1 ELSE counter
    BY DEF Logged, Counted
  <2> QED
    BY <2>1, <2>2, <2>3, <2>4 DEF Sends
<1>15. ASSUME NEW t \in Task, PendingAnswered(t)
       PROVE  Alone(t) /\ Sends(t)
  <2> PICK a \in Unbuffered :
          /\ counter' = Counted(a)
          /\ Logged(t, "pending", Fate(a), op[t].link)
          /\ IF Submitted(a)
             THEN Goto(t, "consent") /\ op' = op
             ELSE Return(t, IF a = "lost" THEN "lost" ELSE "not submitted")
    BY <1>15 DEF PendingAnswered
  <2>1. pc[t] = "pending" /\ slot' = slot
    BY <1>15 DEF PendingAnswered
  <2>2. a \in Answer /\ (a = "accepted" <=> Fate(a) = "taken") /\ Fate(a) \in {"taken", "failed", "lost"}
    BY AnswerFate DEF Unbuffered
  <2>3. CASE Submitted(a)
    <3>1. pc'[t] = "consent" /\ op'[t] = op[t] /\ Alone(t) /\ Fate(a) = "taken"
      BY <2>2, <2>3 DEF Goto, Alone, Submitted
    <3> QED
      BY <2>1, <2>2, <3>1 DEF Sends, Logged, Counted
  <2>4. CASE ~Submitted(a)
    <3>0. Return(t, IF a = "lost" THEN "lost" ELSE "not submitted")
      BY <2>4
    <3>1. pc'[t] = "idle" /\ op'[t].tool = op[t].tool /\ Alone(t)
      BY <1>0, <3>0 DEF Return, Goto, NoOp, Operations, Alone
    <3>2. /\ log' = Append(log, Envelope(t, "pending", Fate(a), op[t].link))
          /\ counter' = IF Fate(a) = "taken" THEN counter + 1 ELSE counter
      BY DEF Logged, Counted
    <3>3. pc[t] = IF "pending" = "action" THEN "ingest" ELSE "pending"
      BY <2>1
    <3> QED
      BY <2>1, <2>2, <3>1, <3>2, <3>3, Zenon DEF Sends
  <2> QED
    BY <2>3, <2>4
<1>16. ASSUME NEW t \in Task, Consent(t)
       PROVE  Alone(t) /\ Gates(t)
  <2>1. pc[t] = "consent" /\ slot' = slot /\ counter' = counter /\ log' = log
    BY <1>16 DEF Consent, ctxVars
  <2> PICK yes \in BOOLEAN :
          CASE jsonl -> /\ Goto(t, "approval")
                        /\ op' = [op EXCEPT ![t].approved = yes]
            [] ~jsonl /\ yes -> /\ Goto(t, "gated tool")
                                /\ op' = [op EXCEPT ![t].approved = yes]
            [] OTHER -> Return(t, "refused")
    BY <1>16 DEF Consent
  <2>2. CASE jsonl
    <3>1. Goto(t, "approval") /\ op' = [op EXCEPT ![t].approved = yes]
      BY <2>2
    <3>2. /\ Alone(t) /\ pc'[t] = "approval"
          /\ op'[t].link = op[t].link /\ op'[t].tool = op[t].tool
      BY <3>1, <1>0 DEF Goto, Alone, Operations
    <3> QED
      BY <2>1, <3>2 DEF Gates, InGate
  <2>3. CASE ~jsonl /\ yes
    <3>1. Goto(t, "gated tool") /\ op' = [op EXCEPT ![t].approved = yes]
      BY <2>3
    <3>2. /\ Alone(t) /\ pc'[t] = "gated tool" /\ op'[t].approved
          /\ op'[t].link = op[t].link /\ op'[t].tool = op[t].tool
      BY <3>1, <1>0, <2>3 DEF Goto, Alone, Operations
    <3> QED
      BY <2>1, <2>3, <3>2 DEF Gates, InGate
  <2>4. CASE ~jsonl /\ ~yes
    <3>1. Return(t, "refused")
      BY <2>4
    <3>2. Alone(t) /\ pc'[t] = "idle" /\ op'[t].tool = op[t].tool
      BY <3>1, <1>0 DEF Return, Goto, Alone, NoOp, Operations
    <3> QED
      BY <2>1, <3>2 DEF Gates, InGate
  <2> QED
    BY <2>2, <2>3, <2>4
<1>17. ASSUME NEW t \in Task, ApprovalAnswered(t)
       PROVE  Alone(t) /\ Gates(t)
  <2>1. pc[t] = "approval" /\ slot' = slot /\ counter' = counter
    BY <1>17 DEF ApprovalAnswered, ctxVars
  <2> PICK a \in Unbuffered :
          /\ Logged(t, "approval", Fate(a), 0)
          /\ IF a # "lost" /\ op[t].approved
             THEN Goto(t, "gated tool") /\ op' = op
             ELSE Return(t, IF a = "lost" THEN "lost" ELSE "refused")
    BY <1>17 DEF ApprovalAnswered
  <2>2. a \in Answer /\ Fate(a) \in {"taken", "failed", "lost"} /\ (Fate(a) = "lost" <=> a = "lost")
    BY AnswerFate DEF Unbuffered
  <2>3. Envelope(t, "approval", Fate(a), 0) \in Envelopes
    BY <2>2 DEF Envelope, Envelopes, Kinds, Fates
  <2>4. log' = Append(log, Envelope(t, "approval", Fate(a), 0)) /\ log' # log
    BY <2>3, LogAppend DEF Logged
  <2>5. CASE a # "lost" /\ op[t].approved
    <3>1. Alone(t) /\ pc'[t] = "gated tool" /\ op'[t] = op[t]
      BY <2>5 DEF Goto, Alone
    <3>2. op'[t].approved /\ Fate(a) # "lost"
      BY <2>2, <2>5, <3>1
    <3>3. /\ pc'[t] \in (InGate \ {"consent"}) \cup {"idle"} /\ pc[t] \in InGate
          /\ op'[t].link = op[t].link /\ op'[t].tool = op[t].tool /\ pc'[t] # "idle"
      BY <2>1, <3>1 DEF InGate
    <3> QED
      BY <2>1, <2>2, <2>4, <3>1, <3>2, <3>3, Zenon DEF Gates
  <2>6. CASE ~(a # "lost" /\ op[t].approved)
    <3>0. Return(t, IF a = "lost" THEN "lost" ELSE "refused")
      BY <2>6
    <3>1. Alone(t) /\ pc'[t] = "idle" /\ op'[t].tool = op[t].tool
      BY <1>0, <3>0 DEF Return, Goto, Alone, NoOp, Operations
    <3> QED
      BY <2>1, <2>2, <2>4, <3>1 DEF Gates, InGate
  <2> QED
    BY <2>5, <2>6
<1>18. ASSUME NEW t \in Task, GatedToolEnds(t)
       PROVE  Alone(t) /\ Gates(t)
  BY <1>18, <1>0 DEF GatedToolEnds, Goto, ctxVars, NoOp, Alone, Gates, InGate
<1>19. ASSUME NEW t \in Task, Cancel(t)
       PROVE  Alone(t) /\ (Decides(t) \/ Sends(t) \/ Gates(t))
  <2>1. /\ pc[t] \in {"recording", "ingest", "pending", "consent", "approval"}
        /\ slot' = slot /\ counter' = counter
    BY <1>19 DEF Cancel, ctxVars
  <2>2. /\ pc'[t] = "idle" /\ op'[t].tool = op[t].tool /\ op'[t].seen = "cancelled" /\ Alone(t)
    BY <1>0, <1>19 DEF Cancel, Return, Goto, NoOp, Operations, Alone
  <2>3. CASE pc[t] = "recording"
    <3>1. log' = Append(log, Envelope(t, "decision", "cancelled", 0))
      BY <1>19, <2>3 DEF Cancel, Logged
    <3> QED
      BY <2>1, <2>2, <2>3, <3>1 DEF Decides
  <2>4. CASE pc[t] = "ingest"
    <3>1. log' = Append(log, Envelope(t, "action", "cancelled", op[t].link))
      BY <1>19, <2>4 DEF Cancel, Logged
    <3> QED
      BY <2>1, <2>2, <2>4, <3>1 DEF Sends
  <2>5. CASE pc[t] = "pending"
    <3>1. log' = Append(log, Envelope(t, "pending", "cancelled", op[t].link))
      BY <1>19, <2>5 DEF Cancel, Logged
    <3> QED
      BY <2>1, <2>2, <2>5, <3>1 DEF Sends
  <2>6. CASE pc[t] \in {"consent", "approval"}
    <3>1. log' = log
      BY <1>19, <2>6 DEF Cancel
    <3> QED
      BY <2>1, <2>2, <2>6, <3>1 DEF Gates, InGate
  <2> QED
    BY <2>1, <2>2, <2>3, <2>4, <2>5, <2>6
<1>20. CASE \E t \in Task :
          \/ Spawn(t)
          \/ BeginDecision(t) \/ DecisionAnswered(t)
          \/ BeginCall(t) \/ ToolEnds(t) \/ IngestAnswered(t)
          \/ BeginUnsent(t) \/ BeginGated(t) \/ PendingAnswered(t)
          \/ Consent(t) \/ ApprovalAnswered(t) \/ GatedToolEnds(t)
          \/ Cancel(t)
  BY <1>20, <1>7, <1>8, <1>9, <1>10, <1>11, <1>12, <1>13, <1>14, <1>15, <1>16, <1>17, <1>18, <1>19, Zenon
<1> QED
  BY <1>1, <1>2, <1>3, <1>4, <1>5, <1>6, <1>20 DEF Next

LEMMA EnvelopeType ==
    ASSUME NEW t \in Task, NEW kind \in Kinds, NEW fate \in Fates, NEW id \in Nat
    PROVE  Envelope(t, kind, fate, id) \in Envelopes
BY DEF Envelope, Envelopes

LEMMA StepsLog ==
    ASSUME Types, [Next]_vars
    PROVE  log' = log \/ \E e \in Envelopes : log' = Append(log, e)
<1> USE DEF Types
<1>1. CASE SessionStep
  <2>1. Envelope(Owner, "close", IF raised THEN "failed" ELSE "completed", counter) \in Envelopes
    BY EnvelopeType, SessionAssumption DEF Kinds, Fates
  <2> QED
    BY <1>1, <2>1 DEF SessionStep
<1>2. ASSUME NEW t \in Task, Prepares(t) \/ Takes(t) \/ Runs(t)
      PROVE  log' = log
  BY <1>2 DEF Prepares, Takes, Runs
<1>3. ASSUME NEW t \in Task, Decides(t)
      PROVE  \E e \in Envelopes : log' = Append(log, e)
  <2> PICK fate \in {"taken", "failed", "lost", "cancelled"}, id \in Nat :
          log' = Append(log, Envelope(t, "decision", fate, id))
    BY <1>3 DEF Decides
  <2>1. Envelope(t, "decision", fate, id) \in Envelopes
    BY EnvelopeType DEF Kinds, Fates
  <2> QED
    BY <2>1
<1>4. ASSUME NEW t \in Task, Sends(t)
      PROVE  \E e \in Envelopes : log' = Append(log, e)
  <2> PICK fate \in {"taken", "failed", "lost", "cancelled"}, kind \in {"action", "pending"} :
          log' = Append(log, Envelope(t, kind, fate, op[t].link))
    BY <1>4 DEF Sends
  <2>1. op[t].link \in Nat
    BY DEF Operations
  <2>2. Envelope(t, kind, fate, op[t].link) \in Envelopes
    BY <2>1, EnvelopeType DEF Kinds, Fates
  <2> QED
    BY <2>2
<1>5. ASSUME NEW t \in Task, Gates(t)
      PROVE  log' = log \/ \E e \in Envelopes : log' = Append(log, e)
  <2> PICK fate \in {"taken", "failed", "lost"} :
          log' = log \/ log' = Append(log, Envelope(t, "approval", fate, 0))
    BY <1>5 DEF Gates
  <2>1. Envelope(t, "approval", fate, 0) \in Envelopes
    BY EnvelopeType DEF Kinds, Fates
  <2> QED
    BY <2>1
<1> QED
  BY <1>1, <1>2, <1>3, <1>4, <1>5, StepKinds

LEMMA TypesInit ==
    ASSUME Init
    PROVE  Types
<1>1. << >> \in Seq(Envelopes)
  BY EmptySeq
<1>2. NoOp \in Operations
  BY DEF NoOp, Operations, NoDecision, Tools, Ends
<1> QED
  BY <1>1, <1>2 DEF Init, Types, Awaits, NoDecision

LEMMA TypesStep ==
    ASSUME Types, [Next]_vars
    PROVE  Types'
<1> USE DEF Types
<1>0. \A t \in Task : op[t] \in Operations
  OBVIOUS
<1>1. log' \in Seq(Envelopes)
  BY StepsLog, LogAppend
<1>2. NoOp \in Operations /\ [NoOp EXCEPT !.link = slot] \in Operations
  BY DEF NoOp, Operations, NoDecision, Tools, Ends
<1>3. ASSUME NEW t \in Task, NEW seen \in Ends, Return(t, seen)
      PROVE  /\ op' \in [Task -> Operations] /\ pc' \in [Task -> Awaits]
             /\ phase' = phase /\ raised' = raised /\ cut' = cut /\ closed' = closed /\ jsonl' = jsonl
             /\ spawned' = spawned /\ ops' = ops
  <2>1. op[t].tool \in Tools
    BY <1>0 DEF Operations
  <2>2. [NoOp EXCEPT !.tool = op[t].tool, !.seen = seen] \in Operations
    BY <2>1 DEF NoOp, Operations, NoDecision, Ends
  <2> QED
    BY <1>3, <2>2 DEF Return, Goto, Awaits, sessionVars
<1>4. ASSUME NEW t \in Task, NEW await \in Awaits, Goto(t, await)
      PROVE  /\ pc' \in [Task -> Awaits]
             /\ phase' = phase /\ raised' = raised /\ cut' = cut /\ closed' = closed /\ jsonl' = jsonl
             /\ spawned' = spawned /\ ops' = ops
  BY <1>4 DEF Goto, sessionVars
<1>5. ASSUME NEW t \in Task, NEW await \in Awaits, Begin(t, await)
      PROVE  /\ pc' \in [Task -> Awaits]
             /\ phase' = phase /\ raised' = raised /\ cut' = cut /\ closed' = closed /\ jsonl' = jsonl
             /\ spawned' = spawned /\ ops' \in Nat /\ counter' = counter
  BY <1>5 DEF Begin, sessionVars
<1>6. NextDecision \in Nat
  BY NextDecisionIs
<1>7. \A a \in Answer : Counted(a) \in Nat
  BY DEF Counted
<1>8. ASSUME NEW t \in Task, NEW r \in {"result", "error"}, NEW end \in {"result", "error", "uncaptured"}
      PROVE  /\ [op EXCEPT ![t] = [@ EXCEPT !.tool = r, !.end = end]] \in [Task -> Operations]
             /\ [op EXCEPT ![t] = [NoOp EXCEPT !.tool = r, !.seen = r]] \in [Task -> Operations]
  BY <1>0 DEF Operations, NoOp, NoDecision, Tools, Ends
<1>9. ASSUME NEW t \in Task, NEW yes \in BOOLEAN
      PROVE  [op EXCEPT ![t].approved = yes] \in [Task -> Operations]
  BY <1>0 DEF Operations
<1>11. CASE Open \/ BodyEnds \/ FlushEnds \/ CloseAnswered \/ CutShort \/ UNCHANGED vars
  BY <1>11, <1>1 DEF Open, BodyEnds, FlushEnds, CloseAnswered, CutShort, ctxVars, vars, sessionVars
<1>12. ASSUME NEW t \in Task, Spawn(t)
       PROVE  Types'
  BY <1>12, <1>1 DEF Spawn, ctxVars, sessionVars
<1>13. ASSUME NEW t \in Task, BeginDecision(t)
       PROVE  Types'
  <2>1. Begin(t, "recording")
    BY <1>13 DEF BeginDecision
  <2> QED
    BY <1>13, <1>1, <1>2, <2>1, <1>5 DEF BeginDecision, Awaits
<1>14. ASSUME NEW t \in Task, BeginUnsent(t)
       PROVE  Types'
  <2>1. Begin(t, "idle")
    BY <1>14 DEF BeginUnsent
  <2>2. \A seen \in {"unsupported", "uncaptured"} : [NoOp EXCEPT !.seen = seen] \in Operations
    BY <1>2 DEF Operations, NoOp, Ends
  <2>3. \E seen \in {"unsupported", "uncaptured"} : op' = [op EXCEPT ![t] = [NoOp EXCEPT !.seen = seen]]
    BY <1>14 DEF BeginUnsent
  <2>4. op' \in [Task -> Operations]
    BY <2>2, <2>3
  <2> QED
    BY <1>14, <1>1, <2>1, <2>4, <1>5 DEF BeginUnsent, Awaits
<1>15. ASSUME NEW t \in Task, BeginCall(t) \/ BeginGated(t)
       PROVE  Types'
  <2>1. Begin(t, "tool") \/ Begin(t, "pending")
    BY <1>15 DEF BeginCall, BeginGated
  <2>2. op' \in [Task -> Operations] /\ slot' \in Nat
    BY <1>15, <1>2 DEF BeginCall, BeginGated, Consume, NoDecision
  <2> QED
    BY <1>1, <2>1, <2>2, <1>5 DEF Awaits
<1>16. ASSUME NEW t \in Task, ToolEnds(t)
       PROVE  Types'
  <2>1. Goto(t, "ingest") /\ slot' = slot /\ counter' = counter
    BY <1>16 DEF ToolEnds, ctxVars
  <2>2. op' \in [Task -> Operations]
    <3>1. PICK r \in {"result", "error"}, end \in {"result", "error", "uncaptured"} :
              op' = [op EXCEPT ![t] = [@ EXCEPT !.tool = r, !.end = end]]
      BY <1>16 DEF ToolEnds
    <3> QED
      BY <3>1, <1>8
  <2> QED
    BY <1>1, <2>1, <2>2, <1>4 DEF Awaits
<1>17. ASSUME NEW t \in Task, DecisionAnswered(t)
       PROVE  Types'
  <2> PICK a \in Unbuffered : /\ slot' = SlotAfter(a)
                              /\ Return(t, IF a = "lost" THEN "lost" ELSE "none")
    BY <1>17 DEF DecisionAnswered
  <2>1. counter' = counter /\ slot' \in Nat
    BY <1>6, <1>17 DEF DecisionAnswered, SlotAfter, NoDecision
  <2>2. (IF a = "lost" THEN "lost" ELSE "none") \in Ends
    BY DEF Ends
  <2> QED
    BY <1>1, <1>3, <2>1, <2>2
<1>18. ASSUME NEW t \in Task, IngestAnswered(t)
       PROVE  Types'
  <2> PICK a \in Answer : /\ counter' = Counted(a)
                          /\ Return(t, AfterIngest(t, a))
    BY <1>18 DEF IngestAnswered
  <2>1. counter' \in Nat /\ slot' = slot
    BY <1>7, <1>18 DEF IngestAnswered
  <2>2. AfterIngest(t, a) \in Ends
    BY <1>0 DEF Ends, AfterIngest, Operations, Tools
  <2> QED
    BY <1>1, <1>3, <2>1, <2>2
<1>19. ASSUME NEW t \in Task, PendingAnswered(t)
       PROVE  Types'
  <2> PICK a \in Unbuffered :
          /\ counter' = Counted(a)
          /\ IF Submitted(a)
             THEN Goto(t, "consent") /\ op' = op
             ELSE Return(t, IF a = "lost" THEN "lost" ELSE "not submitted")
    BY <1>19 DEF PendingAnswered
  <2>1. counter' \in Nat /\ slot' = slot
    BY <1>7, <1>19 DEF PendingAnswered, Unbuffered
  <2>2. (IF a = "lost" THEN "lost" ELSE "not submitted") \in Ends
    BY DEF Ends
  <2>3. CASE Submitted(a)
    BY <1>1, <1>4, <2>1, <2>3 DEF Awaits
  <2>4. CASE ~Submitted(a)
    BY <1>1, <1>3, <2>1, <2>2, <2>4
  <2> QED
    BY <2>3, <2>4
<1>20. ASSUME NEW t \in Task, Consent(t)
       PROVE  Types'
  <2>1. slot' = slot /\ counter' = counter
    BY <1>20 DEF Consent, ctxVars
  <2> PICK yes \in BOOLEAN :
          CASE jsonl -> /\ Goto(t, "approval")
                        /\ op' = [op EXCEPT ![t].approved = yes]
            [] ~jsonl /\ yes -> /\ Goto(t, "gated tool")
                                /\ op' = [op EXCEPT ![t].approved = yes]
            [] OTHER -> Return(t, "refused")
    BY <1>20 DEF Consent
  <2>2. CASE jsonl \/ yes
    <3>1. /\ Goto(t, "approval") \/ Goto(t, "gated tool")
          /\ op' = [op EXCEPT ![t].approved = yes]
      BY <2>2
    <3>2. op' \in [Task -> Operations]
      BY <3>1, <1>9
    <3> QED
      BY <1>1, <1>4, <2>1, <3>1, <3>2 DEF Awaits
  <2>3. CASE ~(jsonl \/ yes)
    <3>1. Return(t, "refused") /\ "refused" \in Ends
      BY <2>3 DEF Ends
    <3> QED
      BY <1>1, <1>3, <2>1, <3>1
  <2> QED
    BY <2>2, <2>3
<1>21. ASSUME NEW t \in Task, ApprovalAnswered(t)
       PROVE  Types'
  <2>1. slot' = slot /\ counter' = counter
    BY <1>21 DEF ApprovalAnswered, ctxVars
  <2> PICK a \in Unbuffered :
          IF a # "lost" /\ op[t].approved
          THEN Goto(t, "gated tool") /\ op' = op
          ELSE Return(t, IF a = "lost" THEN "lost" ELSE "refused")
    BY <1>21 DEF ApprovalAnswered
  <2>2. (IF a = "lost" THEN "lost" ELSE "refused") \in Ends
    BY DEF Ends
  <2>3. CASE a # "lost" /\ op[t].approved
    BY <1>1, <1>4, <2>1, <2>3 DEF Awaits
  <2>4. CASE ~(a # "lost" /\ op[t].approved)
    BY <1>1, <1>3, <2>1, <2>2, <2>4
  <2> QED
    BY <2>3, <2>4
<1>22. ASSUME NEW t \in Task, GatedToolEnds(t)
       PROVE  Types'
  <2>1. Goto(t, "idle") /\ slot' = slot /\ counter' = counter
    BY <1>22 DEF GatedToolEnds, ctxVars
  <2>2. op' \in [Task -> Operations]
    <3>1. PICK r \in {"result", "error"} :
              op' = [op EXCEPT ![t] = [NoOp EXCEPT !.tool = r, !.seen = r]]
      BY <1>22 DEF GatedToolEnds
    <3> QED
      BY <3>1, <1>8
  <2> QED
    BY <1>1, <2>1, <2>2, <1>4 DEF Awaits
<1>23. ASSUME NEW t \in Task, Cancel(t)
       PROVE  Types'
  <2>1. Return(t, "cancelled") /\ slot' = slot /\ counter' = counter /\ "cancelled" \in Ends
    BY <1>23 DEF Cancel, ctxVars, Ends
  <2> QED
    BY <1>1, <1>3, <2>1
<1> QED
  BY <1>11, <1>12, <1>13, <1>14, <1>15, <1>16, <1>17, <1>18, <1>19, <1>20, <1>21, <1>22, <1>23 DEF Next

-------------------------------------------------------------------------------
(* What a call has behind it at each await *)

(* i is the latest envelope of its kind that task t sent.                    *)
Latest(l, t, kind, i) ==
    /\ i \in DOMAIN l /\ l[i].task = t /\ l[i].kind = kind
    /\ \A j \in DOMAIN l : l[j].task = t /\ l[j].kind = kind => j <= i

(* The pending row behind a call in the gate, and the approval before its    *)
(* tool.                                                                     *)
HasPending(l, t, link) ==
    \E i \in DOMAIN l : Latest(l, t, "pending", i) /\ l[i] = Envelope(t, "pending", "taken", link)

HasApproval(l, t) ==
    \E i \in DOMAIN l : Latest(l, t, "approval", i) /\ l[i].fate # "lost"

(* The fate of the record of t's latest traced call. *)
HasAction(l, t, fate) ==
    \E i \in DOMAIN l : Latest(l, t, "action", i) /\ l[i].fate = fate

ToolInv ==
    \A t \in Task :
        /\ pc[t] \notin {"idle", "ingest"} => op[t].tool = "none"
        /\ pc[t] = "ingest" => Captured(op[t].tool, op[t].end)
        /\ pc[t] = "idle" /\ op[t].tool # "none" =>
              \/ Captured(op[t].tool, op[t].seen)
              \/ op[t].seen \in {"lost", "cancelled"} /\ HasAction(log, t, op[t].seen)

ConsentInv ==
    \A t \in Task :
        /\ pc[t] \in InGate => HasPending(log, t, op[t].link)
        /\ pc[t] = "gated tool" => op[t].approved /\ (jsonl => HasApproval(log, t))

LEMMA LatestKept ==
    ASSUME NEW l \in Seq(Envelopes), NEW e \in Envelopes, NEW t, NEW kind, NEW i,
           Latest(l, t, kind, i), e.task # t \/ e.kind # kind
    PROVE  Latest(Append(l, e), t, kind, i) /\ Append(l, e)[i] = l[i] /\ i \in DOMAIN Append(l, e)
BY LogAppend DEF Latest

LEMMA LatestIsNew ==
    ASSUME NEW l \in Seq(Envelopes), NEW e \in Envelopes
    PROVE  /\ Latest(Append(l, e), e.task, e.kind, Len(l) + 1)
           /\ Append(l, e)[Len(l) + 1] = e /\ Len(l) + 1 \in DOMAIN Append(l, e)
BY LogAppend DEF Latest

LEMMA PendingKept ==
    ASSUME NEW l \in Seq(Envelopes), NEW e \in Envelopes, NEW t, NEW link,
           HasPending(l, t, link), e.task # t \/ e.kind # "pending"
    PROVE  HasPending(Append(l, e), t, link)
BY LatestKept DEF HasPending

LEMMA ApprovalKept ==
    ASSUME NEW l \in Seq(Envelopes), NEW e \in Envelopes, NEW t,
           HasApproval(l, t), e.task # t \/ e.kind # "approval"
    PROVE  HasApproval(Append(l, e), t)
BY LatestKept DEF HasApproval

LEMMA ActionKept ==
    ASSUME NEW l \in Seq(Envelopes), NEW e \in Envelopes, NEW t, NEW fate,
           HasAction(l, t, fate), e.task # t \/ e.kind # "action"
    PROVE  HasAction(Append(l, e), t, fate)
BY LatestKept DEF HasAction

(* A task sends only envelopes of its own. *)
LEMMA TaskSendsOwn ==
    ASSUME Types, NEW t \in Task,
           Prepares(t) \/ Takes(t) \/ Runs(t) \/ Decides(t) \/ Sends(t) \/ Gates(t)
    PROVE  log' = log \/ \E e \in Envelopes : e.task = t /\ log' = Append(log, e)
<1> USE DEF Types
<1>1. CASE Prepares(t) \/ Takes(t) \/ Runs(t)
  BY <1>1 DEF Prepares, Takes, Runs
<1>2. CASE Decides(t)
  <2> PICK fate \in {"taken", "failed", "lost", "cancelled"}, id \in Nat :
          log' = Append(log, Envelope(t, "decision", fate, id))
    BY <1>2 DEF Decides
  <2>1. Envelope(t, "decision", fate, id) \in Envelopes
    BY EnvelopeType DEF Kinds, Fates
  <2> QED
    BY <2>1 DEF Envelope
<1>3. CASE Sends(t)
  <2> PICK fate \in {"taken", "failed", "lost", "cancelled"}, kind \in {"action", "pending"} :
          log' = Append(log, Envelope(t, kind, fate, op[t].link))
    BY <1>3 DEF Sends
  <2>1. op[t].link \in Nat
    BY DEF Operations
  <2>2. Envelope(t, kind, fate, op[t].link) \in Envelopes
    BY <2>1, EnvelopeType DEF Kinds, Fates
  <2> QED
    BY <2>2 DEF Envelope
<1>4. CASE Gates(t)
  <2> PICK fate \in {"taken", "failed", "lost"} :
          log' = log \/ log' = Append(log, Envelope(t, "approval", fate, 0))
    BY <1>4 DEF Gates
  <2>1. Envelope(t, "approval", fate, 0) \in Envelopes
    BY EnvelopeType DEF Kinds, Fates
  <2> QED
    BY <2>1 DEF Envelope
<1> QED
  BY <1>1, <1>2, <1>3, <1>4

LEMMA ToolStep ==
    ASSUME Types, [Next]_vars, ToolInv
    PROVE  ToolInv'
<1> USE DEF Types
<1> DEFINE Good(t) ==
        /\ pc[t] \notin {"idle", "ingest"} => op[t].tool = "none"
        /\ pc[t] = "ingest" => Captured(op[t].tool, op[t].end)
        /\ pc[t] = "idle" /\ op[t].tool # "none" =>
              \/ Captured(op[t].tool, op[t].seen)
              \/ op[t].seen \in {"lost", "cancelled"} /\ HasAction(log, t, op[t].seen)
<1>0. \A t \in Task : Good(t)
  BY DEF ToolInv
<1>1. ASSUME NEW t \in Task, pc'[t] = pc[t], op'[t] = op[t],
             log' = log \/ \E e \in Envelopes : (e.task # t \/ e.kind # "action") /\ log' = Append(log, e)
      PROVE  Good(t)'
  <2>1. ASSUME NEW fate, HasAction(log, t, fate)
        PROVE  HasAction(log', t, fate)
    BY <1>1, <2>1, ActionKept
  <2> QED
    BY <1>0, <1>1, <2>1
<1>2. CASE SessionStep
  <2> DEFINE e == Envelope(Owner, "close", IF raised THEN "failed" ELSE "completed", counter)
  <2>1. e \in Envelopes /\ e.kind = "close"
    BY EnvelopeType, SessionAssumption DEF Kinds, Fates, Envelope
  <2>2. pc' = pc /\ op' = op /\ (log' = log \/ log' = Append(log, e))
    BY <1>2 DEF SessionStep
  <2> HIDE DEF e
  <2>3. ASSUME NEW t \in Task PROVE Good(t)'
    <3> HIDE DEF Good
    <3> QED
      BY <1>1, <2>1, <2>2
  <2> QED
    BY <2>3 DEF ToolInv
<1>3. ASSUME NEW t \in Task, Prepares(t) \/ Takes(t) \/ Runs(t) \/ Decides(t) \/ Gates(t)
      PROVE  Good(t)'
  <2>1. CASE Prepares(t)
    BY <2>1 DEF Prepares
  <2>2. CASE Takes(t)
    BY <2>2 DEF Takes, NoOp
  <2>3. CASE Runs(t)
    BY <2>3 DEF Runs
  <2>4. CASE Decides(t)
    BY <2>4, <1>0 DEF Decides
  <2>6. CASE Gates(t)
    BY <2>6, <1>0 DEF Gates, InGate, Captured
  <2> QED
    BY <1>3, <2>1, <2>2, <2>3, <2>4, <2>6
<1>4. ASSUME NEW t \in Task, Sends(t)
      PROVE  Good(t)'
  <2> PICK fate \in {"taken", "failed", "lost", "cancelled"}, kind \in {"action", "pending"} :
          /\ pc[t] = IF kind = "action" THEN "ingest" ELSE "pending"
          /\ log' = Append(log, Envelope(t, kind, fate, op[t].link))
          /\ \/ pc'[t] = "consent" /\ kind = "pending" /\ fate = "taken" /\ op'[t] = op[t]
             \/ /\ pc'[t] = "idle"
                /\ op'[t].tool = op[t].tool
                /\ kind = "action" =>
                      op'[t].seen = op[t].end \/ (op'[t].seen = fate /\ fate \in {"lost", "cancelled"})
    BY <1>4 DEF Sends
  <2>1. CASE kind = "pending"
    <3>1. op[t].tool = "none"
      BY <1>0, <2>1
    <3> QED
      BY <2>1, <3>1
  <2>2. CASE kind = "action"
    <3> DEFINE e == Envelope(t, "action", fate, op[t].link)
    <3>0. op[t].link \in Nat
      BY DEF Operations
    <3>1. e \in Envelopes /\ e.task = t /\ e.kind = "action" /\ e.fate = fate /\ log' = Append(log, e)
      BY <2>2, <3>0, EnvelopeType DEF Kinds, Fates, Envelope
    <3> HIDE DEF e
    <3>2. Latest(log', t, "action", Len(log) + 1) /\ log'[Len(log) + 1] = e /\ Len(log) + 1 \in DOMAIN log'
      BY <3>1, LatestIsNew
    <3>3. HasAction(log', t, fate)
      BY <3>1, <3>2 DEF HasAction
    <3>4. Captured(op[t].tool, op[t].end)
      BY <1>0, <2>2
    <3>5. /\ pc'[t] = "idle" /\ op'[t].tool = op[t].tool
          /\ op'[t].seen = op[t].end \/ (op'[t].seen = fate /\ fate \in {"lost", "cancelled"})
      BY <2>2
    <3> QED
      BY <3>3, <3>4, <3>5
  <2> QED
    BY <2>1, <2>2
<1>5. ASSUME NEW t \in Task, Alone(t),
             Prepares(t) \/ Takes(t) \/ Runs(t) \/ Decides(t) \/ Sends(t) \/ Gates(t)
      PROVE  ToolInv'
  <2>1. log' = log \/ \E e \in Envelopes : e.task = t /\ log' = Append(log, e)
    BY <1>5, TaskSendsOwn
  <2>2. Good(t)'
    <3> HIDE DEF Good
    <3> QED
      BY <1>3, <1>4, <1>5
  <2>3. ASSUME NEW u \in Task, u # t PROVE Good(u)'
    <3> HIDE DEF Good
    <3>1. pc'[u] = pc[u] /\ op'[u] = op[u]
      BY <1>5, <2>3 DEF Alone
    <3>2. log' = log \/ \E e \in Envelopes : (e.task # u \/ e.kind # "action") /\ log' = Append(log, e)
      BY <2>1, <2>3
    <3> QED
      BY <1>1, <3>1, <3>2
  <2>4. \A u \in Task : Good(u)'
    BY <2>2, <2>3
  <2> QED
    BY <2>4 DEF ToolInv
<1> QED
  BY <1>2, <1>5, StepKinds

LEMMA JsonlFixed ==
    ASSUME [Next]_vars
    PROVE  jsonl' = jsonl
BY DEF Next, Open, BodyEnds, FlushEnds, CloseAnswered, CutShort, Spawn, BeginDecision, BeginUnsent,
       BeginCall, BeginGated, Begin, ToolEnds, Goto, Return, DecisionAnswered, IngestAnswered,
       PendingAnswered, Consent, ApprovalAnswered, GatedToolEnds, Cancel, vars, sessionVars

LEMMA ConsentStep ==
    ASSUME Types, [Next]_vars, ConsentInv
    PROVE  ConsentInv'
<1> USE DEF Types
<1>0. jsonl' = jsonl
  BY JsonlFixed
<1>1. CASE SessionStep
  <2>1. Envelope(Owner, "close", IF raised THEN "failed" ELSE "completed", counter) \in Envelopes
    BY EnvelopeType, SessionAssumption DEF Kinds, Fates
  <2>2. ASSUME NEW t \in Task, NEW link, HasPending(log, t, link)
        PROVE  HasPending(log', t, link)
    BY <1>1, <2>1, <2>2, PendingKept DEF SessionStep, Envelope
  <2>3. ASSUME NEW t \in Task, HasApproval(log, t)
        PROVE  HasApproval(log', t)
    BY <1>1, <2>1, <2>3, ApprovalKept DEF SessionStep, Envelope
  <2>4. pc' = pc /\ op' = op
    BY <1>1 DEF SessionStep
  <2> QED
    BY <1>0, <2>2, <2>3, <2>4 DEF ConsentInv
<1>2. ASSUME NEW t \in Task, Alone(t),
             log' = log \/ \E e \in Envelopes : e.task = t /\ log' = Append(log, e),
             NEW u \in Task, u # t
      PROVE  /\ pc'[u] \in InGate => HasPending(log', u, op'[u].link)
             /\ pc'[u] = "gated tool" => op'[u].approved /\ (jsonl' => HasApproval(log', u))
  <2>1. pc'[u] = pc[u] /\ op'[u] = op[u]
    BY <1>2 DEF Alone
  <2>2. ASSUME NEW link, HasPending(log, u, link)
        PROVE  HasPending(log', u, link)
    BY <1>2, <2>2, PendingKept
  <2>3. ASSUME HasApproval(log, u)
        PROVE  HasApproval(log', u)
    BY <1>2, <2>3, ApprovalKept
  <2> QED
    BY <1>0, <2>1, <2>2, <2>3 DEF ConsentInv
<1>3. ASSUME NEW t \in Task, Prepares(t) \/ Takes(t) \/ Runs(t)
      PROVE  log' = log /\ pc'[t] \notin InGate
  BY <1>3 DEF Prepares, Takes, Runs, InGate
<1>4. ASSUME NEW t \in Task, Decides(t)
      PROVE  pc'[t] \notin InGate /\ \E e \in Envelopes : e.task = t /\ log' = Append(log, e)
  <2> PICK fate \in {"taken", "failed", "lost", "cancelled"}, id \in Nat :
          log' = Append(log, Envelope(t, "decision", fate, id))
    BY <1>4 DEF Decides
  <2>1. Envelope(t, "decision", fate, id) \in Envelopes
    BY EnvelopeType DEF Kinds, Fates
  <2> QED
    BY <2>1, <1>4 DEF Envelope, Decides, InGate
<1>5. ASSUME NEW t \in Task, Sends(t)
      PROVE  /\ pc'[t] \in InGate => HasPending(log', t, op'[t].link)
             /\ pc'[t] # "gated tool"
             /\ \E e \in Envelopes : e.task = t /\ log' = Append(log, e)
  <2> PICK fate \in {"taken", "failed", "lost", "cancelled"}, kind \in {"action", "pending"} :
          /\ log' = Append(log, Envelope(t, kind, fate, op[t].link))
          /\ \/ pc'[t] = "consent" /\ kind = "pending" /\ fate = "taken" /\ op'[t] = op[t]
             \/ pc'[t] = "idle"
    BY <1>5 DEF Sends
  <2>1. op[t].link \in Nat
    BY DEF Operations
  <2>2. Envelope(t, kind, fate, op[t].link) \in Envelopes
    BY <2>1, EnvelopeType DEF Kinds, Fates
  <2>3. CASE pc'[t] = "idle"
    BY <2>2, <2>3 DEF InGate, Envelope
  <2>4. CASE pc'[t] = "consent" /\ kind = "pending" /\ fate = "taken" /\ op'[t] = op[t]
    <3> DEFINE e == Envelope(t, "pending", "taken", op[t].link)
    <3>1. e \in Envelopes /\ e.task = t /\ e.kind = "pending" /\ log' = Append(log, e)
      BY <2>2, <2>4 DEF Envelope
    <3> HIDE DEF e
    <3>2. Latest(log', t, "pending", Len(log) + 1) /\ log'[Len(log) + 1] = e /\ Len(log) + 1 \in DOMAIN log'
      BY <3>1, LatestIsNew
    <3>3. HasPending(log', t, op[t].link)
      BY <3>2 DEF HasPending, e
    <3> QED
      BY <3>1, <3>3, <2>4
  <2> QED
    BY <2>3, <2>4
<1>6. ASSUME NEW t \in Task, Gates(t)
      PROVE  /\ pc'[t] \in InGate => HasPending(log', t, op'[t].link)
             /\ pc'[t] = "gated tool" => op'[t].approved /\ (jsonl' => HasApproval(log', t))
             /\ log' = log \/ \E e \in Envelopes : e.task = t /\ log' = Append(log, e)
  <2> PICK fate \in {"taken", "failed", "lost"} :
          /\ log' = log \/ log' = Append(log, Envelope(t, "approval", fate, 0))
          /\ pc'[t] = "gated tool" =>
                /\ op'[t].approved
                /\ jsonl => fate # "lost" /\ log' # log
    BY <1>6 DEF Gates
  <2> DEFINE e == Envelope(t, "approval", fate, 0)
  <2>1. e \in Envelopes /\ e.task = t /\ e.kind = "approval" /\ e.fate = fate
    BY EnvelopeType DEF Kinds, Fates, Envelope
  <2>2. log' = log \/ log' = Append(log, e)
    OBVIOUS
  <2> HIDE DEF e
  <2>3. pc'[t] \in InGate => HasPending(log', t, op'[t].link)
    <3>1. HasPending(log, t, op[t].link)
      BY <1>6 DEF Gates, ConsentInv
    <3>2. HasPending(log', t, op[t].link)
      BY <3>1, <2>1, <2>2, PendingKept
    <3> QED
      BY <3>2, <1>6 DEF Gates, InGate
  <2>4. ASSUME pc'[t] = "gated tool", jsonl
        PROVE  HasApproval(log', t)
    <3>1. log' = Append(log, e) /\ e.fate # "lost"
      BY <2>1, <2>2, <2>4
    <3>2. Latest(log', t, "approval", Len(log) + 1) /\ log'[Len(log) + 1] = e /\ Len(log) + 1 \in DOMAIN log'
      BY <3>1, <2>1, LatestIsNew
    <3> QED
      BY <3>1, <3>2 DEF HasApproval
  <2> QED
    BY <1>0, <2>1, <2>2, <2>3, <2>4
<1>7. ASSUME NEW t \in Task, Alone(t),
             Prepares(t) \/ Takes(t) \/ Runs(t) \/ Decides(t) \/ Sends(t) \/ Gates(t)
      PROVE  ConsentInv'
  <2>1. log' = log \/ \E e \in Envelopes : e.task = t /\ log' = Append(log, e)
    BY <1>3, <1>4, <1>5, <1>6, <1>7
  <2>2. /\ pc'[t] \in InGate => HasPending(log', t, op'[t].link)
        /\ pc'[t] = "gated tool" => op'[t].approved /\ (jsonl' => HasApproval(log', t))
    BY <1>3, <1>4, <1>5, <1>6, <1>7 DEF InGate
  <2> QED
    BY <1>2, <1>7, <2>1, <2>2 DEF ConsentInv
<1> QED
  BY <1>1, <1>7, StepKinds

-------------------------------------------------------------------------------
(* SESSION_CLOSE *)

ExitInv ==
    /\ phase \notin {"closing", "ended"} => \A i \in DOMAIN log : log[i].kind # "close"
    /\ \A i, j \in DOMAIN log : log[i].kind = "close" /\ log[j].kind = "close" => i = j
    /\ phase = "closing" \/ (phase = "ended" /\ ~cut) =>
          \E i \in DOMAIN log : log[i].kind = "close" /\ log[i].fate = IF raised THEN "failed" ELSE "completed"
    /\ phase = "ended" /\ ~cut => closed

LEMMA TaskSendsNoClose ==
    ASSUME Types, NEW t \in Task,
           Prepares(t) \/ Takes(t) \/ Runs(t) \/ Decides(t) \/ Sends(t) \/ Gates(t)
    PROVE  log' = log \/ \E e \in Envelopes : e.kind # "close" /\ log' = Append(log, e)
<1> USE DEF Types
<1>1. ASSUME Prepares(t) \/ Takes(t) \/ Runs(t)
      PROVE  log' = log
  BY <1>1 DEF Prepares, Takes, Runs
<1>2. ASSUME Decides(t)
      PROVE  \E e \in Envelopes : e.kind # "close" /\ log' = Append(log, e)
  <2> PICK fate \in {"taken", "failed", "lost", "cancelled"}, id \in Nat :
          log' = Append(log, Envelope(t, "decision", fate, id))
    BY <1>2 DEF Decides
  <2>1. Envelope(t, "decision", fate, id) \in Envelopes
    BY EnvelopeType DEF Kinds, Fates
  <2> QED
    BY <2>1 DEF Envelope
<1>3. ASSUME Sends(t)
      PROVE  \E e \in Envelopes : e.kind # "close" /\ log' = Append(log, e)
  <2> PICK fate \in {"taken", "failed", "lost", "cancelled"}, kind \in {"action", "pending"} :
          log' = Append(log, Envelope(t, kind, fate, op[t].link))
    BY <1>3 DEF Sends
  <2>1. op[t].link \in Nat
    BY DEF Operations
  <2>2. Envelope(t, kind, fate, op[t].link) \in Envelopes
    BY <2>1, EnvelopeType DEF Kinds, Fates
  <2> QED
    BY <2>2 DEF Envelope
<1>4. ASSUME Gates(t)
      PROVE  log' = log \/ \E e \in Envelopes : e.kind # "close" /\ log' = Append(log, e)
  <2> PICK fate \in {"taken", "failed", "lost"} :
          log' = log \/ log' = Append(log, Envelope(t, "approval", fate, 0))
    BY <1>4 DEF Gates
  <2>1. Envelope(t, "approval", fate, 0) \in Envelopes
    BY EnvelopeType DEF Kinds, Fates
  <2> QED
    BY <2>1 DEF Envelope
<1> QED
  BY <1>1, <1>2, <1>3, <1>4

LEMMA PhaseSteps ==
    ASSUME [Next]_vars
    PROVE  \/ Open \/ BodyEnds \/ FlushEnds \/ CloseAnswered \/ CutShort
           \/ sessionVars' = sessionVars
BY DEF Next, Spawn, BeginDecision, BeginUnsent, BeginCall, BeginGated, Begin, ToolEnds, Goto,
       Return, DecisionAnswered, IngestAnswered, PendingAnswered, Consent, ApprovalAnswered,
       GatedToolEnds, Cancel, vars, sessionVars

LEMMA ExitStep ==
    ASSUME Types, [Next]_vars, ExitInv
    PROVE  ExitInv'
<1> USE DEF Types
<1>1. CASE Open \/ BodyEnds \/ CloseAnswered \/ CutShort
  BY <1>1 DEF Open, BodyEnds, CloseAnswered, CutShort, ExitInv
<1>2. CASE FlushEnds
  <2> DEFINE e == Envelope(Owner, "close", IF raised THEN "failed" ELSE "completed", counter)
  <2>1. e \in Envelopes /\ e.kind = "close" /\ e.fate = IF raised THEN "failed" ELSE "completed"
    BY EnvelopeType, SessionAssumption DEF Kinds, Fates, Envelope
  <2>2. /\ phase = "flush" /\ phase' = "closing" /\ log' = Append(log, e)
        /\ raised' = raised /\ cut' = cut /\ closed' = closed
    BY <1>2 DEF FlushEnds, Logged
  <2> HIDE DEF e
  <2>3. /\ DOMAIN log' = DOMAIN log \cup {Len(log) + 1}
        /\ \A i \in DOMAIN log : log'[i] = log[i]
        /\ log'[Len(log) + 1] = e
    BY <2>1, <2>2, LogAppend
  <2>4. \A i \in DOMAIN log' : log'[i].kind = "close" <=> i = Len(log) + 1
    BY <2>1, <2>2, <2>3, LogElements DEF ExitInv
  <2> QED
    BY <2>1, <2>2, <2>3, <2>4 DEF ExitInv
<1>3. CASE sessionVars' = sessionVars
  <2>1. phase' = phase /\ raised' = raised /\ cut' = cut /\ closed' = closed
    BY <1>3 DEF sessionVars
  <2>2. log' = log \/ \E e \in Envelopes : e.kind # "close" /\ log' = Append(log, e)
    <3>1. CASE SessionStep
      BY <3>1, <2>1 DEF SessionStep
    <3> QED
      BY <3>1, StepKinds, TaskSendsNoClose
  <2>3. CASE log' = log
    BY <2>1, <2>3 DEF ExitInv
  <2>4. ASSUME NEW e \in Envelopes, e.kind # "close", log' = Append(log, e)
        PROVE  ExitInv'
    <3>1. /\ DOMAIN log' = DOMAIN log \cup {Len(log) + 1}
          /\ \A i \in DOMAIN log : log'[i] = log[i]
          /\ log'[Len(log) + 1] = e
      BY <2>4, LogAppend
    <3>2. \A i \in DOMAIN log' : log'[i].kind = "close" => i \in DOMAIN log
      BY <3>1, <2>4
    <3> QED
      BY <2>1, <3>1, <3>2 DEF ExitInv
  <2> QED
    BY <2>2, <2>3, <2>4
<1> QED
  BY <1>1, <1>2, <1>3, PhaseSteps

-------------------------------------------------------------------------------
(* Decisions and the actions that carry them *)

LEMMA DecisionCount ==
    ASSUME NEW l \in Seq(Envelopes)
    PROVE  /\ {i \in DOMAIN l : l[i].kind = "decision" /\ l[i].fate = "taken"} = Where(l, DecisionsTaken)
           /\ Cardinality(Where(l, DecisionsTaken)) \in Nat
<1>1. \A i \in DOMAIN l : l[i] \in Envelopes
  BY LogElements
<1> QED
  BY <1>1, WhereFinite DEF Where, DecisionsTaken

LEMMA NextDecisionAppend ==
    ASSUME Types, NEW e \in Envelopes, log' = Append(log, e)
    PROVE  /\ NextDecision' = NextDecision + (IF e.kind = "decision" /\ e.fate = "taken" THEN 1 ELSE 0)
           /\ NextDecision \in Nat
<1>1. log \in Seq(Envelopes) /\ log' \in Seq(Envelopes)
  BY LogAppend DEF Types
<1> DEFINE C == Cardinality(Where(log, DecisionsTaken))
           D == Cardinality(Where(log', DecisionsTaken))
<1>2. NextDecision = 1 + C /\ C \in Nat
  BY <1>1, NextDecisionIs, WhereFinite
<1>3. NextDecision' = 1 + D
  BY <1>1, DecisionCount, Zenon DEF NextDecision
<1>4. D = C + (IF e \in DecisionsTaken THEN 1 ELSE 0)
  BY <1>1, WhereAppend
<1>5. e \in DecisionsTaken <=> e.kind = "decision" /\ e.fate = "taken"
  BY DEF DecisionsTaken
<1> HIDE DEF C, D
<1> QED
  BY <1>2, <1>3, <1>4, <1>5

LinkInv ==
    /\ slot < NextDecision
    /\ \A t \in Task : Carrying(t) =>
          /\ op[t].link < NextDecision
          /\ op[t].link # NoDecision =>
                /\ op[t].link # slot
                /\ \A u \in Task : Carrying(u) /\ op[u].link = op[t].link => u = t
    /\ \A i \in DOMAIN log : IsAction(log[i]) =>
          /\ log[i].id < NextDecision
          /\ log[i].id # NoDecision =>
                /\ log[i].id # slot
                /\ \A j \in DOMAIN log : IsAction(log[j]) /\ log[j].id = log[i].id => j = i
                /\ \A u \in Task : Carrying(u) => op[u].link # log[i].id

LEMMA LinkStep ==
    ASSUME Types, Types', [Next]_vars, LinkInv
    PROVE  LinkInv'
<1> USE DEF Types
<1>0. /\ log \in Seq(Envelopes) /\ NextDecision \in Nat /\ slot \in Nat
      /\ \A t \in Task : op[t].link \in Nat
      /\ \A i \in DOMAIN log : log[i].id \in Nat
  BY NextDecisionIs, LogElements DEF Operations, Envelopes
<1>1. ASSUME log' = log
      PROVE  NextDecision' = NextDecision
  BY <1>1 DEF NextDecision
<1>2. ASSUME NEW e \in Envelopes, log' = Append(log, e)
      PROVE  /\ DOMAIN log' = DOMAIN log \cup {Len(log) + 1}
             /\ Len(log) + 1 \notin DOMAIN log
             /\ \A i \in DOMAIN log : log'[i] = log[i]
             /\ log'[Len(log) + 1] = e
             /\ NextDecision' = NextDecision + (IF e.kind = "decision" /\ e.fate = "taken" THEN 1 ELSE 0)
  BY <1>2, LogAppend, NextDecisionAppend
<1> USE DEF NoDecision
<1>3. CASE SessionStep
  <2> DEFINE e == Envelope(Owner, "close", IF raised THEN "failed" ELSE "completed", counter)
  <2>1. e \in Envelopes /\ e.kind = "close"
    BY EnvelopeType, SessionAssumption DEF Kinds, Fates, Envelope
  <2>2. pc' = pc /\ op' = op /\ slot' = slot /\ (log' = log \/ log' = Append(log, e))
    BY <1>3 DEF SessionStep
  <2> HIDE DEF e
  <2>3. CASE log' = log
    BY <1>1, <2>2, <2>3 DEF LinkInv, Carrying
  <2>4. CASE log' = Append(log, e)
    <3>1. NextDecision' = NextDecision /\ \A i \in DOMAIN log' : IsAction(log'[i]) => i \in DOMAIN log /\ log'[i] = log[i]
      BY <1>0, <1>2, <2>1, <2>4 DEF IsAction
    <3> HIDE DEF Types
    <3> QED
      BY <2>2, <3>1 DEF LinkInv, Carrying
  <2> QED
    BY <2>2, <2>3, <2>4
<1>4. ASSUME NEW t \in Task, Alone(t), Prepares(t) \/ Runs(t)
      PROVE  LinkInv'
  <2>1. NextDecision' = NextDecision /\ log' = log /\ slot' = slot
    BY <1>1, <1>4 DEF Prepares, Runs
  <2>2. \A u \in Task : Carrying(u)' => Carrying(u) /\ op'[u].link = op[u].link
    BY <1>4 DEF Alone, Prepares, Runs, Carrying
  <2> HIDE DEF Types
  <2> QED
    BY <2>1, <2>2 DEF LinkInv
<1>5. ASSUME NEW t \in Task, Alone(t), Takes(t)
      PROVE  LinkInv'
  <2>1. NextDecision' = NextDecision /\ log' = log /\ slot' = 0 /\ op'[t].link = slot
    BY <1>1, <1>5 DEF Takes, NoOp
  <2>2. \A u \in Task \ {t} : Carrying(u)' => Carrying(u) /\ op'[u].link = op[u].link
    BY <1>5 DEF Alone, Carrying
  <2> HIDE DEF Types
  <2> QED
    BY <1>0, <2>1, <2>2 DEF LinkInv
<1>6. ASSUME NEW t \in Task, Alone(t), Decides(t)
      PROVE  LinkInv'
  <2> PICK fate \in {"taken", "failed", "lost", "cancelled"}, id \in Nat :
          /\ log' = Append(log, Envelope(t, "decision", fate, id))
          /\ fate = "taken" => slot' = NextDecision /\ id = NextDecision
          /\ fate = "failed" => slot' = NoDecision
          /\ fate \in {"lost", "cancelled"} => slot' = slot
    BY <1>6 DEF Decides
  <2> DEFINE e == Envelope(t, "decision", fate, id)
  <2>1. e \in Envelopes /\ e.kind = "decision" /\ e.fate = fate
    BY EnvelopeType DEF Kinds, Fates, Envelope
  <2>2. log' = Append(log, e)
    OBVIOUS
  <2> HIDE DEF e
  <2>3. \A u \in Task : Carrying(u)' => Carrying(u) /\ op'[u].link = op[u].link
    BY <1>6 DEF Alone, Decides, Carrying
  <2>4. \A i \in DOMAIN log' : IsAction(log'[i]) => i \in DOMAIN log /\ log'[i] = log[i]
    BY <1>2, <2>1, <2>2 DEF IsAction
  <2>5. \/ slot' = NextDecision /\ NextDecision' = NextDecision + 1
        \/ slot' \in {0, slot} /\ NextDecision' = NextDecision
    BY <1>2, <1>0, <2>1, <2>2
  <2>6. slot < NextDecision
    BY DEF LinkInv
  <2> HIDE DEF Types
  <2>7. slot' < NextDecision' /\ NextDecision <= NextDecision'
    BY <1>0, <2>5, <2>6
  <2>8. \A x \in Nat : x < NextDecision /\ x # 0 /\ x # slot => x # slot' /\ x < NextDecision'
    BY <1>0, <2>5
  <2>9. \A x \in Nat : x < NextDecision => x < NextDecision'
    BY <1>0, <2>5
  <2> QED
    BY <1>0, <2>3, <2>4, <2>7, <2>8, <2>9 DEF LinkInv
<1>7. ASSUME NEW t \in Task, Alone(t), Sends(t)
      PROVE  LinkInv'
  <2> PICK fate \in {"taken", "failed", "lost", "cancelled"}, kind \in {"action", "pending"} :
          /\ pc[t] = IF kind = "action" THEN "ingest" ELSE "pending"
          /\ log' = Append(log, Envelope(t, kind, fate, op[t].link))
          /\ pc'[t] \in {"consent", "idle"}
    BY <1>7 DEF Sends
  <2> DEFINE e == Envelope(t, kind, fate, op[t].link)
  <2>1. e \in Envelopes /\ e.kind = kind /\ e.id = op[t].link
    BY <1>0, EnvelopeType DEF Kinds, Fates, Envelope
  <2>2. log' = Append(log, e)
    OBVIOUS
  <2> HIDE DEF e
  <2>3. \A u \in Task : Carrying(u)' => Carrying(u) /\ op'[u].link = op[u].link /\ u # t
    BY <1>7 DEF Alone, Carrying
  <2>4. \A i \in DOMAIN log' : \/ i \in DOMAIN log /\ log'[i] = log[i]
                               \/ i = Len(log) + 1 /\ log'[i] = e
    BY <1>2, <2>1, <2>2
  <2>5. slot' = slot /\ NextDecision' = NextDecision
    BY <1>0, <1>2, <1>7, <2>1, <2>2 DEF Sends
  <2>6. Carrying(t)
    BY DEF Carrying
  <2> HIDE DEF Types
  <2> QED
    BY <1>0, <2>1, <2>3, <2>4, <2>5, <2>6 DEF LinkInv
<1>8. ASSUME NEW t \in Task, Alone(t), Gates(t)
      PROVE  LinkInv'
  <2> PICK fate \in {"taken", "failed", "lost"} :
          log' = log \/ log' = Append(log, Envelope(t, "approval", fate, 0))
    BY <1>8 DEF Gates
  <2> DEFINE e == Envelope(t, "approval", fate, 0)
  <2>1. e \in Envelopes /\ e.kind = "approval"
    BY EnvelopeType DEF Kinds, Fates, Envelope
  <2>2. log' = log \/ log' = Append(log, e)
    OBVIOUS
  <2> HIDE DEF e
  <2>3. \A u \in Task : Carrying(u)' => Carrying(u) /\ op'[u].link = op[u].link
    BY <1>8 DEF Alone, Gates, InGate, Carrying
  <2>4. /\ slot' = slot /\ NextDecision' = NextDecision
        /\ \A i \in DOMAIN log' : IsAction(log'[i]) => i \in DOMAIN log /\ log'[i] = log[i]
    <3>1. slot' = slot
      BY <1>8 DEF Gates
    <3>2. CASE log' = log
      BY <1>1, <3>1, <3>2
    <3>3. CASE log' = Append(log, e)
      BY <1>0, <1>2, <2>1, <3>1, <3>3 DEF IsAction
    <3> QED
      BY <2>2, <3>2, <3>3
  <2> HIDE DEF Types
  <2> QED
    BY <2>3, <2>4 DEF LinkInv
<1> QED
  BY <1>3, <1>4, <1>5, <1>6, <1>7, <1>8, StepKinds

LEMMA LinkInvLinksOnce ==
    ASSUME Types, LinkInv
    PROVE  LinkedOnce
<1>1. ASSUME NEW x \in Carried
      PROVE  \/ \E i \in DOMAIN log : IsAction(log[i]) /\ x = <<i, log[i].id>>
             \/ \E t \in Task : Carrying(t) /\ x = <<t, op[t].link>>
  BY <1>1 DEF Carried, Carrying
<1>2. ASSUME NEW x \in Carried, NEW y \in Carried, x[2] # NoDecision
      PROVE  (x[2] = y[2] => x = y) /\ x[2] # slot
  <2>1. CASE \E i \in DOMAIN log : IsAction(log[i]) /\ x = <<i, log[i].id>>
    <3> PICK i \in DOMAIN log : IsAction(log[i]) /\ x = <<i, log[i].id>>
      BY <2>1
    <3>1. CASE \E j \in DOMAIN log : IsAction(log[j]) /\ y = <<j, log[j].id>>
      BY <1>2, <3>1 DEF LinkInv
    <3>2. CASE \E t \in Task : Carrying(t) /\ y = <<t, op[t].link>>
      BY <1>2, <3>2 DEF LinkInv
    <3> QED
      BY <1>1, <3>1, <3>2
  <2>2. CASE \E t \in Task : Carrying(t) /\ x = <<t, op[t].link>>
    <3> PICK t \in Task : Carrying(t) /\ x = <<t, op[t].link>>
      BY <2>2
    <3>1. CASE \E j \in DOMAIN log : IsAction(log[j]) /\ y = <<j, log[j].id>>
      BY <1>2, <3>1 DEF LinkInv
    <3>2. CASE \E u \in Task : Carrying(u) /\ y = <<u, op[u].link>>
      BY <1>2, <3>2 DEF LinkInv
    <3> QED
      BY <1>1, <3>1, <3>2
  <2> QED
    BY <1>1, <2>1, <2>2
<1> QED
  BY <1>2 DEF LinkedOnce

-------------------------------------------------------------------------------
(* Sessions that one task uses *)

Logging == {log[i].task : i \in {j \in DOMAIN log : log[j].kind # "close"}}
Users == Logging \cup {t \in Task : pc[t] # "idle"}

(* An envelope that decides what the next action carries, and what it says.  *)
Decisive(e) == IsAction(e) \/ (e.kind = "decision" /\ e.fate \notin {"lost", "cancelled"})
Says(e) == IF e.kind = "decision" /\ e.fate = "taken" THEN e.id ELSE NoDecision

Before(l, n) == {j \in 1 .. n : Decisive(l[j])}

(* The first n envelopes call for the link v. *)
Calls(l, n, v) ==
    \/ Before(l, n) = {} /\ v = NoDecision
    \/ \E k \in Before(l, n) : (\A j \in Before(l, n) : j <= k) /\ v = Says(l[k])

SeriesInv ==
    /\ IsFiniteSet(Users)
    /\ \A u \in Task : Users \subseteq {u} =>
          /\ \A i \in DOMAIN log : IsAction(log[i]) => Calls(log, i - 1, log[i].id)
          /\ Carrying(u) => Calls(log, Len(log), op[u].link) /\ slot = NoDecision
          /\ ~Carrying(u) => Calls(log, Len(log), slot)

LEMMA CallsKept ==
    ASSUME NEW l \in Seq(Envelopes), NEW e \in Envelopes, NEW n \in 0 .. Len(l), NEW v,
           Calls(l, n, v)
    PROVE  Calls(Append(l, e), n, v)
<1>1. Len(l) \in Nat /\ \A j \in 1 .. Len(l) : Append(l, e)[j] = l[j]
  BY LogAppend
<1>2. \A j \in 1 .. n : Append(l, e)[j] = l[j]
  BY <1>1
<1>3. Before(Append(l, e), n) = Before(l, n)
  BY <1>2 DEF Before
<1>4. \A k \in Before(l, n) : Append(l, e)[k] = l[k]
  BY <1>2 DEF Before
<1> QED
  BY <1>3, <1>4 DEF Calls

LEMMA CallsOn ==
    ASSUME NEW l \in Seq(Envelopes), NEW e \in Envelopes, NEW v,
           Calls(l, Len(l), v), ~Decisive(e)
    PROVE  Calls(Append(l, e), Len(l) + 1, v)
<1>1. /\ Len(l) \in Nat /\ Append(l, e)[Len(l) + 1] = e
      /\ \A j \in 1 .. Len(l) : Append(l, e)[j] = l[j]
  BY LogAppend
<1>2. 1 .. Len(l) + 1 = 1 .. Len(l) \cup {Len(l) + 1}
  BY <1>1
<1>3. Before(Append(l, e), Len(l) + 1) = Before(l, Len(l))
  BY <1>1, <1>2 DEF Before
<1>4. \A k \in Before(l, Len(l)) : Append(l, e)[k] = l[k]
  BY <1>1 DEF Before
<1> QED
  BY <1>3, <1>4 DEF Calls

LEMMA CallsNew ==
    ASSUME NEW l \in Seq(Envelopes), NEW e \in Envelopes, Decisive(e)
    PROVE  Calls(Append(l, e), Len(l) + 1, Says(e))
<1>1. Len(l) \in Nat /\ Append(l, e)[Len(l) + 1] = e
  BY LogAppend
<1>2. Len(l) + 1 \in Before(Append(l, e), Len(l) + 1)
  BY <1>1 DEF Before
<1>3. \A j \in Before(Append(l, e), Len(l) + 1) : j <= Len(l) + 1
  BY <1>1 DEF Before
<1> QED
  BY <1>1, <1>2, <1>3 DEF Calls

(* The links in the log, when the log grows by e. *)
LEMMA SeriesLog ==
    ASSUME Types, NEW e \in Envelopes, log' = Append(log, e),
           \A i \in DOMAIN log : IsAction(log[i]) => Calls(log, i - 1, log[i].id),
           IsAction(e) => Calls(log, Len(log), e.id)
    PROVE  \A i \in DOMAIN log' : IsAction(log'[i]) => Calls(log', i - 1, log'[i].id)
<1>0. /\ log \in Seq(Envelopes) /\ Len(log) \in Nat /\ DOMAIN log = 1 .. Len(log)
      /\ DOMAIN log' = DOMAIN log \cup {Len(log) + 1}
      /\ \A i \in DOMAIN log : log'[i] = log[i]
      /\ log'[Len(log) + 1] = e
  BY LogAppend DEF Types
<1>1. ASSUME NEW i \in DOMAIN log, IsAction(log'[i])
      PROVE  Calls(log', i - 1, log'[i].id)
  <2>1. i - 1 \in 0 .. Len(log) /\ log'[i] = log[i]
    BY <1>0
  <2>2. Calls(log, i - 1, log[i].id)
    BY <1>1, <2>1
  <2> QED
    BY <1>0, <2>1, <2>2, CallsKept
<1>2. ASSUME IsAction(e)
      PROVE  Calls(log', Len(log), e.id)
  BY <1>0, <1>2, CallsKept
<1>3. Len(log) + 1 - 1 = Len(log)
  BY <1>0
<1> QED
  BY <1>0, <1>1, <1>2, <1>3

LEMMA LoggingAppend ==
    ASSUME Types, NEW e \in Envelopes, log' = Append(log, e)
    PROVE  Logging' = IF e.kind = "close" THEN Logging ELSE Logging \cup {e.task}
<1>1. /\ DOMAIN log' = DOMAIN log \cup {Len(log) + 1}
      /\ \A i \in DOMAIN log : log'[i] = log[i]
      /\ log'[Len(log) + 1] = e
  BY LogAppend DEF Types
<1> QED
  BY <1>1 DEF Logging

(* How the users change: nobody leaves, and at most the task that moves joins. *)
LEMMA UsersStep ==
    ASSUME Types, NEW t \in Task, Alone(t), ConsentInv,
           Prepares(t) \/ Takes(t) \/ Runs(t) \/ Decides(t) \/ Sends(t) \/ Gates(t)
    PROVE  /\ Users \subseteq Users'
           /\ Users' \subseteq Users \cup {t}
           /\ ~Prepares(t) => t \in Users'
<1> USE DEF Types
<1>1. \A u \in Task \ {t} : pc'[u] = pc[u]
  BY DEF Alone
<1>2. CASE Prepares(t)
  <2>1. Logging' = Logging /\ pc[t] = "idle"
    BY <1>2 DEF Prepares, Logging
  <2> QED
    BY <1>1, <1>2, <2>1 DEF Users
<1>3. CASE Takes(t) \/ Runs(t)
  <2>1. Logging' = Logging /\ pc'[t] # "idle"
    BY <1>3 DEF Takes, Runs, Logging
  <2> QED
    BY <1>1, <2>1 DEF Users
<1>4. ASSUME NEW e \in Envelopes, e.task = t, e.kind # "close", log' = Append(log, e)
      PROVE  Users \subseteq Users' /\ Users' \subseteq Users \cup {t} /\ t \in Users'
  <2>1. Logging' = Logging \cup {t}
    BY <1>4, LoggingAppend
  <2> QED
    BY <1>1, <2>1 DEF Users
<1>5. CASE Decides(t)
  <2> PICK fate \in {"taken", "failed", "lost", "cancelled"}, id \in Nat :
          log' = Append(log, Envelope(t, "decision", fate, id))
    BY <1>5 DEF Decides
  <2> DEFINE e == Envelope(t, "decision", fate, id)
  <2>1. e \in Envelopes /\ e.kind = "decision" /\ e.task = t
    BY EnvelopeType DEF Kinds, Fates, Envelope
  <2> HIDE DEF e
  <2>2. log' = Append(log, e)
    BY DEF e
  <2> QED
    BY <1>4, <2>1, <2>2
<1>6. CASE Sends(t)
  <2> PICK fate \in {"taken", "failed", "lost", "cancelled"}, kind \in {"action", "pending"} :
          log' = Append(log, Envelope(t, kind, fate, op[t].link))
    BY <1>6 DEF Sends
  <2> DEFINE e == Envelope(t, kind, fate, op[t].link)
  <2>0. op[t].link \in Nat
    BY DEF Operations
  <2>1. e \in Envelopes /\ e.kind = kind /\ e.task = t
    BY <2>0, EnvelopeType DEF Kinds, Fates, Envelope
  <2> HIDE DEF e
  <2>2. log' = Append(log, e)
    BY DEF e
  <2> QED
    BY <1>4, <2>1, <2>2
<1>7. CASE Gates(t)
  <2>1. t \in Logging
    <3>1. HasPending(log, t, op[t].link)
      BY <1>7 DEF Gates, ConsentInv
    <3> QED
      BY <3>1 DEF HasPending, Latest, Logging
  <2> PICK fate \in {"taken", "failed", "lost"} :
          log' = log \/ log' = Append(log, Envelope(t, "approval", fate, 0))
    BY <1>7 DEF Gates
  <2> DEFINE e == Envelope(t, "approval", fate, 0)
  <2>2. e \in Envelopes /\ e.kind = "approval" /\ e.task = t
    BY EnvelopeType DEF Kinds, Fates, Envelope
  <2> HIDE DEF e
  <2>3. log' = log \/ log' = Append(log, e)
    BY DEF e
  <2>4. CASE log' = log
    <3>1. Logging' = Logging
      BY <2>4 DEF Logging
    <3> QED
      BY <1>1, <2>1, <3>1 DEF Users
  <2> QED
    BY <1>4, <2>2, <2>3, <2>4
<1> QED
  BY <1>2, <1>3, <1>5, <1>6, <1>7

(* The conjuncts of SeriesInv about a session that only u uses.              *)
InSeries(u) ==
    /\ \A i \in DOMAIN log : IsAction(log[i]) => Calls(log, i - 1, log[i].id)
    /\ Carrying(u) => Calls(log, Len(log), op[u].link) /\ slot = NoDecision
    /\ ~Carrying(u) => Calls(log, Len(log), slot)

LEMMA SeriesStep ==
    ASSUME Types, [Next]_vars, ConsentInv, SeriesInv
    PROVE  SeriesInv'
<1> USE DEF Types
<1>0. log \in Seq(Envelopes) /\ Len(log) \in Nat
  BY LogElements
<1>1. CASE SessionStep
  <2> DEFINE e == Envelope(Owner, "close", IF raised THEN "failed" ELSE "completed", counter)
  <2>1. e \in Envelopes /\ e.kind = "close" /\ ~IsAction(e) /\ ~Decisive(e)
    BY EnvelopeType, SessionAssumption DEF Kinds, Fates, Envelope, IsAction, Decisive
  <2>2. pc' = pc /\ op' = op /\ slot' = slot /\ (log' = log \/ log' = Append(log, e))
    BY <1>1 DEF SessionStep
  <2> HIDE DEF e
  <2>3. CASE log' = log
    <3>1. Users' = Users
      BY <2>2, <2>3 DEF Users, Logging
    <3> QED
      BY <2>2, <2>3, <3>1 DEF SeriesInv, Carrying
  <2>4. CASE log' = Append(log, e)
    <3>1. Logging' = Logging
      BY <2>1, <2>4, LoggingAppend
    <3>2. Users' = Users
      BY <2>2, <3>1 DEF Users
    <3>3. Len(log') = Len(log) + 1
      BY <1>0, <2>1, <2>4, LogAppend
    <3>4. ASSUME NEW v, Calls(log, Len(log), v)
          PROVE  Calls(log', Len(log'), v)
      BY <1>0, <2>1, <2>4, <3>3, <3>4, CallsOn
    <3>5. ASSUME NEW u \in Task, Users \subseteq {u}
          PROVE  InSeries(u)'
      <4>1. InSeries(u)
        BY <3>5 DEF SeriesInv, InSeries
      <4>2. \A i \in DOMAIN log' : IsAction(log'[i]) => Calls(log', i - 1, log'[i].id)
        BY <2>1, <2>4, <4>1, SeriesLog DEF InSeries
      <4>3. Carrying(u)' = Carrying(u)
        BY <2>2 DEF Carrying
      <4> HIDE DEF Types
      <4> QED
        BY <2>2, <3>4, <4>1, <4>2, <4>3 DEF InSeries
    <3> HIDE DEF Types
    <3> QED
      BY <3>2, <3>5 DEF SeriesInv, InSeries
  <2> QED
    BY <2>2, <2>3, <2>4
<1>2. ASSUME NEW t \in Task, Alone(t), NEW u \in Task, InSeries(u), Prepares(t)
      PROVE  InSeries(u)'
  <2>1. log' = log /\ slot' = slot
    BY <1>2 DEF Prepares
  <2>2. Carrying(u)' = Carrying(u) /\ (Carrying(u) => op'[u] = op[u])
    BY <1>2 DEF Prepares, Carrying, Alone
  <2> HIDE DEF Types
  <2> QED
    BY <1>2, <2>1, <2>2 DEF InSeries
<1>3. ASSUME NEW u \in Task, InSeries(u), Takes(u)
      PROVE  InSeries(u)'
  <2>1. log' = log /\ slot' = NoDecision /\ op'[u].link = slot /\ ~Carrying(u) /\ Carrying(u)'
    BY <1>3 DEF Takes, NoOp, Carrying
  <2> HIDE DEF Types
  <2> QED
    BY <1>3, <2>1 DEF InSeries
<1>4. ASSUME NEW u \in Task, InSeries(u), Runs(u)
      PROVE  InSeries(u)'
  <2>1. log' = log /\ slot' = slot /\ op'[u].link = op[u].link /\ Carrying(u) /\ Carrying(u)'
    BY <1>4 DEF Runs, Carrying
  <2> HIDE DEF Types
  <2> QED
    BY <1>4, <2>1 DEF InSeries
<1>5. ASSUME NEW u \in Task, InSeries(u), Decides(u)
      PROVE  InSeries(u)'
  <2> PICK fate \in {"taken", "failed", "lost", "cancelled"}, id \in Nat :
          /\ log' = Append(log, Envelope(u, "decision", fate, id))
          /\ fate = "taken" => slot' = NextDecision /\ id = NextDecision
          /\ fate = "failed" => slot' = NoDecision
          /\ fate \in {"lost", "cancelled"} => slot' = slot
    BY <1>5 DEF Decides
  <2> DEFINE e == Envelope(u, "decision", fate, id)
  <2>1. e \in Envelopes /\ e.kind = "decision" /\ e.fate = fate /\ e.id = id
    BY EnvelopeType DEF Kinds, Fates, Envelope
  <2>2. log' = Append(log, e)
    OBVIOUS
  <2> HIDE DEF e
  <2>3. Len(log') = Len(log) + 1
    BY <1>0, <2>1, <2>2, LogAppend
  <2>4. \A i \in DOMAIN log' : IsAction(log'[i]) => Calls(log', i - 1, log'[i].id)
    BY <1>5, <2>1, <2>2, SeriesLog DEF InSeries, IsAction
  <2>5. ~Carrying(u) /\ ~Carrying(u)'
    BY <1>5 DEF Decides, Carrying
  <2>6. Calls(log', Len(log'), slot')
    <3>1. CASE fate \in {"taken", "failed"}
      <4>1. Decisive(e) /\ Says(e) = slot'
        BY <2>1, <3>1 DEF Decisive, Says
      <4> QED
        BY <1>0, <2>1, <2>2, <2>3, <4>1, CallsNew
    <3>2. CASE fate \in {"lost", "cancelled"}
      <4>1. ~Decisive(e) /\ slot' = slot
        BY <2>1, <3>2 DEF Decisive, IsAction
      <4>2. Calls(log, Len(log), slot)
        BY <1>5, <2>5 DEF InSeries
      <4> QED
        BY <1>0, <2>1, <2>2, <2>3, <4>1, <4>2, CallsOn
    <3> QED
      BY <3>1, <3>2
  <2> HIDE DEF Types
  <2> QED
    BY <2>4, <2>5, <2>6 DEF InSeries
<1>6. ASSUME NEW u \in Task, InSeries(u), Sends(u)
      PROVE  InSeries(u)'
  <2> PICK fate \in {"taken", "failed", "lost", "cancelled"}, kind \in {"action", "pending"} :
          /\ pc[u] = IF kind = "action" THEN "ingest" ELSE "pending"
          /\ log' = Append(log, Envelope(u, kind, fate, op[u].link))
          /\ pc'[u] \in {"consent", "idle"}
    BY <1>6 DEF Sends
  <2> DEFINE e == Envelope(u, kind, fate, op[u].link)
  <2>0. op[u].link \in Nat
    BY DEF Operations
  <2>1. e \in Envelopes /\ e.kind = kind /\ e.id = op[u].link
    BY <2>0, EnvelopeType DEF Kinds, Fates, Envelope
  <2>2. log' = Append(log, e)
    OBVIOUS
  <2> HIDE DEF e
  <2>3. Len(log') = Len(log) + 1
    BY <1>0, <2>1, <2>2, LogAppend
  <2>4. Carrying(u) /\ ~Carrying(u)'
    BY DEF Carrying
  <2>5. Calls(log, Len(log), e.id) /\ slot = NoDecision
    BY <1>6, <2>1, <2>4 DEF InSeries
  <2>6. \A i \in DOMAIN log' : IsAction(log'[i]) => Calls(log', i - 1, log'[i].id)
    BY <1>6, <2>1, <2>2, <2>5, SeriesLog DEF InSeries
  <2>7. slot' = slot /\ Decisive(e) /\ Says(e) = NoDecision
    BY <1>6, <2>1 DEF Sends, Decisive, Says, IsAction
  <2>8. Calls(log', Len(log'), slot')
    BY <1>0, <2>1, <2>2, <2>3, <2>5, <2>7, CallsNew
  <2> HIDE DEF Types
  <2> QED
    BY <2>4, <2>6, <2>8 DEF InSeries
<1>7. ASSUME NEW u \in Task, InSeries(u), Gates(u)
      PROVE  InSeries(u)'
  <2> PICK fate \in {"taken", "failed", "lost"} :
          log' = log \/ log' = Append(log, Envelope(u, "approval", fate, 0))
    BY <1>7 DEF Gates
  <2> DEFINE e == Envelope(u, "approval", fate, 0)
  <2>1. e \in Envelopes /\ ~IsAction(e) /\ ~Decisive(e)
    BY EnvelopeType DEF Kinds, Fates, Envelope, IsAction, Decisive
  <2>2. log' = log \/ log' = Append(log, e)
    OBVIOUS
  <2> HIDE DEF e
  <2>3. ~Carrying(u) /\ ~Carrying(u)' /\ slot' = slot
    BY <1>7 DEF Gates, InGate, Carrying
  <2>4. CASE log' = log
    BY <1>7, <2>3, <2>4 DEF InSeries
  <2>5. CASE log' = Append(log, e)
    <3>1. Len(log') = Len(log) + 1
      BY <1>0, <2>1, <2>5, LogAppend
    <3>2. \A i \in DOMAIN log' : IsAction(log'[i]) => Calls(log', i - 1, log'[i].id)
      BY <1>7, <2>1, <2>5, SeriesLog DEF InSeries
    <3>3. Calls(log', Len(log'), slot')
      BY <1>0, <1>7, <2>1, <2>3, <2>5, <3>1, CallsOn DEF InSeries
    <3> HIDE DEF Types
    <3> QED
      BY <2>3, <3>2, <3>3 DEF InSeries
  <2> QED
    BY <2>2, <2>4, <2>5
<1>8. ASSUME NEW t \in Task, Alone(t),
             Prepares(t) \/ Takes(t) \/ Runs(t) \/ Decides(t) \/ Sends(t) \/ Gates(t)
      PROVE  SeriesInv'
  <2>1. /\ Users \subseteq Users'
        /\ Users' \subseteq Users \cup {t}
        /\ ~Prepares(t) => t \in Users'
    BY <1>8, UsersStep
  <2>2. IsFiniteSet(Users')
    BY <2>1, FS_AddElement, FS_Subset DEF SeriesInv
  <2>3. ASSUME NEW u \in Task, Users' \subseteq {u}
        PROVE  InSeries(u)'
    <3>1. InSeries(u)
      BY <2>1, <2>3 DEF SeriesInv, InSeries
    <3>2. Prepares(t) \/ t = u
      BY <2>1, <2>3
    <3> QED
      BY <1>2, <1>3, <1>4, <1>5, <1>6, <1>7, <1>8, <3>1, <3>2
  <2> HIDE DEF Types
  <2> QED
    BY <2>2, <2>3 DEF SeriesInv, InSeries
<1> QED
  BY <1>1, <1>8, StepKinds

LEMMA SeriesInvLinks ==
    ASSUME Types, SeriesInv
    PROVE  LinkedInSeries
<1> USE DEF Types
<1>0. log \in Seq(Envelopes) /\ Len(log) \in Nat /\ DOMAIN log = 1 .. Len(log)
  BY LogElements
<1>1. SUFFICES ASSUME Cardinality(Users) = 1,
                      NEW i \in DOMAIN log, IsAction(log[i])
               PROVE  LET before == {j \in 1 .. i - 1 :
                                        \/ IsAction(log[j])
                                        \/ log[j].kind = "decision" /\ log[j].fate \notin {"lost", "cancelled"}}
                          last == CHOOSE j \in before : \A k \in before : k <= j
                      IN  log[i].id = IF before # {} /\ log[last].kind = "decision"
                                                     /\ log[last].fate = "taken"
                                      THEN log[last].id ELSE NoDecision
  BY Zenon DEF LinkedInSeries, Users, Logging
<1>2. PICK u : Users = {u}
  BY <1>1, FS_Singleton DEF SeriesInv
<1>3. u \in Task
  <2>1. \A k \in DOMAIN log : log[k] \in Envelopes
    BY LogElements
  <2>2. \A k \in DOMAIN log : log[k].task \in Task
    BY <2>1 DEF Envelopes
  <2>3. Users \subseteq Task
    BY <2>2 DEF Users, Logging
  <2> QED
    BY <1>2, <2>3
<1>4. Calls(log, i - 1, log[i].id)
  BY <1>1, <1>2, <1>3 DEF SeriesInv
<1> DEFINE before == {j \in 1 .. i - 1 :
                         \/ IsAction(log[j])
                         \/ log[j].kind = "decision" /\ log[j].fate \notin {"lost", "cancelled"}}
           last == CHOOSE j \in before : \A k \in before : k <= j
<1>5. before = Before(log, i - 1)
  BY DEF Before, Decisive
<1>6. \A j \in before : j \in Nat
  BY <1>0
<1> HIDE DEF before
<1>7. ASSUME NEW k \in before, \A j \in before : j <= k
      PROVE  last = k
  <2>1. last \in before /\ \A j \in before : j <= last
    BY <1>7, Zenon
  <2>2. last <= k /\ k <= last
    BY <1>7, <2>1
  <2> HIDE DEF last
  <2>3. last \in Nat /\ k \in Nat
    BY <1>6, <1>7, <2>1
  <2> QED
    BY <2>2, <2>3
<1> HIDE DEF last
<1>8. log[i].id = IF before # {} /\ log[last].kind = "decision" /\ log[last].fate = "taken"
                  THEN log[last].id ELSE NoDecision
  <2>1. CASE before = {}
    BY <1>4, <1>5, <2>1 DEF Calls
  <2>2. CASE before # {}
    <3>1. PICK k \in before : (\A j \in before : j <= k) /\ log[i].id = Says(log[k])
      BY <1>4, <1>5, <2>2 DEF Calls
    <3> QED
      BY <1>7, <2>2, <3>1 DEF Says
  <2> QED
    BY <2>1, <2>2
<1> QED
  BY <1>8, Zenon DEF before, last

-------------------------------------------------------------------------------
(* The inductive invariant and the theorems *)

IInv == Types /\ ToolInv /\ ConsentInv /\ ExitInv /\ LinkInv /\ SeriesInv

LEMMA InvInit ==
    ASSUME Init
    PROVE  IInv
<1>1. Types
  BY TypesInit
<1>2. /\ log = << >> /\ DOMAIN log = {} /\ Len(log) = 0 /\ slot = 0 /\ counter = 0
      /\ phase = "opening" /\ \A t \in Task : pc[t] = "idle" /\ op[t].tool = "none"
  BY DEF Init, NoDecision, NoOp
<1>3. ToolInv /\ ConsentInv /\ ExitInv
  BY <1>2 DEF ToolInv, ConsentInv, ExitInv, InGate
<1>4. \A E : Where(log, E) = {}
  BY <1>2 DEF Where
<1>6. NextDecision = 1
  <2>1. NextDecision = 1 + Cardinality(Where(log, DecisionsTaken))
    BY <1>1, NextDecisionIs DEF Types
  <2> QED
    BY <2>1, <1>4, FS_EmptySet
<1>7. LinkInv
  BY <1>2, <1>6 DEF LinkInv, Carrying
<1>8. Users = {}
  BY <1>2 DEF Users, Logging
<1>9. Calls(log, Len(log), slot)
  BY <1>2 DEF Calls, Before, NoDecision
<1>10. SeriesInv
  BY <1>2, <1>8, <1>9, FS_EmptySet DEF SeriesInv, Carrying
<1> QED
  BY <1>1, <1>3, <1>7, <1>10 DEF IInv

LEMMA InvStep ==
    ASSUME IInv, [Next]_vars
    PROVE  IInv'
<1>1. Types /\ ToolInv /\ ConsentInv /\ ExitInv /\ LinkInv /\ SeriesInv
  BY DEF IInv
<1>2. Types'
  BY <1>1, TypesStep
<1>3. ToolInv'
  BY <1>1, ToolStep
<1>4. ConsentInv'
  BY <1>1, ConsentStep
<1>6. ExitInv'
  BY <1>1, ExitStep
<1>7. LinkInv'
  BY <1>1, <1>2, LinkStep
<1>8. SeriesInv'
  BY <1>1, SeriesStep
<1> QED
  BY <1>2, <1>3, <1>4, <1>6, <1>7, <1>8 DEF IInv

LEMMA InvHolds == Spec => []IInv
BY InvInit, InvStep, PTL DEF Spec

LEMMA LatestIsLast ==
    ASSUME Types, NEW t, NEW kind, NEW i, Latest(log, t, kind, i)
    PROVE  LastOf(t, kind) = i
<1> DEFINE mine == {k \in DOMAIN log : log[k].task = t /\ log[k].kind = kind}
           last == CHOOSE k \in mine : \A j \in mine : j <= k
<1>1. i \in mine /\ \A j \in mine : j <= i
  BY DEF Latest
<1>2. \A j \in mine : j \in Nat
  BY LogElements DEF Types
<1> HIDE DEF mine
<1>3. last \in mine /\ \A j \in mine : j <= last
  BY <1>1, Zenon
<1>4. last <= i /\ i <= last
  BY <1>1, <1>3
<1> HIDE DEF last
<1>5. last = i
  BY <1>1, <1>2, <1>3, <1>4
<1> QED
  BY <1>5, Zenon DEF LastOf, last, mine

LEMMA InvImplies ==
    ASSUME IInv
    PROVE  DecisionLinks /\ OutcomeIsKept /\ ConsentBeforeTool /\ ExitIsComplete
<1>1. DecisionLinks
  BY LinkInvLinksOnce, SeriesInvLinks DEF IInv, DecisionLinks
<1>0. Types /\ ToolInv
  BY DEF IInv
<1>2. OutcomeIsKept
  <2>1. ASSUME NEW t \in Task, HasAction(log, t, op[t].seen)
        PROVE  log[LastOf(t, "action")].fate = op[t].seen
    BY <1>0, <2>1, LatestIsLast DEF HasAction
  <2> QED
    BY <1>0, <2>1 DEF ToolInv, Captured, OutcomeIsKept
<1>3. ASSUME NEW t \in Task, pc[t] = "gated tool"
      PROVE  /\ op[t].approved
             /\ log[LastOf(t, "pending")] = Envelope(t, "pending", "taken", op[t].link)
             /\ jsonl => log[LastOf(t, "approval")].fate # "lost"
  <2>1. op[t].approved /\ HasPending(log, t, op[t].link) /\ (jsonl => HasApproval(log, t))
    BY <1>3 DEF IInv, ConsentInv, InGate
  <2>2. Types
    BY DEF IInv
  <2>3. log[LastOf(t, "pending")] = Envelope(t, "pending", "taken", op[t].link)
    BY <2>1, <2>2, LatestIsLast DEF HasPending
  <2>4. ASSUME jsonl
        PROVE  log[LastOf(t, "approval")].fate # "lost"
    BY <2>1, <2>2, <2>4, LatestIsLast DEF HasApproval
  <2> QED
    BY <2>1, <2>3, <2>4
<1>4. ConsentBeforeTool
  BY <1>3 DEF ConsentBeforeTool
<1>6. ExitIsComplete
  <2>1. Closes = {} \/ \E i : Closes = {i}
    BY DEF IInv, ExitInv, Closes
  <2>2. Cardinality(Closes) <= 1
    <3>1. Cardinality(Closes) = 0 \/ Cardinality(Closes) = 1
      BY <2>1, FS_EmptySet, FS_Singleton
    <3> QED
      BY <3>1
  <2>3. phase = "ended" /\ ~cut =>
            (\E i \in Closes : log[i].fate = IF raised THEN "failed" ELSE "completed") /\ closed
    BY DEF IInv, ExitInv, Closes
  <2> QED
    BY <2>2, <2>3 DEF ExitIsComplete
<1> QED
  BY <1>1, <1>2, <1>4, <1>6

(* A decision is carried by at most one action, whatever the interleaving of *)
(* tasks, failures and cancellations, and in a session that one task uses by *)
(* the action that follows it (context.py, _consume_pending_decision_id).    *)
THEOREM DecisionsLinkOnce == Spec => []DecisionLinks
<1>1. IInv => DecisionLinks
  BY InvImplies
<1> QED
  BY <1>1, InvHolds, PTL

(* The caller of a traced function gets its tool's outcome whatever the      *)
(* client answered, but for the loss of this call's own record, a            *)
(* cancellation while it was being sent, and a result that could not be      *)
(* captured (decorator.py, _emit_action_record and _try_ingest).             *)
THEOREM CallerGetsOutcome == Spec => []OutcomeIsKept
<1>1. IInv => OutcomeIsKept
  BY InvImplies
<1> QED
  BY <1>1, InvHolds, PTL

(* A gated tool runs only with a human's consent, its pending row taken      *)
(* under the right decision and, on the JSONL backend, an approval record    *)
(* that was not lost (decorator.py, the gated wrappers).                     *)
THEOREM GatedToolHasConsent == Spec => []ConsentBeforeTool
<1>1. IInv => ConsentBeforeTool
  BY InvImplies
<1> QED
  BY <1>1, InvHolds, PTL

(* A session that ended without a second cancellation has sent exactly one   *)
(* SESSION_CLOSE, with the status of its body, and closed its own client     *)
(* (session.py, the finally block).                                          *)
THEOREM ExitsAreComplete == Spec => []ExitIsComplete
<1>1. IInv => ExitIsComplete
  BY InvImplies
<1> QED
  BY <1>1, InvHolds, PTL

================================================================================
