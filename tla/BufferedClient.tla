----------------------------- MODULE BufferedClient -----------------------------
(***************************************************************************)
(* BufferedIngestClient (rootsign/sdk/buffered_client.py): the buffer, its *)
(* background flush loop, inline flushes and close(), around any inner     *)
(* client.                                                                 *)
(*                                                                         *)
(* Flushers are asyncio tasks: the agent's tasks that call handle(), the   *)
(* loop and the closer.  The buffer's lock guards no await, so it is never *)
(* contended: a flush runs from its first line into its first inner call   *)
(* as one step, and only inner calls and sleeps suspend.  A record is its  *)
(* position in the order of the handle() calls.                            *)
(***************************************************************************)
EXTENDS Integers, Sequences, SequencesExt

CONSTANTS
    Task,           \* the agent's tasks
    Loop, Closer,   \* the background flush task; the task in close()
    MaxRecords,     \* bound on handle() calls
    MaxBufferSize,  \* max_buffer_size
    Attempts,       \* _attempts(): 1 when the inner client owns the retry
    Inners          \* whether the inner clients have handle_batch

ASSUME BufferAssumption ==
    /\ MaxRecords \in Nat
    /\ MaxBufferSize \in Nat \ {0}
    /\ Attempts \in Nat \ {0}
    /\ Inners \subseteq BOOLEAN
    /\ Loop \notin Task /\ Closer \notin Task /\ Loop # Closer

VARIABLES
    batches,    \* the inner client has handle_batch
    kinds,      \* the envelopes given to handle(), in order
    buffer,     \* _buffer
    closed,     \* _closed
    pc,         \* flusher -> what it waits for
    job,        \* flusher -> the flush it is in
    attempted,  \* records in the order of their first inner call
    stored,     \* buffered records the inner client's store has
    refused,    \* records answered with a refusal that is not retried
    cancelled,  \* buffered records in the flush of a cancelled task
    handedOver  \* records given to handle() before close()

vars == <<batches, kinds, buffer, closed, pc, job, attempted, stored, refused, cancelled, handedOver>>

Flusher == Task \cup {Loop, Closer}

Record == 1 .. MaxRecords

(* pending: sent or still to send; failed: to be re-queued when the flush    *)
(* ends; tries: attempts used; own: the passthrough envelope behind it.      *)
NoJob == [pending |-> <<>>, failed |-> <<>>, tries |-> 0, own |-> 0]

(* _should_buffer: only auto-authorized ACTION_RECORDs are buffered.         *)
ShouldBuffer(kind) == kind = "auto"

(* What one inner call carries: the batch, or one envelope of it.            *)
Unit(q) == IF batches \/ q = <<>> THEN q ELSE <<Head(q)>>

(* The records of q that are not in S, in their order. *)
Without(q, S) ==
    LET kept[i \in 0 .. Len(q)] ==
            IF i = 0 THEN <<>>
            ELSE IF q[i] \in S THEN kept[i - 1] ELSE Append(kept[i - 1], q[i])
    IN  kept[Len(q)]

(* The inner call sees records it has not seen before; the cloud client      *)
(* seals them in this order, a store inserts them in it.                     *)
Seen(at, q) == at \o Without(q, ToSet(at))

-------------------------------------------------------------------------------
Init ==
    /\ batches \in Inners
    /\ kinds = <<>>
    /\ buffer = <<>>
    /\ closed = FALSE
    /\ pc = [f \in Flusher |-> IF f = Loop THEN "none" ELSE "idle"]
    /\ job = [f \in Flusher |-> NoJob]
    /\ attempted = <<>>
    /\ stored = {}
    /\ refused = {}
    /\ cancelled = {}
    /\ handedOver = 0

(* Mutant of StartLoop: only `async with` starts the loop. *)
NoLazyStart == pc[Loop]

(* start(), which handle() calls lazily and never after close().             *)
StartLoop == IF pc[Loop] = "none" /\ ~closed THEN "waiting" ELSE pc[Loop]

(* Where a flusher continues once its flush is over.                         *)
Resumed(f, own) ==
    CASE f = Loop -> "waiting"
      [] f = Closer -> "closed"
      [] f \in Task -> IF own = 0 THEN "idle" ELSE "passing"

(* flush(), from its lock to its first suspension, for a flusher that will   *)
(* then forward own (0: nothing) and finds q in the buffer.                  *)
Flush(f, q, own) ==
    /\ buffer' = <<>>
    /\ IF q = <<>>
       THEN /\ job' = [job EXCEPT ![f] = [NoJob EXCEPT !.own = own]]
            /\ pc' = [pc EXCEPT ![Loop] = StartLoop, ![f] = Resumed(f, own)]
            /\ attempted' = IF own = 0 THEN attempted ELSE Seen(attempted, <<own>>)
       ELSE /\ job' = [job EXCEPT ![f] = [pending |-> q, failed |-> <<>>, tries |-> 1, own |-> own]]
            /\ pc' = [pc EXCEPT ![Loop] = StartLoop, ![f] = "sending"]
            /\ attempted' = Seen(attempted, Unit(q))

(* handle() of a record that is buffered; the answer is a synthetic one.     *)
Buffer(t) ==
    /\ pc[t] = "idle"
    /\ Len(kinds) < MaxRecords
    /\ kinds' = Append(kinds, "auto")
    /\ LET q == Append(buffer, Len(kinds')) IN
       IF Len(q) >= MaxBufferSize
       THEN Flush(t, q, 0)
       ELSE /\ buffer' = q
            /\ pc' = [pc EXCEPT ![Loop] = StartLoop]
            /\ UNCHANGED <<job, attempted>>
    /\ UNCHANGED <<batches, closed, stored, refused, cancelled, handedOver>>

(* Mutant of Passthrough: the buffer is left to the loop. *)
PassthroughUnflushed(t) ==
    /\ pc[t] = "idle"
    /\ Len(kinds) < MaxRecords
    /\ kinds' = Append(kinds, "other")
    /\ job' = [job EXCEPT ![t] = [NoJob EXCEPT !.own = Len(kinds')]]
    /\ pc' = [pc EXCEPT ![Loop] = StartLoop, ![t] = "passing"]
    /\ attempted' = Append(attempted, Len(kinds'))
    /\ UNCHANGED <<batches, buffer, closed, stored, refused, cancelled, handedOver>>

(* handle() of any other envelope: the buffer first.                         *)
Passthrough(t) ==
    /\ pc[t] = "idle"
    /\ Len(kinds) < MaxRecords
    /\ kinds' = Append(kinds, "other")
    /\ Flush(t, buffer, Len(kinds'))
    /\ UNCHANGED <<batches, closed, stored, refused, cancelled, handedOver>>

(* The answer to a passthrough envelope goes to its caller: stored, refused  *)
(* or raised; the client keeps nothing of it.                                *)
PassthroughAnswer(t) ==
    /\ pc[t] = "passing"
    /\ pc' = [pc EXCEPT ![t] = "idle"]
    /\ job' = [job EXCEPT ![t] = NoJob]
    /\ UNCHANGED <<batches, kinds, buffer, closed, attempted, stored, refused, cancelled, handedOver>>

(* Mutant of Requeue: what is left after the last attempt is dropped. *)
DropFailed(failed) == buffer

(* extendleft(reversed(failed)): the failed records go to the FRONT.         *)
Requeue(failed) == failed \o buffer

(* The flush ends: re-queue, then the passthrough envelope behind it.        *)
EndFlush(f, failed) ==
    /\ buffer' = Requeue(failed)
    /\ pc' = [pc EXCEPT ![f] = Resumed(f, job[f].own)]
    /\ job' = [job EXCEPT ![f] = [NoJob EXCEPT !.own = job[f].own]]
    /\ attempted' = IF job[f].own = 0 THEN attempted ELSE Seen(attempted, <<job[f].own>>)

(* The elements to send again: a retryable rejection or no answer (a short   *)
(* array, an exception) of a batch, an exception of a single call.           *)
Unsent(ok, no, unit) == Without(unit, ok \cup no)

(* Another attempt, after a backoff sleep.                                   *)
MayRetry(tries) == tries < Attempts

(* An inner call returns: it accepted ok and refused no; the rest is retried *)
(* after a sleep until the attempts are used up, and may have landed.        *)
Answer(f) ==
    /\ pc[f] = "sending"
    /\ LET j    == job[f]
           unit == Unit(j.pending)
       IN \E ok \in SUBSET ToSet(unit) : \E no \in SUBSET (ToSet(unit) \ ok) :
            LET left == Unsent(ok, no, unit)
                rest == SubSeq(j.pending, Len(unit) + 1, Len(j.pending))
                fail == j.failed \o left
            IN /\ \E landed \in SUBSET ToSet(left) : stored' = stored \cup ok \cup landed
               /\ refused' = refused \cup no
               /\ \/ /\ left # <<>> /\ MayRetry(j.tries)
                     /\ job' = [job EXCEPT ![f].pending = left \o rest, ![f].tries = @ + 1]
                     /\ UNCHANGED <<buffer, pc, attempted>>
                  \/ /\ left = <<>> \/ ~MayRetry(j.tries)
                     /\ rest # <<>>
                     /\ job' = [job EXCEPT ![f] =
                                   [@ EXCEPT !.pending = rest, !.failed = fail, !.tries = 1]]
                     /\ attempted' = Seen(attempted, Unit(rest))
                     /\ UNCHANGED <<buffer, pc>>
                  \/ /\ left = <<>> \/ ~MayRetry(j.tries)
                     /\ rest = <<>>
                     /\ EndFlush(f, fail)
    /\ UNCHANGED <<batches, kinds, closed, cancelled, handedOver>>

(* _flush_loop: the interval is over and there is something to flush.        *)
LoopFlush ==
    /\ pc[Loop] = "waiting"
    /\ ~closed
    /\ buffer # <<>>
    /\ Flush(Loop, buffer, 0)
    /\ UNCHANGED <<batches, kinds, closed, stored, refused, cancelled, handedOver>>

(* The flush of a cancelled task ends with CancelledError: its batch is      *)
(* neither in the buffer nor re-queued; the call in flight may have landed.  *)
Abort(f) ==
    /\ cancelled' = cancelled \cup ToSet(job[f].pending) \cup ToSet(job[f].failed)
    /\ \E landed \in SUBSET ToSet(Unit(job[f].pending)) : stored' = stored \cup landed
    /\ job' = [job EXCEPT ![f] = NoJob]

(* An agent's task is cancelled in handle(). *)
CancelTask(t) ==
    /\ pc[t] \in {"sending", "passing"}
    /\ Abort(t)
    /\ pc' = [pc EXCEPT ![t] = "idle"]
    /\ UNCHANGED <<batches, kinds, buffer, closed, attempted, refused, handedOver>>

(* close() up to its await of the cancelled loop; without a loop nothing was *)
(* ever handled and there is nothing to flush.                               *)
Close ==
    /\ pc[Closer] = "idle"
    /\ closed' = TRUE
    /\ handedOver' = Len(kinds)
    /\ Abort(Loop)
    /\ pc' = [pc EXCEPT ![Loop] = "none",
                         ![Closer] = IF pc[Loop] = "none" THEN "closed" ELSE "closing"]
    /\ UNCHANGED <<batches, kinds, buffer, attempted, refused>>

(* Mutant of CloseFlush: close() only stops the loop. *)
CloseUnflushed ==
    /\ pc[Closer] = "closing"
    /\ pc' = [pc EXCEPT ![Closer] = "closed"]
    /\ UNCHANGED <<batches, kinds, buffer, closed, job, attempted, stored, refused, cancelled, handedOver>>

(* The rest of close(): the final flush, then the inner client's close.      *)
CloseFlush ==
    /\ pc[Closer] = "closing"
    /\ Flush(Closer, buffer, 0)
    /\ UNCHANGED <<batches, kinds, closed, stored, refused, cancelled, handedOver>>

Next ==
    \/ LoopFlush \/ Close \/ CloseFlush
    \/ \E f \in Flusher : Answer(f)
    \/ \E t \in Task : Buffer(t) \/ Passthrough(t) \/ PassthroughAnswer(t) \/ CancelTask(t)

Spec == Init /\ [][Next]_vars

(* The event loop resumes every task whose sleep or inner call is over, and  *)
(* inner calls end: their transports have time-outs.                         *)
Fairness == WF_vars(LoopFlush) /\ \A f \in Flusher : WF_vars(Answer(f))

FairSpec == Spec /\ Fairness

-------------------------------------------------------------------------------
(* Properties *)

(* "a passthrough envelope must never overtake a buffered Action" (line 16), *)
(* as it is said: whatever reaches the inner client, the actions handed over *)
(* before it reached it first.                                               *)
(* It does not hold of an inner client that takes records one by one.        *)
NeverOvertaken ==
    \A n \in DOMAIN attempted : \A r \in 1 .. attempted[n] - 1 :
        ShouldBuffer(kinds[r]) => \E m \in 1 .. n : attempted[m] = r

(* It is so for an inner client that takes whole batches, whichever of the   *)
(* concurrent flushes carried the actions.                                   *)
NoOvertaking == batches => NeverOvertaken

InFlight(f) == ToSet(job[f].pending) \cup ToSet(job[f].failed)

(* "guarantee a final flush on exit" (line 37), as it is said: after close() *)
(* a record handed over before it is stored or refused, or the client still  *)
(* holds it because its last attempt failed or is under way.                 *)
(* It does not hold.                                                         *)
FinalFlush ==
    pc[Closer] = "closed" =>
        \A r \in 1 .. handedOver : ShouldBuffer(kinds[r]) =>
            r \in stored \cup refused \cup ToSet(buffer) \cup UNION {InFlight(f) : f \in Flusher}

(* What close() does guarantee: no record that was handed over before it     *)
(* waits in the buffer for its first attempt.                                *)
CloseFlushes ==
    pc[Closer] = "closed" =>
        \A r \in 1 .. handedOver : r \in ToSet(buffer) => r \in ToSet(attempted)

(* A buffered record is sent without anyone asking for it, until close() or  *)
(* the cancellation of the task that took it into its flush.                 *)
EveryRecordAttempted ==
    \A r \in Record :
        (r \in ToSet(buffer)) ~> (r \in ToSet(attempted) \cup cancelled \/ closed)

(* The client as a store-and-forward component: what it holds is the buffer  *)
(* and the flushes under way.                                                *)
Promise == INSTANCE Delivery WITH
    held <- ToSet(buffer) \cup UNION {InFlight(f) : f \in Flusher},
    reached <- stored,
    abandoned <- cancelled

(* A buffered record leaves the client only when the store has it or has     *)
(* refused it for good; only the cancellation of a task in a flush gives     *)
(* records up.  Retries, overlapping flushes and the re-queue keep the rest. *)
ImplementsDelivery == Promise!Spec

================================================================================
