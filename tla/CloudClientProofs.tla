--------------------------- MODULE CloudClientProofs ---------------------------
(***************************************************************************)
(* Theorems about CloudClient, for any tasks, envelopes, sessions, retry   *)
(* bound, batch size, spool setting and loss policy.                       *)
(***************************************************************************)
EXTENDS CloudClient, VerdictProofs

Answer == {"new", "inflight", "accepted", "duplicate", "rejected", "retryable", "raised"}

Result == {"accepted", "duplicate", "rejected", "retryable"}

(* What a caller passes is a sequence of distinct sendable envelopes.        *)
LEMMA BatchesAreSequences ==
    ASSUME NEW b \in Batches
    PROVE  /\ b \in Seq(Envelope)
           /\ \A i \in DOMAIN b : b[i] \in Sendable
           /\ \A i, j \in DOMAIN b : b[i] = b[j] => i = j
<1>1. CASE b \in {<<e>> : e \in Sendable}
  <2>1. PICK e \in Sendable : b = <<e>>
    BY <1>1
  <2>2. e \in Envelope
    BY DEF Sendable
  <2> QED
    BY <2>1, <2>2
<1>2. CASE b \notin {<<e>> : e \in Sendable}
  <2>1. PICK n \in 2 .. MaxBatch : b \in [1 .. n -> {e \in Sendable : TypeOf[e] = "auto"}]
    BY <1>2 DEF Batches
  <2>2. n \in Nat /\ b \in [1 .. n -> Envelope] /\ \A i \in DOMAIN b : b[i] \in Sendable
    BY <2>1, CloudAssumption DEF Sendable
  <2>3. \A i, j \in DOMAIN b : i # j => b[i] # b[j]
    BY <1>2 DEF Batches
  <2> QED
    BY <2>2, <2>3
<1> QED
  BY <1>1, <1>2

(* One round of answers gives each of its envelopes one of its results.      *)
LEMMA SettledAnswer ==
    ASSUME TypeOK, NEW t \in Task, NEW res \in [todo[t] -> Result], Settle(t, res)
    PROVE  /\ answer' \in [Envelope -> Answer]
           /\ \A e \in Envelope :
                 \/ answer'[e] = answer[e]
                 \/ \E i \in todo[t] : batch[t][i] = e /\ answer'[e] = res[i]
<1>1. ASSUME NEW e \in Envelope
      PROVE  \/ answer'[e] = answer[e]
             \/ \E i \in todo[t] : batch[t][i] = e /\ answer'[e] = res[i]
  <2>1. CASE \E i \in todo[t] : batch[t][i] = e
    <3> DEFINE k == CHOOSE i \in todo[t] : batch[t][i] = e
    <3>1. k \in todo[t] /\ batch[t][k] = e
      BY <2>1
    <3>2. answer'[e] = res[k]
      BY <1>1, <2>1 DEF Settle, Results
    <3> QED
      BY <3>1, <3>2
  <2>2. CASE ~\E i \in todo[t] : batch[t][i] = e
    BY <1>1, <2>2 DEF Settle, Results
  <2> QED
    BY <2>1, <2>2
<1>2. \A e \in Envelope : answer[e] \in Answer
  BY DEF TypeOK, Answer
<1>3. \A e \in Envelope : answer'[e] \in Answer
  <2>1. Result \subseteq Answer
    BY DEF Result, Answer
  <2> QED
    BY <1>1, <1>2, <2>1
<1>4. answer' = [e \in Envelope |-> answer'[e]]
  BY DEF Settle, Results
<1> QED
  BY <1>1, <1>3, <1>4

-------------------------------------------------------------------------------
(* Types *)

LEMMA InitType == ASSUME Init PROVE TypeOK
<1>1. EmptyChain \in ChainStates(Envelope)
  BY DEF ChainStates, EmptyChain
<1>2. chains \in [Session -> ChainStates(Envelope)]
  BY <1>1 DEF Init
<1>3. <<>> \in Seq(Envelope)
  OBVIOUS
<1>4. file \in [Session -> Seq(Envelope)] /\ batch \in [Task -> Seq(Envelope)]
  BY <1>3 DEF Init
<1>5. \A t \in Task : todo[t] \subseteq DOMAIN batch[t]
  BY DEF Init
<1> QED
  BY <1>2, <1>4, <1>5 DEF Init, TypeOK

LEMMA HandleBatchType == ASSUME TypeOK, NEW t \in Task, HandleBatch(t) PROVE TypeOK'
<1>1. PICK b \in Batches :
          /\ batch' = [batch EXCEPT ![t] = b]
          /\ todo' = [todo EXCEPT ![t] = DOMAIN b]
          /\ answer' = [e \in Envelope |->
                           IF \E i \in DOMAIN b : b[i] = e THEN "inflight" ELSE answer[e]]
  BY DEF HandleBatch
<1>2. b \in Seq(Envelope)
  BY BatchesAreSequences
<1>3. answer' \in [Envelope -> Answer]
  BY <1>1 DEF TypeOK, Answer
<1>4. \A u \in Task : todo'[u] \subseteq DOMAIN batch'[u]
  BY <1>1 DEF TypeOK
<1> QED
  BY <1>1, <1>2, <1>3, <1>4 DEF HandleBatch, TypeOK, Answer, chainVars, storeVars

LEMMA SealType == ASSUME TypeOK, NEW t \in Task, Seal(t) PROVE TypeOK'
<1>1. PICK i \in DOMAIN batch[t] :
          /\ todo' = [todo EXCEPT ![t] = @ \ {i}]
          /\ IF IsAction(batch[t][i]) /\ ~Sealed(batch[t][i])
             THEN /\ seals' = [seals EXCEPT ![batch[t][i]] =
                                   MintedSeal(chains[SessionOf[batch[t][i]]])]
                  /\ chains' = [chains EXCEPT ![SessionOf[batch[t][i]]] =
                                   AfterMint(@, batch[t][i])]
             ELSE UNCHANGED chainVars
  BY DEF Seal, NeedsSeal
<1>2. batch[t][i] \in Envelope /\ SessionOf[batch[t][i]] \in Session
  BY CloudAssumption DEF TypeOK
<1>3. /\ MintedSeal(chains[SessionOf[batch[t][i]]]) \in [seq : Nat, prev : Envelope \cup {NoHash}]
      /\ AfterMint(chains[SessionOf[batch[t][i]]], batch[t][i]) \in ChainStates(Envelope)
  BY <1>2 DEF TypeOK, MintedSeal, AfterMint, ChainStates
<1>4. CASE IsAction(batch[t][i]) /\ ~Sealed(batch[t][i])
  <2>1. chains' \in [Session -> ChainStates(Envelope)]
    BY <1>1, <1>2, <1>3, <1>4 DEF TypeOK
  <2>2. seals' \in [Envelope -> [seq : Nat, prev : Envelope \cup {NoHash}]]
    BY <1>1, <1>2, <1>3, <1>4 DEF TypeOK
  <2> QED
    BY <1>1, <2>1, <2>2 DEF Seal, TypeOK, storeVars
<1>5. CASE ~(IsAction(batch[t][i]) /\ ~Sealed(batch[t][i]))
  BY <1>1, <1>5 DEF Seal, TypeOK, storeVars, chainVars
<1> QED
  BY <1>4, <1>5

LEMMA LeaveType ==
    ASSUME TypeOK, NEW t \in Task, Leave(t)
    PROVE  /\ pc' \in [Task -> {"idle", "seal", "post", "spool"}]
           /\ batch' \in [Task -> Seq(Envelope)]
           /\ \A u \in Task : todo'[u] \subseteq DOMAIN batch'[u]
           /\ DOMAIN todo' = Task
           /\ attempt' \in [Task -> Nat]
           /\ running' \in Task \cup {NoTask}
  BY DEF Leave, TypeOK

LEMMA SettleType ==
    ASSUME TypeOK, NEW t \in Task, NEW res \in [todo[t] -> Result], Settle(t, res),
           server' \subseteq Envelope, refused' \subseteq Envelope
    PROVE  TypeOK'
<1> DEFINE left == {i \in todo[t] : res[i] = "retryable"}
<1>1. answer' \in [Envelope -> Answer]
  BY SettledAnswer
<1>2. UNCHANGED <<chains, seals, file, handled, ledger, annotation>>
  BY DEF Settle, chainVars
<1>3. CASE Leave(t) /\ UNCHANGED spooling
  BY <1>1, <1>2, <1>3, LeaveType DEF TypeOK, Answer
<1>4. CASE /\ todo' = [todo EXCEPT ![t] = left]
           /\ attempt' = [attempt EXCEPT ![t] = @ + 1]
           /\ UNCHANGED <<spooling, pc, batch, running>>
  BY <1>1, <1>2, <1>4 DEF TypeOK, Answer
<1>5. CASE /\ spooling' = TRUE
           /\ todo' = [todo EXCEPT ![t] = left]
           /\ pc' = [pc EXCEPT ![t] = "spool"]
           /\ running' = t
           /\ UNCHANGED <<batch, attempt>>
  BY <1>1, <1>2, <1>5 DEF TypeOK, Answer
<1> QED
  BY <1>3, <1>4, <1>5 DEF Settle

(* The three ways a POST ends, and what the server has stored by then.       *)
LEMMA PostOutcome ==
    ASSUME TypeOK, NEW t \in Task, Post(t)
    PROVE  \E res \in [todo[t] -> Result] :
              /\ Settle(t, res)
              /\ server \subseteq server' /\ server' \subseteq Envelope
              /\ server' \subseteq server \cup {batch[t][i] : i \in todo[t]}
              /\ refused \subseteq refused' /\ refused' \subseteq Envelope
              /\ \A i \in todo[t] : res[i] \in {"accepted", "duplicate"} => batch[t][i] \in server'
              /\ \A i \in todo[t] : res[i] = "rejected" => batch[t][i] \in refused'
<1>1. \A i \in todo[t] : batch[t][i] \in Envelope
  BY DEF TypeOK
<1>2. CASE TransportFailure(t)
  <2>1. [i \in todo[t] |-> "retryable"] \in [todo[t] -> Result]
    BY DEF Result
  <2>2. Settle(t, [i \in todo[t] |-> "retryable"])
    BY <1>2 DEF TransportFailure
  <2>3. /\ server \subseteq server' /\ server' \subseteq Envelope /\ refused' = refused
        /\ server' \subseteq server \cup {batch[t][i] : i \in todo[t]}
    BY <1>1, <1>2 DEF TransportFailure, TypeOK
  <2> DEFINE res == [i \in todo[t] |-> "retryable"]
  <2>4. \A i \in todo[t] : res[i] \notin {"accepted", "duplicate", "rejected"}
    OBVIOUS
  <2> HIDE DEF res
  <2>5. res \in [todo[t] -> Result] /\ Settle(t, res)
    BY <2>1, <2>2 DEF res
  <2> QED
    BY <2>3, <2>4, <2>5 DEF TypeOK
<1>3. CASE BatchRefused(t)
  <2>1. [i \in todo[t] |-> "rejected"] \in [todo[t] -> Result]
    BY DEF Result
  <2>2. Settle(t, [i \in todo[t] |-> "rejected"])
    BY <1>3 DEF BatchRefused
  <2>3. /\ refused' = refused \cup {batch[t][i] : i \in todo[t]}
        /\ refused' \subseteq Envelope
        /\ server' = server
    BY <1>1, <1>3 DEF BatchRefused, TypeOK
  <2> DEFINE res == [i \in todo[t] |-> "rejected"]
  <2>4. \A i \in todo[t] : res[i] \notin {"accepted", "duplicate"}
    OBVIOUS
  <2> HIDE DEF res
  <2>5. res \in [todo[t] -> Result] /\ Settle(t, res)
    BY <2>1, <2>2 DEF res
  <2> QED
    BY <2>3, <2>4, <2>5 DEF TypeOK
<1>4. CASE BatchAnswered(t)
  <2>1. PICK res \in [todo[t] -> Result] :
            /\ \A i \in todo[t] :
                  IF batch[t][i] \in server
                  THEN res[i] \in {"accepted", "duplicate"}
                  ELSE res[i] # "duplicate"
            /\ server' = server \cup {batch[t][i] : i \in {j \in todo[t] : res[j] = "accepted"}}
            /\ refused' = refused \cup {batch[t][i] : i \in {j \in todo[t] : res[j] = "rejected"}}
            /\ Settle(t, res)
    BY <1>4 DEF BatchAnswered, Result
  <2>2. \A i \in todo[t] : res[i] \in {"accepted", "duplicate"} => batch[t][i] \in server'
    BY <2>1
  <2>3. \A i \in todo[t] : res[i] = "rejected" => batch[t][i] \in refused'
    BY <2>1
  <2>4. /\ server' \subseteq Envelope /\ refused' \subseteq Envelope
        /\ server' \subseteq server \cup {batch[t][i] : i \in todo[t]}
    BY <1>1, <2>1 DEF TypeOK
  <2> QED
    BY <2>1, <2>2, <2>3, <2>4
<1> QED
  BY <1>2, <1>3, <1>4 DEF Post

(* The three spool steps, seen at the envelope e they handle.                *)
LEMMA SpoolStep ==
    ASSUME TypeOK, NEW t \in Task, SpoolDuplicate(t) \/ SpoolWrite(t) \/ SpoolWriteFailure(t)
    PROVE  \E i \in todo[t] : \E e \in Envelope :
              /\ e = batch[t][i] /\ pc[t] = "spool" /\ running = t
              /\ UNCHANGED <<seals, spooling, server, refused>>
              /\ \/ UNCHANGED chains
                 \/ AdoptSeal(e)
              /\ UNCHANGED file \/ AppendLine(e)
              /\ \/ e \in handled /\ UNCHANGED <<file, handled, ledger>>
                    /\ answer' = [answer EXCEPT ![e] = "duplicate"]
                    /\ FlushLedger(e) /\ SpoolNext(t, i)
                 \/ AppendLine(e) /\ handled' = handled \cup {e} /\ UNCHANGED ledger
                    /\ answer' = [answer EXCEPT ![e] = "accepted"]
                    /\ FlushLedger(e) /\ SpoolNext(t, i)
                 \/ UNCHANGED handled /\ RecordLoss(e)
                    /\ \/ Raise(t) /\ UNCHANGED annotation
                       \/ /\ ~IsControl(e)
                          /\ answer' = [answer EXCEPT ![e] = "rejected"]
                          /\ FlushLedger(e) /\ SpoolNext(t, i)
<1>1. CASE SpoolDuplicate(t)
  <2>1. PICK i \in DOMAIN batch[t] :
            /\ Slot(t, i) /\ batch[t][i] \in handled
            /\ answer' = [answer EXCEPT ![batch[t][i]] = "duplicate"]
            /\ UNCHANGED ledger
            /\ FlushLedger(batch[t][i]) /\ SpoolNext(t, i)
    BY <1>1 DEF SpoolDuplicate
  <2>2. i \in todo[t] /\ batch[t][i] \in Envelope
    BY <2>1 DEF Slot, TypeOK
  <2>3. /\ pc[t] = "spool" /\ running = t
        /\ UNCHANGED <<seals, spooling, server, refused, chains, file, handled>>
    BY <1>1 DEF SpoolDuplicate, chainVars
  <2> QED
    BY <2>1, <2>2, <2>3
<1>2. CASE SpoolWrite(t)
  <2>1. PICK i \in DOMAIN batch[t] :
            /\ Slot(t, i)
            /\ AdoptSeal(batch[t][i])
            /\ AppendLine(batch[t][i])
            /\ handled' = handled \cup {batch[t][i]}
            /\ answer' = [answer EXCEPT ![batch[t][i]] = "accepted"]
            /\ UNCHANGED ledger
            /\ FlushLedger(batch[t][i]) /\ SpoolNext(t, i)
    BY <1>2 DEF SpoolWrite
  <2>2. i \in todo[t] /\ batch[t][i] \in Envelope
    BY <2>1 DEF Slot, TypeOK
  <2>3. /\ pc[t] = "spool" /\ running = t
        /\ UNCHANGED <<seals, spooling, server, refused>>
    BY <1>2 DEF SpoolWrite
  <2> QED
    BY <2>1, <2>2, <2>3
<1>3. CASE SpoolWriteFailure(t)
  <2>1. PICK i \in DOMAIN batch[t] :
            /\ Slot(t, i)
            /\ AdoptSeal(batch[t][i])
            /\ UNCHANGED file \/ AppendLine(batch[t][i])
            /\ RecordLoss(batch[t][i])
            /\ \/ Raise(t) /\ UNCHANGED annotation
               \/ /\ ~IsControl(batch[t][i])
                  /\ answer' = [answer EXCEPT ![batch[t][i]] = "rejected"]
                  /\ FlushLedger(batch[t][i]) /\ SpoolNext(t, i)
    BY <1>3 DEF SpoolWriteFailure, RaisesOnLoss
  <2>2. i \in todo[t] /\ batch[t][i] \in Envelope
    BY <2>1 DEF Slot, TypeOK
  <2>3. /\ pc[t] = "spool" /\ running = t
        /\ UNCHANGED <<seals, spooling, server, refused, handled>>
    BY <1>3 DEF SpoolWriteFailure
  <2> QED
    BY <2>1, <2>2, <2>3
<1> QED
  BY <1>1, <1>2, <1>3

LEMMA AdoptType ==
    ASSUME TypeOK, NEW e \in Envelope, AdoptSeal(e)
    PROVE  chains' \in [Session -> ChainStates(Envelope)]
<1>1. SessionOf[e] \in Session
  BY CloudAssumption
<1>2. AfterAdopt(chains[SessionOf[e]], e, seals[e].seq) \in ChainStates(Envelope)
  BY <1>1 DEF AfterAdopt, ChainStates, TypeOK
<1> QED
  BY <1>1, <1>2 DEF AdoptSeal, TypeOK

LEMMA SpoolNextType ==
    ASSUME TypeOK, NEW t \in Task, NEW i, SpoolNext(t, i)
    PROVE  /\ UNCHANGED <<pc, batch, attempt, running>>
           /\ \A u \in Task : todo'[u] \subseteq DOMAIN batch'[u]
           /\ DOMAIN todo' = Task
  BY DEF SpoolNext, TypeOK

LEMMA SpoolType ==
    ASSUME TypeOK, NEW t \in Task, SpoolDuplicate(t) \/ SpoolWrite(t) \/ SpoolWriteFailure(t)
    PROVE  TypeOK'
<1>1. PICK i \in todo[t], e \in Envelope :
          /\ UNCHANGED <<seals, spooling, server, refused>>
          /\ UNCHANGED chains \/ AdoptSeal(e)
          /\ UNCHANGED file \/ AppendLine(e)
          /\ handled' \in {handled, handled \cup {e}}
          /\ \/ UNCHANGED ledger
                /\ answer' = [answer EXCEPT ![e] = "duplicate"]
                /\ FlushLedger(e) /\ SpoolNext(t, i)
             \/ UNCHANGED ledger
                /\ answer' = [answer EXCEPT ![e] = "accepted"]
                /\ FlushLedger(e) /\ SpoolNext(t, i)
             \/ RecordLoss(e)
                /\ \/ Raise(t) /\ UNCHANGED annotation
                   \/ /\ answer' = [answer EXCEPT ![e] = "rejected"]
                      /\ FlushLedger(e) /\ SpoolNext(t, i)
  BY SpoolStep
<1>2. SessionOf[e] \in Session
  BY CloudAssumption
<1>3. chains' \in [Session -> ChainStates(Envelope)]
  BY <1>1, AdoptType DEF TypeOK
<1>4. ledger' \in [Session -> SUBSET Envelope] /\ handled' \subseteq Envelope
  <2> DEFINE tally == ledger[SessionOf[e]] \cup {e}
  <2>1. ledger' = ledger \/ ledger' = [ledger EXCEPT ![SessionOf[e]] = tally]
    BY <1>1 DEF RecordLoss
  <2>2. tally \in SUBSET Envelope
    BY <1>2 DEF TypeOK
  <2> HIDE DEF tally
  <2>3. ledger' \in [Session -> SUBSET Envelope]
    BY <1>2, <2>1, <2>2 DEF TypeOK
  <2>4. handled' = handled \/ handled' = handled \cup {e}
    BY <1>1
  <2> QED
    BY <2>3, <2>4 DEF TypeOK
<1>5. file' \in [Session -> Seq(Envelope)]
  <2>1. file' = file \/ file' = [file EXCEPT ![SessionOf[e]] = Append(@, e)]
    BY <1>1 DEF AppendLine
  <2>2. Append(file[SessionOf[e]], e) \in Seq(Envelope)
    BY <1>2 DEF TypeOK
  <2> QED
    BY <1>2, <2>1, <2>2 DEF TypeOK
<1>6. ASSUME FlushLedger(e) PROVE annotation' \in [Session -> SUBSET Envelope]
  <2>1. \/ annotation' = annotation
        \/ annotation' = [annotation EXCEPT ![SessionOf[e]] = @ \cup ledger'[SessionOf[e]]]
    BY <1>6 DEF FlushLedger
  <2>2. ledger'[SessionOf[e]] \in SUBSET Envelope
    BY <1>2, <1>4
  <2> DEFINE tally == annotation[SessionOf[e]] \cup ledger'[SessionOf[e]]
  <2>3. tally \in SUBSET Envelope
    BY <1>2, <2>2 DEF TypeOK
  <2>4. annotation' = annotation \/ annotation' = [annotation EXCEPT ![SessionOf[e]] = tally]
    BY <2>1
  <2> HIDE DEF tally
  <2> QED
    BY <1>2, <2>3, <2>4 DEF TypeOK
<1>7. annotation' \in [Session -> SUBSET Envelope]
  BY <1>1, <1>6 DEF TypeOK
<1>8. CASE Raise(t)
  <2>1. answer' \in [Envelope -> Answer]
    BY <1>8 DEF Raise, TypeOK, Answer
  <2>2. Leave(t)
    BY <1>8 DEF Raise
  <2> QED
    BY <1>1, <1>3, <1>4, <1>5, <1>7, <2>1, <2>2, LeaveType DEF TypeOK, Answer
<1>9. CASE /\ SpoolNext(t, i)
           /\ \E a \in {"duplicate", "accepted", "rejected"} :
                 answer' = [answer EXCEPT ![e] = a]
  <2>1. answer' \in [Envelope -> Answer]
    BY <1>9 DEF TypeOK, Answer
  <2> QED
    BY <1>1, <1>3, <1>4, <1>5, <1>7, <1>9, <2>1, SpoolNextType DEF TypeOK, Answer
<1> QED
  BY <1>1, <1>8, <1>9

LEMMA TypeStep == ASSUME TypeOK, [Next]_vars PROVE TypeOK'
<1>1. CASE UNCHANGED vars
  BY <1>1 DEF vars, chainVars, storeVars, taskVars, TypeOK
<1>2. ASSUME NEW t \in Task, Post(t) PROVE TypeOK'
  BY <1>2, PostOutcome, SettleType
<1>3. ASSUME NEW t \in Task, Dispatch(t) PROVE TypeOK'
  BY <1>3 DEF Dispatch, TypeOK, chainVars, storeVars
<1>4. ASSUME NEW t \in Task, SpoolDone(t) PROVE TypeOK'
  BY <1>4, LeaveType DEF SpoolDone, TypeOK, chainVars, storeVars
<1> QED
  BY <1>1, <1>2, <1>3, <1>4, HandleBatchType, SealType, SpoolType DEF Next, Compute

(* The variables keep their types. *)
THEOREM TypeCorrect == Spec => []TypeOK
<1> QED
  BY InitType, TypeStep, PTL DEF Spec

-------------------------------------------------------------------------------
(* Numbering *)

(* Which steps touch the chain: one that mints a seal, and the spool's       *)
(* adoption of one.                                                          *)
Mints(e) ==
    /\ IsAction(e) /\ ~Sealed(e)
    /\ seals' = [seals EXCEPT ![e] = MintedSeal(chains[SessionOf[e]])]
    /\ chains' = [chains EXCEPT ![SessionOf[e]] = AfterMint(@, e)]

Adopts(e) == AdoptSeal(e) /\ UNCHANGED seals

LEMMA SealEffect ==
    ASSUME TypeOK, NEW t \in Task, Seal(t)
    PROVE  \E i \in todo[t] :
              /\ \A j \in todo[t] : i <= j
              /\ todo' = [todo EXCEPT ![t] = @ \ {i}]
              /\ \/ Mints(batch[t][i])
                 \/ UNCHANGED chainVars /\ (IsAction(batch[t][i]) => Sealed(batch[t][i]))
<1>1. PICK i \in DOMAIN batch[t] :
          /\ Slot(t, i)
          /\ todo' = [todo EXCEPT ![t] = @ \ {i}]
          /\ IF IsAction(batch[t][i]) /\ ~Sealed(batch[t][i])
             THEN /\ seals' = [seals EXCEPT ![batch[t][i]] =
                                   MintedSeal(chains[SessionOf[batch[t][i]]])]
                  /\ chains' = [chains EXCEPT ![SessionOf[batch[t][i]]] =
                                   AfterMint(@, batch[t][i])]
             ELSE UNCHANGED chainVars
  BY DEF Seal, NeedsSeal
<1> QED
  BY <1>1 DEF Slot, Mints

LEMMA ChainEffect ==
    ASSUME TypeOK, [Next]_vars
    PROVE  \/ UNCHANGED chainVars
           \/ \E e \in Envelope : Mints(e)
           \/ \E e \in Envelope : Adopts(e)
<1>1. CASE UNCHANGED vars
  BY <1>1 DEF vars
<1>2. ASSUME NEW t \in Task, HandleBatch(t) PROVE UNCHANGED chainVars
  BY <1>2 DEF HandleBatch
<1>3. ASSUME NEW t \in Task, Seal(t)
      PROVE  UNCHANGED chainVars \/ \E e \in Envelope : Mints(e)
  <2>1. \A i \in todo[t] : batch[t][i] \in Envelope
    BY DEF TypeOK
  <2> QED
    BY <1>3, <2>1, SealEffect
<1>4. ASSUME NEW t \in Task, Post(t) PROVE UNCHANGED chainVars
  BY <1>4, PostOutcome DEF Settle
<1>5. ASSUME NEW t \in Task, SpoolDuplicate(t) \/ SpoolWrite(t) \/ SpoolWriteFailure(t)
      PROVE  UNCHANGED chainVars \/ \E e \in Envelope : Adopts(e)
  BY <1>5, SpoolStep DEF Adopts, chainVars
<1>6. ASSUME NEW t \in Task, Dispatch(t) \/ SpoolDone(t) PROVE UNCHANGED chainVars
  BY <1>6 DEF Dispatch, SpoolDone
<1> QED
  BY <1>1, <1>2, <1>3, <1>4, <1>5, <1>6 DEF Next, Compute

(* No record is numbered beyond its session's count: so the next number is   *)
(* fresh, and adopting a seal never moves the count.                         *)
CountBounds == \A e \in Envelope : seals[e].seq <= chains[SessionOf[e]].count

Numbering == DenseNumbering /\ CountBounds

(* Minting, pointwise. *)
LEMMA MintPointwise ==
    ASSUME TypeOK, NEW e \in Envelope, Mints(e)
    PROVE  /\ SessionOf[e] \in Session
           /\ chains[SessionOf[e]].count \in Nat
           /\ seals'[e] = [seq |-> chains[SessionOf[e]].count + 1,
                           prev |-> chains[SessionOf[e]].tail]
           /\ chains'[SessionOf[e]] = [tail |-> e, count |-> chains[SessionOf[e]].count + 1]
           /\ \A f \in Envelope : f # e => seals'[f] = seals[f]
           /\ \A s \in Session : s # SessionOf[e] => chains'[s] = chains[s]
<1>1. SessionOf[e] \in Session
  BY CloudAssumption
<1>2. chains[SessionOf[e]].count \in Nat
  BY <1>1 DEF TypeOK, ChainStates
<1>3. seals'[e] = MintedSeal(chains[SessionOf[e]])
  BY DEF Mints, TypeOK
<1>4. chains'[SessionOf[e]] = AfterMint(chains[SessionOf[e]], e)
  BY <1>1 DEF Mints, TypeOK
<1>5. \A f \in Envelope : f # e => seals'[f] = seals[f]
  BY DEF Mints, TypeOK
<1>6. \A s \in Session : s # SessionOf[e] => chains'[s] = chains[s]
  BY DEF Mints, TypeOK
<1> QED
  BY <1>1, <1>2, <1>3, <1>4, <1>5, <1>6 DEF MintedSeal, AfterMint

(* Adopting, pointwise: only the tail can move. *)
LEMMA AdoptPointwise ==
    ASSUME TypeOK, CountBounds, NEW e \in Envelope, Adopts(e)
    PROVE  /\ seals' = seals
           /\ \A s \in Session : chains'[s].count = chains[s].count
           /\ \A s \in Session :
                 chains'[s] = chains[s] \/ (IsAction(e) /\ s = SessionOf[e]
                                             /\ chains'[s].tail = e)
<1>1. CASE IsAction(e)
  <2>1. SessionOf[e] \in Session /\ seals[e].seq <= chains[SessionOf[e]].count
    BY CloudAssumption DEF CountBounds
  <2>2. /\ chains' = [chains EXCEPT ![SessionOf[e]] =
                          AfterAdopt(chains[SessionOf[e]], e, seals[e].seq)]
        /\ seals' = seals
    BY <1>1 DEF Adopts, AdoptSeal
  <2>3. AfterAdopt(chains[SessionOf[e]], e, seals[e].seq)
            = [tail |-> e, count |-> chains[SessionOf[e]].count]
    <3>1. seals[e].seq \in Nat /\ chains[SessionOf[e]].count \in Nat
      BY <2>1 DEF TypeOK, ChainStates
    <3>2. ~(seals[e].seq > chains[SessionOf[e]].count)
      BY <2>1, <3>1
    <3> QED
      BY <3>2 DEF AfterAdopt
  <2> QED
    BY <1>1, <2>1, <2>2, <2>3 DEF TypeOK
<1>2. CASE ~IsAction(e)
  BY <1>2 DEF Adopts, AdoptSeal
<1> QED
  BY <1>1, <1>2

LEMMA NumberingStep == ASSUME TypeOK, Numbering, [Next]_vars PROVE Numbering'
<1>1. CASE UNCHANGED chainVars
  BY <1>1 DEF chainVars, Numbering, DenseNumbering, CountBounds, Sealed
<1>2. ASSUME NEW e \in Envelope, Adopts(e) PROVE Numbering'
  <2>1. seals' = seals /\ \A s \in Session : chains'[s].count = chains[s].count
    BY <1>2, AdoptPointwise DEF Numbering
  <2>2. \A f \in Envelope : SessionOf[f] \in Session
    BY CloudAssumption
  <2> QED
    BY <2>1, <2>2 DEF Numbering, DenseNumbering, CountBounds, Sealed
<1>3. ASSUME NEW e \in Envelope, Mints(e) PROVE Numbering'
  <2> DEFINE s == SessionOf[e]
             c == chains[s].count
  <2>1. /\ s \in Session /\ c \in Nat
        /\ seals'[e].seq = c + 1
        /\ chains'[s].count = c + 1
        /\ \A f \in Envelope : f # e => seals'[f] = seals[f]
        /\ \A x \in Session : x # s => chains'[x] = chains[x]
    <3>1. /\ seals'[e] = [seq |-> c + 1, prev |-> chains[s].tail]
          /\ chains'[s] = [tail |-> e, count |-> c + 1]
      BY <1>3, MintPointwise
    <3>2. seals'[e].seq = c + 1 /\ chains'[s].count = c + 1
      BY <3>1
    <3> QED
      BY <1>3, <3>2, MintPointwise
  <2>2. \A f \in Envelope : SessionOf[f] \in Session /\ seals[f].seq \in Nat
    BY CloudAssumption DEF TypeOK
  <2>3. seals[e].seq = 0
    BY <1>3, <2>2 DEF Mints, Sealed
  <2>4. \A f \in Envelope : SessionOf[f] = s => seals[f].seq <= c
    BY DEF Numbering, CountBounds
  <2>5. CountBounds'
    BY <2>1, <2>2, <2>4 DEF Numbering, CountBounds
  <2>6. \A f, g \in Envelope :
            Sealed(f)' /\ Sealed(g)' /\ SessionOf[f] = SessionOf[g]
                /\ seals'[f].seq = seals'[g].seq => f = g
    BY <2>1, <2>2, <2>4 DEF Numbering, DenseNumbering, Sealed
  <2>7. ASSUME NEW x \in Session, NEW n \in 1 .. chains'[x].count
        PROVE  \E f \in Envelope : SessionOf[f] = x /\ seals'[f].seq = n
    <3>1. CASE x = s /\ n = c + 1
      BY <2>1, <3>1
    <3>2. CASE ~(x = s /\ n = c + 1)
      <4>1. n \in 1 .. chains[x].count
        BY <2>1, <2>7, <3>2
      <4>2. PICK f \in Envelope : SessionOf[f] = x /\ seals[f].seq = n
        BY <4>1 DEF Numbering, DenseNumbering
      <4>3. f # e
        BY <2>3, <4>1, <4>2
      <4> QED
        BY <2>1, <4>2, <4>3
    <3> QED
      BY <3>1, <3>2
  <2> QED
    BY <2>5, <2>6, <2>7 DEF Numbering, DenseNumbering
<1> QED
  BY <1>1, <1>2, <1>3, ChainEffect

LEMMA InitNumbering == ASSUME Init PROVE Numbering
  BY CloudAssumption DEF Init, Numbering, DenseNumbering, CountBounds, EmptyChain, Sealed

(* A session's actions are numbered 1, 2, 3, ... whatever the tasks, retries *)
(* and failovers do (ChainState.seal and _adopt, HttpIngestClient._seal).    *)
THEOREM NumberingIsDense == Spec => []DenseNumbering
<1>1. Spec => []Numbering
  BY InitNumbering, NumberingStep, TypeCorrect, PTL DEF Spec
<1> QED
  BY <1>1, PTL DEF Numbering

LEMMA SealKept ==
    ASSUME TypeOK, [Next]_vars, NEW e \in Envelope, Sealed(e)
    PROVE  seals'[e] = seals[e]
<1>1. ASSUME NEW f \in Envelope, Mints(f) PROVE seals'[e] = seals[e]
  <2>1. f # e
    BY <1>1 DEF Mints
  <2> QED
    BY <1>1, <2>1, MintPointwise
<1> QED
  BY <1>1, ChainEffect DEF Adopts, chainVars

(* A record keeps the chain fields it was first given, however often it is   *)
(* sent, spooled or adopted.                                                 *)
THEOREM SealsAreFinal == Spec => SealIsFinal
<1>1. ASSUME TypeOK, [Next]_vars
      PROVE  [\A e \in Envelope : Sealed(e) => seals'[e] = seals[e]]_vars
  BY <1>1, SealKept
<1> QED
  BY <1>1, TypeCorrect, PTL DEF Spec, SealIsFinal

-------------------------------------------------------------------------------
(* Answers and losses *)

Accounted(e) == e \in ledger[SessionOf[e]]

(* What a step may do to the stores: they only grow, the spool enters an     *)
(* event as handled once its line is in the file, and the ledger never takes *)
(* a control record.                                                         *)
StoresGrow(e) ==
    /\ Spooled(e) => Spooled(e)'
    /\ e \in server => e \in server'
    /\ e \in handled' => e \in handled \/ Spooled(e)'
    /\ e \in refused => e \in refused'
    /\ Accounted(e) => Accounted(e)'
    /\ Accounted(e)' => Accounted(e) \/ ~IsControl(e)

(* What a step may tell the caller about an envelope, and what must then     *)
(* hold.                                                                     *)
AnswerBacked(e) ==
    \/ answer'[e] = answer[e]
    \/ answer'[e] \in {"inflight", "raised", "retryable"}
    \/ answer'[e] \in {"accepted", "duplicate"} /\ (Durable(e)' \/ e \in handled)
    \/ answer'[e] = "rejected" /\ e \in refused'
    \/ answer'[e] = "rejected" /\ ~IsControl(e) /\ Accounted(e)'

LEMMA AppendSpools ==
    ASSUME TypeOK, NEW e \in Envelope, AppendLine(e)
    PROVE  Spooled(e)' /\ \A f \in Envelope : Spooled(f) => Spooled(f)'
<1> DEFINE s == SessionOf[e]
           q == file[s]
<1>1. s \in Session /\ q \in Seq(Envelope)
  BY CloudAssumption DEF TypeOK
<1>2. /\ Len(Append(q, e)) = Len(q) + 1
      /\ Append(q, e)[Len(q) + 1] = e
      /\ \A i \in 1 .. Len(q) : Append(q, e)[i] = q[i]
      /\ DOMAIN Append(q, e) = 1 .. (Len(q) + 1)
      /\ DOMAIN q = 1 .. Len(q)
      /\ Len(q) \in Nat
  BY <1>1
<1>3. file'[s] = Append(q, e) /\ \A x \in Session : x # s => file'[x] = file[x]
  BY <1>1 DEF TypeOK, AppendLine
<1>4. Spooled(e)'
  BY <1>2, <1>3 DEF Spooled
<1>5. ASSUME NEW f \in Envelope, Spooled(f) PROVE Spooled(f)'
  <2>1. PICK i \in DOMAIN file[SessionOf[f]] : file[SessionOf[f]][i] = f
    BY <1>5 DEF Spooled
  <2>2. CASE SessionOf[f] = s
    <3>1. i \in DOMAIN file'[s] /\ file'[s][i] = f
      BY <1>2, <1>3, <2>1, <2>2
    <3> QED
      BY <2>2, <3>1 DEF Spooled
  <2>3. CASE SessionOf[f] # s
    <3>1. file'[SessionOf[f]] = file[SessionOf[f]]
      BY <1>3, <2>3, CloudAssumption
    <3> QED
      BY <2>1, <3>1 DEF Spooled
  <2> QED
    BY <2>2, <2>3
<1> QED
  BY <1>4, <1>5

LEMMA SpoolAccountable ==
    ASSUME TypeOK, NEW t \in Task, SpoolDuplicate(t) \/ SpoolWrite(t) \/ SpoolWriteFailure(t),
           NEW f \in Envelope
    PROVE  StoresGrow(f) /\ AnswerBacked(f)
<1>1. PICK i \in todo[t], e \in Envelope :
          /\ UNCHANGED <<server, refused>>
          /\ UNCHANGED file \/ AppendLine(e)
          /\ \/ e \in handled /\ UNCHANGED <<handled, ledger>>
                /\ answer' = [answer EXCEPT ![e] = "duplicate"]
             \/ AppendLine(e) /\ handled' = handled \cup {e} /\ UNCHANGED ledger
                /\ answer' = [answer EXCEPT ![e] = "accepted"]
             \/ UNCHANGED handled /\ RecordLoss(e)
                /\ \/ Raise(t)
                   \/ /\ ~IsControl(e)
                      /\ answer' = [answer EXCEPT ![e] = "rejected"]
  BY SpoolStep
<1>2. SessionOf[e] \in Session /\ SessionOf[f] \in Session
  BY CloudAssumption
<1>3. (Spooled(f) => Spooled(f)') /\ (AppendLine(e) => Spooled(e)')
  <2>1. CASE UNCHANGED file
    BY <2>1, AppendSpools DEF Spooled
  <2>2. CASE AppendLine(e)
    BY <2>2, AppendSpools
  <2> QED
    BY <1>1, <2>1, <2>2
<1>4. CASE e \in handled /\ UNCHANGED <<handled, ledger>>
           /\ answer' = [answer EXCEPT ![e] = "duplicate"]
  BY <1>1, <1>3, <1>4 DEF StoresGrow, AnswerBacked, Accounted, TypeOK
<1>5. CASE AppendLine(e) /\ handled' = handled \cup {e} /\ UNCHANGED ledger
           /\ answer' = [answer EXCEPT ![e] = "accepted"]
  BY <1>1, <1>3, <1>5 DEF StoresGrow, AnswerBacked, Durable, Accounted, TypeOK
<1>6. CASE /\ UNCHANGED handled /\ RecordLoss(e)
           /\ \/ Raise(t)
              \/ ~IsControl(e) /\ answer' = [answer EXCEPT ![e] = "rejected"]
  <2>1. StoresGrow(f)
    <3>1. /\ Accounted(f) => Accounted(f)'
          /\ Accounted(f)' => Accounted(f) \/ (f = e /\ ~IsControl(e))
      BY <1>2, <1>6 DEF Accounted, TypeOK, RecordLoss
    <3> QED
      BY <1>1, <1>3, <1>6, <3>1 DEF StoresGrow
  <2>2. CASE Raise(t)
    BY <2>1, <2>2 DEF Raise, AnswerBacked
  <2>3. CASE ~IsControl(e) /\ answer' = [answer EXCEPT ![e] = "rejected"]
    <3>1. Accounted(e)'
      BY <1>2, <1>6, <2>3 DEF Accounted, TypeOK, RecordLoss
    <3> QED
      BY <2>1, <2>3, <3>1 DEF AnswerBacked, TypeOK
  <2> QED
    BY <1>6, <2>1, <2>2, <2>3
<1> QED
  BY <1>1, <1>4, <1>5, <1>6

LEMMA Accountable ==
    ASSUME TypeOK, [Next]_vars, NEW f \in Envelope
    PROVE  StoresGrow(f) /\ AnswerBacked(f)
<1>1. CASE UNCHANGED <<server, refused, file, handled, ledger, answer>>
  BY <1>1 DEF StoresGrow, AnswerBacked, Durable, Spooled, Accounted
<1>2. ASSUME NEW t \in Task, HandleBatch(t) PROVE StoresGrow(f) /\ AnswerBacked(f)
  <2>1. UNCHANGED <<server, refused, file, handled, ledger>>
    BY <1>2 DEF HandleBatch, storeVars
  <2>2. answer'[f] \in {"inflight", answer[f]}
    BY <1>2 DEF HandleBatch
  <2> QED
    BY <2>1, <2>2 DEF StoresGrow, AnswerBacked, Durable, Spooled, Accounted
<1>3. ASSUME NEW t \in Task, Post(t) PROVE StoresGrow(f) /\ AnswerBacked(f)
  <2>1. PICK res \in [todo[t] -> Result] :
            /\ Settle(t, res)
            /\ server \subseteq server'
            /\ refused \subseteq refused'
            /\ \A i \in todo[t] : res[i] \in {"accepted", "duplicate"} => batch[t][i] \in server'
            /\ \A i \in todo[t] : res[i] = "rejected" => batch[t][i] \in refused'
    BY <1>3, PostOutcome
  <2>2. UNCHANGED <<file, handled, ledger>>
    BY <2>1 DEF Settle
  <2>3. StoresGrow(f)
    BY <2>1, <2>2 DEF StoresGrow, Durable, Spooled, Accounted
  <2>4. \/ answer'[f] = answer[f]
        \/ \E i \in todo[t] : batch[t][i] = f /\ answer'[f] = res[i]
    BY <2>1, SettledAnswer
  <2>5. AnswerBacked(f)
    BY <2>1, <2>4 DEF AnswerBacked, Durable, Result
  <2> QED
    BY <2>3, <2>5
<1>4. ASSUME NEW t \in Task, Seal(t) \/ Dispatch(t) \/ SpoolDone(t)
      PROVE  UNCHANGED <<server, refused, file, handled, ledger, answer>>
  BY <1>4 DEF Seal, Dispatch, SpoolDone, storeVars
<1>5. CASE UNCHANGED vars
  BY <1>1, <1>5 DEF vars, storeVars
<1> QED
  BY <1>1, <1>2, <1>3, <1>4, <1>5, SpoolAccountable DEF Next, Compute

(* What the spool would answer as a duplicate is in its file. *)
HandledIsSpooled == \A e \in handled : Spooled(e)

AnswerInv ==
    HandledIsSpooled /\ AcknowledgedIsDurable /\ NoSilentLoss /\ ControlFailsClosed

LEMMA AnswerStep == ASSUME TypeOK, AnswerInv, [Next]_vars PROVE AnswerInv'
<1>1. ASSUME NEW e \in Envelope
      PROVE  /\ e \in handled' => Spooled(e)'
             /\ answer'[e] \in {"accepted", "duplicate"} => Durable(e)'
             /\ answer'[e] = "rejected" => e \in refused' \/ Accounted(e)'
             /\ IsControl(e) => ~Accounted(e)' /\ (answer'[e] = "rejected" => e \in refused')
  <2>1. StoresGrow(e) /\ AnswerBacked(e)
    BY <1>1, Accountable
  <2>2. /\ e \in handled => Spooled(e)
        /\ answer[e] \in {"accepted", "duplicate"} => Durable(e)
        /\ answer[e] = "rejected" => e \in refused \/ Accounted(e)
        /\ IsControl(e) => ~Accounted(e) /\ (answer[e] = "rejected" => e \in refused)
    BY <1>1 DEF AnswerInv, HandledIsSpooled, AcknowledgedIsDurable, NoSilentLoss, ControlFailsClosed, Accounted
  <2> QED
    BY <2>1, <2>2 DEF StoresGrow, AnswerBacked, Durable
<1>2. handled' \subseteq Envelope
  BY TypeStep DEF TypeOK
<1> QED
  BY <1>1, <1>2 DEF AnswerInv, HandledIsSpooled, AcknowledgedIsDurable, NoSilentLoss, ControlFailsClosed, Accounted

LEMMA InitAnswer == ASSUME Init PROVE AnswerInv
  BY CloudAssumption
  DEF Init, AnswerInv, HandledIsSpooled, AcknowledgedIsDurable, NoSilentLoss, ControlFailsClosed

LEMMA AnswersAreBacked == Spec => []AnswerInv
<1> QED
  BY InitAnswer, AnswerStep, TypeCorrect, PTL DEF Spec

(* An acknowledged record is on the server or in the spool file, through     *)
(* every retry, failover and partial batch (handle_batch).                   *)
THEOREM AcknowledgedAreDurable == Spec => []AcknowledgedIsDurable
  BY AnswersAreBacked, PTL DEF AnswerInv

(* A rejected record was refused by the server or entered in the ledger.     *)
THEOREM LossesAreAccounted == Spec => []NoSilentLoss
  BY AnswersAreBacked, PTL DEF AnswerInv

(* A control record is never dropped: its loss reaches the caller as an      *)
(* exception (_on_spool_write_failure).                                      *)
THEOREM ControlNeverDropped == Spec => []ControlFailsClosed
  BY AnswersAreBacked, PTL DEF AnswerInv

-------------------------------------------------------------------------------
(* Losses are evident *)

(* Every action that has left _seal is sealed, so what was lost or stored    *)
(* has a number.                                                             *)
PastSeal(t, i) == pc[t] \in {"post", "spool"} \/ (pc[t] = "seal" /\ i \notin todo[t])

SlotSealed(t, i) == IsAction(batch[t][i]) /\ PastSeal(t, i) => Sealed(batch[t][i])

BatchSealed == \A t \in Task : \A i \in DOMAIN batch[t] : SlotSealed(t, i)

KnownSealed ==
    \A e \in Envelope : IsAction(e) /\ (Accounted(e) \/ Durable(e)) => Sealed(e)

SealedInv == BatchSealed /\ KnownSealed

(* A record enters a store or the ledger only from the batch of a task that  *)
(* posts or spools it.                                                       *)
LEMMA StoreOrigins ==
    ASSUME TypeOK, [Next]_vars, NEW f \in Envelope, Accounted(f)' \/ Durable(f)'
    PROVE  \/ Accounted(f) \/ Durable(f)
           \/ \E t \in Task : pc[t] \in {"post", "spool"}
                 /\ \E i \in DOMAIN batch[t] : batch[t][i] = f
<1>1. CASE UNCHANGED <<server, file, ledger>>
  BY <1>1 DEF Accounted, Durable, Spooled
<1>2. ASSUME NEW t \in Task, Post(t)
      PROVE  \/ Accounted(f) \/ Durable(f)
             \/ pc[t] = "post" /\ \E i \in DOMAIN batch[t] : batch[t][i] = f
  <2>1. PICK res \in [todo[t] -> Result] :
            /\ Settle(t, res)
            /\ server' \subseteq server \cup {batch[t][i] : i \in todo[t]}
    BY <1>2, PostOutcome
  <2>2. UNCHANGED <<file, ledger>> /\ todo[t] \subseteq DOMAIN batch[t]
    BY <2>1 DEF Settle, TypeOK
  <2>3. pc[t] = "post"
    BY <1>2 DEF Post, TransportFailure, BatchRefused, BatchAnswered
  <2> QED
    BY <2>1, <2>2, <2>3 DEF Accounted, Durable, Spooled
<1>3. ASSUME NEW t \in Task, SpoolDuplicate(t) \/ SpoolWrite(t) \/ SpoolWriteFailure(t)
      PROVE  \/ Accounted(f) \/ Durable(f)
             \/ pc[t] = "spool" /\ \E i \in DOMAIN batch[t] : batch[t][i] = f
  <2>1. PICK i \in todo[t], e \in Envelope :
            /\ e = batch[t][i] /\ pc[t] = "spool"
            /\ UNCHANGED server
            /\ UNCHANGED file \/ AppendLine(e)
            /\ UNCHANGED ledger \/ RecordLoss(e)
    BY <1>3, SpoolStep
  <2>2. i \in DOMAIN batch[t] /\ SessionOf[e] \in Session /\ SessionOf[f] \in Session
    BY <2>1, CloudAssumption DEF TypeOK
  <2>3. CASE f = e
    BY <2>1, <2>2, <2>3
  <2>4. CASE f # e
    <3>1. Accounted(f)' => Accounted(f)
      <4>1. ledger' = ledger \/ ledger' = [ledger EXCEPT ![SessionOf[e]] = @ \cup {e}]
        BY <2>1 DEF RecordLoss
      <4>2. ledger \in [Session -> SUBSET Envelope]
        BY DEF TypeOK
      <4>3. ledger'[SessionOf[f]] \subseteq ledger[SessionOf[f]] \cup {e}
        BY <2>2, <4>1, <4>2
      <4> QED
        BY <2>4, <4>3 DEF Accounted
    <3>2. Spooled(f)' => Spooled(f)
      <4>1. CASE UNCHANGED file
        BY <4>1 DEF Spooled
      <4>2. CASE AppendLine(e)
        <5> DEFINE q == file[SessionOf[e]]
        <5>1. q \in Seq(Envelope)
          BY <2>2 DEF TypeOK
        <5>2. \A j \in DOMAIN Append(q, e) :
                  Append(q, e)[j] = e \/ (j \in DOMAIN q /\ Append(q, e)[j] = q[j])
          BY <5>1
        <5>3. file'[SessionOf[e]] = Append(q, e)
              /\ \A x \in Session : x # SessionOf[e] => file'[x] = file[x]
          BY <2>2, <4>2 DEF TypeOK, AppendLine
        <5> QED
          BY <2>2, <2>4, <5>2, <5>3 DEF Spooled
      <4> QED
        BY <2>1, <4>1, <4>2
    <3> QED
      BY <2>1, <3>1, <3>2 DEF Durable
  <2> QED
    BY <2>3, <2>4
<1>4. ASSUME NEW t \in Task, HandleBatch(t) \/ Seal(t) \/ Dispatch(t) \/ SpoolDone(t)
      PROVE  UNCHANGED <<server, file, ledger>>
  BY <1>4 DEF HandleBatch, Seal, Dispatch, SpoolDone, storeVars
<1>5. CASE UNCHANGED vars
  BY <1>1, <1>5 DEF vars, storeVars
<1> QED
  BY <1>1, <1>2, <1>3, <1>4, <1>5 DEF Next, Compute

(* What a step does to the slots: only HandleBatch starts a call, and a slot *)
(* gets past _seal by being sealed.                                          *)
LEMMA BatchSealedStep == ASSUME TypeOK, BatchSealed, [Next]_vars PROVE BatchSealed'
<1>1. ASSUME NEW u \in Task, NEW i \in DOMAIN batch'[u], batch'[u] = batch[u],
             PastSeal(u, i)' => PastSeal(u, i)
      PROVE  SlotSealed(u, i)'
  <2>1. SUFFICES ASSUME IsAction(batch[u][i]), PastSeal(u, i) PROVE Sealed(batch[u][i])'
    BY <1>1 DEF SlotSealed, IsAction
  <2>2. batch[u][i] \in Envelope /\ Sealed(batch[u][i])
    BY <1>1, <2>1 DEF BatchSealed, SlotSealed, TypeOK
  <2>3. seals'[batch[u][i]] = seals[batch[u][i]]
    BY <2>2, SealKept
  <2> QED
    BY <1>1, <2>2, <2>3 DEF Sealed
<1>2. CASE UNCHANGED <<pc, batch, todo>>
  <2>1. \A u \in Task : \A i \in DOMAIN batch[u] : PastSeal(u, i)' => PastSeal(u, i)
    BY <1>2 DEF PastSeal
  <2> QED
    BY <1>1, <1>2, <2>1 DEF BatchSealed
<1>3. ASSUME NEW t \in Task, HandleBatch(t) PROVE BatchSealed'
  <2>1. PICK b \in Batches : batch' = [batch EXCEPT ![t] = b] /\ todo' = [todo EXCEPT ![t] = DOMAIN b]
    BY <1>3 DEF HandleBatch
  <2>2. pc' = [pc EXCEPT ![t] = "seal"]
    BY <1>3 DEF HandleBatch
  <2>3. \A i \in DOMAIN batch'[t] : SlotSealed(t, i)'
    BY <2>1, <2>2 DEF SlotSealed, PastSeal, TypeOK
  <2>4. \A u \in Task : u # t => batch'[u] = batch[u] /\ pc'[u] = pc[u] /\ todo'[u] = todo[u]
    BY <2>1, <2>2 DEF TypeOK
  <2>5. \A u \in Task : u # t => \A i : PastSeal(u, i)' => PastSeal(u, i)
    BY <2>4 DEF PastSeal
  <2> QED
    BY <1>1, <2>3, <2>4, <2>5 DEF BatchSealed
<1>4. ASSUME NEW t \in Task, Seal(t) PROVE BatchSealed'
  <2>1. PICK k \in todo[t] :
            /\ todo' = [todo EXCEPT ![t] = @ \ {k}]
            /\ \/ Mints(batch[t][k])
               \/ UNCHANGED chainVars /\ (IsAction(batch[t][k]) => Sealed(batch[t][k]))
    BY <1>4, SealEffect
  <2>2. UNCHANGED <<pc, batch>> /\ pc[t] = "seal"
    BY <1>4 DEF Seal
  <2>3. \A u \in Task : \A i \in DOMAIN batch[u] :
            PastSeal(u, i)' => PastSeal(u, i) \/ (u = t /\ i = k)
    BY <2>1, <2>2 DEF PastSeal, TypeOK
  <2>4. SlotSealed(t, k)'
    <3>1. CASE Mints(batch[t][k])
      <4>1. batch[t][k] \in Envelope
        BY DEF TypeOK
      <4>2. /\ chains[SessionOf[batch[t][k]]].count \in Nat
            /\ seals'[batch[t][k]] = [seq |-> chains[SessionOf[batch[t][k]]].count + 1,
                                      prev |-> chains[SessionOf[batch[t][k]]].tail]
        BY <3>1, <4>1, MintPointwise
      <4>3. seals'[batch[t][k]].seq = chains[SessionOf[batch[t][k]]].count + 1
        BY <4>2
      <4> QED
        BY <2>2, <4>2, <4>3 DEF SlotSealed, Sealed
    <3>2. CASE UNCHANGED chainVars /\ (IsAction(batch[t][k]) => Sealed(batch[t][k]))
      BY <2>2, <3>2 DEF SlotSealed, Sealed, chainVars, IsAction
    <3> QED
      BY <2>1, <3>1, <3>2
  <2> QED
    BY <1>1, <2>2, <2>3, <2>4 DEF BatchSealed
<1>5. ASSUME NEW t \in Task, Dispatch(t) PROVE BatchSealed'
  <2>1. \A u \in Task : \A i \in DOMAIN batch[u] : PastSeal(u, i)' => PastSeal(u, i)
    BY <1>5 DEF Dispatch, PastSeal, TypeOK
  <2>2. UNCHANGED batch
    BY <1>5 DEF Dispatch
  <2> QED
    BY <1>1, <2>1, <2>2 DEF BatchSealed
<1>6. ASSUME NEW t \in Task, Leave(t) PROVE BatchSealed'
  <2>1. \A u \in Task : \/ u # t /\ batch'[u] = batch[u] /\ pc'[u] = pc[u] /\ todo'[u] = todo[u]
                        \/ DOMAIN batch'[u] = {}
    BY <1>6 DEF Leave, TypeOK
  <2>2. \A u \in Task : u # t => \A i : PastSeal(u, i)' => PastSeal(u, i)
    BY <1>6 DEF PastSeal, Leave, TypeOK
  <2> QED
    BY <1>1, <2>1, <2>2 DEF BatchSealed
<1>7. ASSUME NEW t \in Task, pc[t] \in {"post", "spool"}, UNCHANGED batch,
             \A u \in Task : u # t => pc'[u] = pc[u] /\ todo'[u] = todo[u]
      PROVE  BatchSealed'
  <2>1. \A u \in Task : \A i \in DOMAIN batch[u] : PastSeal(u, i)' => PastSeal(u, i)
    BY <1>7 DEF PastSeal
  <2> QED
    BY <1>1, <1>7, <2>1 DEF BatchSealed
<1>8. ASSUME NEW t \in Task, Post(t) PROVE BatchSealed'
  <2>1. PICK res \in [todo[t] -> Result] : Settle(t, res)
    BY <1>8, PostOutcome
  <2>2. pc[t] = "post"
    BY <1>8 DEF Post, TransportFailure, BatchRefused, BatchAnswered
  <2>3. Leave(t) \/ (UNCHANGED batch /\ \A u \in Task : u # t => pc'[u] = pc[u] /\ todo'[u] = todo[u])
    BY <2>1 DEF Settle, TypeOK
  <2> QED
    BY <1>6, <1>7, <2>2, <2>3
<1>9. ASSUME NEW t \in Task, SpoolDuplicate(t) \/ SpoolWrite(t) \/ SpoolWriteFailure(t)
      PROVE  BatchSealed'
  <2>1. PICK i \in todo[t] : pc[t] = "spool" /\ (SpoolNext(t, i) \/ Raise(t))
    BY <1>9, SpoolStep
  <2>2. Leave(t) \/ (UNCHANGED batch /\ \A u \in Task : u # t => pc'[u] = pc[u] /\ todo'[u] = todo[u])
    BY <2>1 DEF SpoolNext, Raise, TypeOK
  <2> QED
    BY <1>6, <1>7, <2>1, <2>2
<1>10. ASSUME NEW t \in Task, SpoolDone(t) PROVE BatchSealed'
  BY <1>6, <1>10 DEF SpoolDone
<1> QED
  BY <1>2, <1>3, <1>4, <1>5, <1>8, <1>9, <1>10 DEF Next, Compute, vars, taskVars

LEMMA SealedStep == ASSUME TypeOK, SealedInv, [Next]_vars PROVE SealedInv'
<1>1. ASSUME NEW e \in Envelope, IsAction(e), Accounted(e)' \/ Durable(e)' PROVE Sealed(e)'
  <2>1. Sealed(e)
    BY <1>1, StoreOrigins DEF SealedInv, BatchSealed, SlotSealed, KnownSealed, PastSeal
  <2> QED
    BY <1>1, <2>1, SealKept DEF Sealed
<1> QED
  BY <1>1, BatchSealedStep DEF SealedInv, KnownSealed

LEMMA InitSealed == ASSUME Init PROVE SealedInv
  BY CloudAssumption
  DEF Init, SealedInv, BatchSealed, SlotSealed, KnownSealed, Accounted, Durable, Spooled,
      PastSeal

(* The evidence of a session, as the verifier walks it. *)
LEMMA EvidenceFields ==
    ASSUME NEW s, NEW e \in Evidence(s)
    PROVE  /\ e \in Envelope /\ SessionOf[e] = s /\ IsAction(e) /\ Durable(e)
           /\ e \in DOMAIN EvidenceChain(s)
           /\ EvidenceChain(s)[e].seq = seals[e].seq
           /\ EvidenceChain(s)[e].prev = seals[e].prev
           /\ EvidenceChain(s)[e].hash = e
  BY DEF Evidence, EvidenceChain

LEMMA EvidenceIsIntact ==
    ASSUME NEW s, NEW e \in Evidence(s)
    PROVE  EvidenceChain(s)[e].selfOk = TRUE /\ EvidenceChain(s)[e].bindOk = TRUE
  BY DEF EvidenceChain

LEMMA EvidenceDomain == \A s : DOMAIN EvidenceChain(s) = Evidence(s)
  BY DEF EvidenceChain

LEMMA EvidenceIsNumbered ==
    ASSUME TypeOK, SealedInv, NEW s
    PROVE  \A e \in DOMAIN EvidenceChain(s) : EvidenceChain(s)[e].seq \in Nat \ {0}
<1>1. ASSUME NEW e \in Evidence(s) PROVE EvidenceChain(s)[e].seq \in Nat \ {0}
  <2>1. e \in Envelope /\ IsAction(e) /\ Durable(e) /\ EvidenceChain(s)[e].seq = seals[e].seq
    BY <1>1, EvidenceFields
  <2>2. Sealed(e) /\ seals[e].seq \in Nat
    BY <2>1 DEF SealedInv, KnownSealed, TypeOK
  <2> QED
    BY <2>1, <2>2 DEF Sealed
<1> QED
  BY <1>1, EvidenceDomain

LEMMA EvidentWhenNumbered ==
    ASSUME TypeOK, Numbering, SealedInv
    PROVE  LossIsEvident
<1>1. SUFFICES ASSUME NEW e \in Envelope, NEW f \in Envelope,
                      IsAction(e), e \in ledger[SessionOf[e]], ~Durable(e),
                      f \in Evidence(SessionOf[e]), seals[f].seq > seals[e].seq
               PROVE  ChainVerdict(EvidenceChain(SessionOf[e])) # VALID
  BY DEF LossIsEvident
<1> DEFINE s == SessionOf[e]
           recs == EvidenceChain(s)
<1>2. \A i \in DOMAIN recs : recs[i].seq \in Nat \ {0}
  BY EvidenceIsNumbered
<1>3. seals[e].seq \in Nat \ {0} /\ Sealed(e)
  <2>1. Sealed(e) /\ seals[e].seq \in Nat
    BY <1>1 DEF SealedInv, KnownSealed, Accounted, TypeOK
  <2> QED
    BY <2>1 DEF Sealed
<1>4. ASSUME NEW i \in DOMAIN recs PROVE recs[i].seq # seals[e].seq
  <2>1. i \in Evidence(s)
    BY <1>4, EvidenceDomain
  <2>2. /\ i \in Envelope /\ SessionOf[i] = s /\ IsAction(i) /\ Durable(i)
        /\ recs[i].seq = seals[i].seq
    BY <2>1, EvidenceFields
  <2>3. i # e /\ Sealed(i)
    BY <1>1, <2>2 DEF SealedInv, KnownSealed
  <2> QED
    BY <1>3, <2>2, <2>3 DEF Numbering, DenseNumbering
<1>5. f \in DOMAIN recs /\ recs[f].seq > seals[e].seq
  BY <1>1, EvidenceFields
<1> HIDE DEF recs
<1>6. ChainVerdict(recs) # VALID
  BY <1>2, <1>3, <1>4, <1>5, GapIsNotValid
<1> QED
  BY <1>6 DEF recs

(* Whatever the client lost, a session that kept a later action does not     *)
(* verify VALID (ADR-013 decision 4b).                                       *)
THEOREM LossesAreEvident == Spec => []LossIsEvident
<1>1. Spec => [](Numbering /\ SealedInv)
  BY InitNumbering, NumberingStep, InitSealed, SealedStep, TypeCorrect, PTL DEF Spec
<1> QED
  BY <1>1, TypeCorrect, EvidentWhenNumbered, PTL

-------------------------------------------------------------------------------
(* No false tampering, where adopting a seal cannot rewind the tail *)

(* The tail of a chain is its newest record, and every record names the one  *)
(* numbered just before it.                                                  *)
TailIsNewest ==
    \A s \in Session :
        /\ chains[s].count = 0 => chains[s].tail = NoHash
        /\ chains[s].count > 0 => /\ chains[s].tail \in Envelope
                                  /\ SessionOf[chains[s].tail] = s
                                  /\ seals[chains[s].tail].seq = chains[s].count

PrevIsPredecessor ==
    \A e \in Envelope : Sealed(e) =>
        /\ seals[e].seq = 1 => seals[e].prev = NoHash
        /\ seals[e].seq > 1 => /\ seals[e].prev \in Envelope
                               /\ SessionOf[seals[e].prev] = SessionOf[e]
                               /\ seals[seals[e].prev].seq = seals[e].seq - 1

Linked == TailIsNewest /\ PrevIsPredecessor

LEMMA MintLinks ==
    ASSUME TypeOK, Numbering, Linked, NEW e \in Envelope, Mints(e)
    PROVE  Linked'
<1> DEFINE s == SessionOf[e]
           c == chains[s].count
           p == chains[s].tail
<1>1. /\ s \in Session /\ c \in Nat
      /\ seals'[e] = [seq |-> c + 1, prev |-> p]
      /\ chains'[s] = [tail |-> e, count |-> c + 1]
      /\ \A f \in Envelope : f # e => seals'[f] = seals[f]
      /\ \A x \in Session : x # s => chains'[x] = chains[x]
  BY MintPointwise
<1>2. /\ seals'[e].seq = c + 1 /\ seals'[e].prev = p
      /\ chains'[s].tail = e /\ chains'[s].count = c + 1
  BY <1>1
<1>3. seals[e].seq = 0
  BY DEF Mints, Sealed, TypeOK
<1>4. c > 0 => p \in Envelope /\ p # e /\ SessionOf[p] = s /\ seals[p].seq = c
  BY <1>1, <1>3 DEF Linked, TailIsNewest
<1>5. c = 0 => p = NoHash
  BY <1>1 DEF Linked, TailIsNewest
<1>6. ASSUME NEW x \in Session, x # s, chains[x].count > 0
      PROVE  /\ chains[x].tail \in Envelope
             /\ SessionOf[chains[x].tail] = x
             /\ seals'[chains[x].tail].seq = chains[x].count
  <2>1. /\ chains[x].tail \in Envelope
        /\ SessionOf[chains[x].tail] = x
        /\ seals[chains[x].tail].seq = chains[x].count
    BY <1>6 DEF Linked, TailIsNewest
  <2>2. chains[x].tail # e
    BY <1>6, <2>1
  <2> QED
    BY <1>1, <2>1, <2>2
<1>7. TailIsNewest'
  <2>1. ASSUME NEW x \in Session
        PROVE  /\ chains'[x].count = 0 => chains'[x].tail = NoHash
               /\ chains'[x].count > 0 => /\ chains'[x].tail \in Envelope
                                          /\ SessionOf[chains'[x].tail] = x
                                          /\ seals'[chains'[x].tail].seq = chains'[x].count
    <3>1. CASE x = s
      BY <1>1, <1>2, <3>1
    <3>2. CASE x # s
      <4>1. chains'[x] = chains[x]
        BY <1>1, <3>2
      <4> QED
        BY <1>6, <3>2, <4>1 DEF Linked, TailIsNewest
    <3> QED
      BY <3>1, <3>2
  <2> QED
    BY <2>1 DEF TailIsNewest
<1>8. PrevIsPredecessor'
  <2>1. ASSUME NEW f \in Envelope, Sealed(f)'
        PROVE  /\ seals'[f].seq = 1 => seals'[f].prev = NoHash
               /\ seals'[f].seq > 1 => /\ seals'[f].prev \in Envelope
                                       /\ SessionOf[seals'[f].prev] = SessionOf[f]
                                       /\ seals'[seals'[f].prev].seq = seals'[f].seq - 1
    <3>1. CASE f = e
      BY <1>1, <1>2, <1>4, <1>5, <3>1
    <3>2. CASE f # e
      <4>1. seals'[f] = seals[f] /\ Sealed(f)
        BY <1>1, <2>1, <3>2 DEF Sealed
      <4>2. /\ seals[f].seq = 1 => seals[f].prev = NoHash
            /\ seals[f].seq > 1 => /\ seals[f].prev \in Envelope
                                   /\ SessionOf[seals[f].prev] = SessionOf[f]
                                   /\ seals[seals[f].prev].seq = seals[f].seq - 1
        BY <4>1 DEF Linked, PrevIsPredecessor
      <4>3. seals[f].seq > 1 => seals[f].prev # e
        BY <1>3, <4>2 DEF TypeOK
      <4> QED
        BY <1>1, <4>1, <4>2, <4>3
    <3> QED
      BY <3>1, <3>2
  <2> QED
    BY <2>1 DEF PrevIsPredecessor
<1> QED
  BY <1>7, <1>8 DEF Linked

LEMMA LinkedStep ==
    ASSUME TypeOK, Numbering, Linked,
           UNCHANGED chainVars \/ \E e \in Envelope : Mints(e)
    PROVE  Linked'
<1>1. CASE UNCHANGED chainVars
  BY <1>1 DEF chainVars, Linked, TailIsNewest, PrevIsPredecessor, Sealed
<1> QED
  BY <1>1, MintLinks

LEMMA InitLinked == ASSUME Init PROVE Linked
  BY DEF Init, Linked, TailIsNewest, PrevIsPredecessor, Sealed, EmptyChain

LEMMA LinkedIsNotTampered ==
    ASSUME TypeOK, Numbering, SealedInv, Linked
    PROVE  NoFalseTamper
<1>1. ASSUME NEW s \in Session PROVE HonestArchive(EvidenceChain(s))
  <2> DEFINE recs == EvidenceChain(s)
  <2>1. \A e \in DOMAIN recs :
            recs[e].seq \in Nat \ {0} /\ recs[e].selfOk = TRUE /\ recs[e].bindOk = TRUE
    BY EvidenceIsNumbered, EvidenceIsIntact, EvidenceDomain
  <2>2. ASSUME NEW e \in DOMAIN recs
        PROVE  /\ e \in Envelope /\ SessionOf[e] = s /\ Sealed(e)
               /\ recs[e].seq = seals[e].seq /\ recs[e].prev = seals[e].prev /\ recs[e].hash = e
    <3>1. e \in Evidence(s)
      BY <2>2, EvidenceDomain
    <3>2. /\ e \in Envelope /\ SessionOf[e] = s /\ IsAction(e) /\ Durable(e)
          /\ recs[e].seq = seals[e].seq /\ recs[e].prev = seals[e].prev /\ recs[e].hash = e
      BY <3>1, EvidenceFields
    <3> QED
      BY <3>2 DEF SealedInv, KnownSealed
  <2> HIDE DEF recs
  <2>3. ASSUME NEW e \in DOMAIN recs, NEW f \in DOMAIN recs, recs[e].seq = recs[f].seq
        PROVE  e = f
    BY <2>2, <2>3 DEF Numbering, DenseNumbering
  <2>4. ASSUME NEW e \in DOMAIN recs, recs[e].seq = 1 PROVE recs[e].prev = NoHash
    BY <2>2, <2>4 DEF Linked, PrevIsPredecessor
  <2>5. ASSUME NEW e \in DOMAIN recs, NEW f \in DOMAIN recs, recs[e].seq = recs[f].seq + 1
        PROVE  recs[e].prev = recs[f].hash
    <3>1. /\ e \in Envelope /\ f \in Envelope /\ SessionOf[e] = SessionOf[f]
          /\ Sealed(e) /\ Sealed(f)
          /\ seals[e].seq = seals[f].seq + 1
      BY <2>2, <2>5
    <3>2. seals[f].seq \in Nat /\ seals[f].seq > 0 /\ seals[e].seq > 1
      BY <3>1 DEF Sealed, TypeOK
    <3> DEFINE p == seals[e].prev
    <3>3. p \in Envelope /\ SessionOf[p] = SessionOf[e] /\ seals[p].seq = seals[e].seq - 1
      BY <3>1, <3>2 DEF Linked, PrevIsPredecessor
    <3>4. Sealed(p) /\ seals[p].seq = seals[f].seq
      BY <3>1, <3>2, <3>3 DEF Sealed
    <3>5. p = f
      BY <3>1, <3>3, <3>4 DEF Numbering, DenseNumbering
    <3> QED
      BY <2>2, <2>5, <3>5
  <2>6. HonestArchive(recs)
    BY <2>1, <2>3, <2>4, <2>5 DEF HonestArchive
  <2> QED
    BY <2>6 DEF recs
<1> QED
  BY <1>1, HonestArchiveIsNotTampered DEF NoFalseTamper

(* Without the failover nobody reaches the spool, so nobody adopts a seal.   *)
NeverSpools == spooling = FALSE /\ \A t \in Task : pc[t] # "spool"

LEMMA NeverSpoolsStep ==
    ASSUME ~SpoolEnabled, TypeOK, NeverSpools, [Next]_vars
    PROVE  NeverSpools' /\ (UNCHANGED chainVars \/ \E e \in Envelope : Mints(e))
<1>1. CASE UNCHANGED vars
  BY <1>1 DEF vars, taskVars, NeverSpools
<1>2. ASSUME NEW t \in Task, HandleBatch(t) PROVE NeverSpools' /\ UNCHANGED chainVars
  BY <1>2 DEF HandleBatch, NeverSpools, TypeOK
<1>3. ASSUME NEW t \in Task, Seal(t)
      PROVE  NeverSpools' /\ (UNCHANGED chainVars \/ \E e \in Envelope : Mints(e))
  <2>1. NeverSpools'
    BY <1>3 DEF Seal, NeverSpools
  <2>2. \A i \in todo[t] : batch[t][i] \in Envelope
    BY DEF TypeOK
  <2> QED
    BY <1>3, <2>1, <2>2, SealEffect
<1>4. ASSUME NEW t \in Task, Dispatch(t) PROVE NeverSpools' /\ UNCHANGED chainVars
  BY <1>4 DEF Dispatch, NeverSpools, TypeOK
<1>5. ASSUME NEW t \in Task, Post(t) PROVE NeverSpools' /\ UNCHANGED chainVars
  <2>1. PICK res \in [todo[t] -> Result] : Settle(t, res)
    BY <1>5, PostOutcome
  <2> QED
    BY <2>1 DEF Settle, Leave, NeverSpools, TypeOK
<1>6. \A t \in Task : ~(SpoolDuplicate(t) \/ SpoolWrite(t) \/ SpoolWriteFailure(t) \/ SpoolDone(t))
  BY DEF SpoolDuplicate, SpoolWrite, SpoolWriteFailure, SpoolDone, NeverSpools
<1> QED
  BY <1>1, <1>2, <1>3, <1>4, <1>5, <1>6 DEF Next, Compute, vars

(* A client without the spool, however many tasks and retries it has, never  *)
(* leaves evidence that reads as tampering: lost and refused records show as *)
(* gaps.  With the spool this needs callers that send one record at a time.  *)
THEOREM NoSpoolNoTamper == ASSUME ~SpoolEnabled PROVE Spec => []NoFalseTamper
<1>1. Init => NeverSpools
  BY DEF Init, NeverSpools
<1>2. TypeOK /\ Numbering /\ NeverSpools /\ Linked /\ [Next]_vars => (NeverSpools /\ Linked)'
  BY NeverSpoolsStep, LinkedStep
<1>3. Spec => [](Numbering /\ SealedInv)
  BY InitNumbering, NumberingStep, InitSealed, SealedStep, TypeCorrect, PTL DEF Spec
<1>4. Spec => [](NeverSpools /\ Linked)
  BY <1>1, <1>2, <1>3, InitLinked, TypeCorrect, PTL DEF Spec
<1> QED
  BY <1>3, <1>4, TypeCorrect, LinkedIsNotTampered, PTL

===============================================================================
