----------------------------- MODULE HitlGateProofs -----------------------------
(***************************************************************************)
(* Theorems about HitlGate, for any operators, deadline and horizon.       *)
(*                                                                         *)
(* OneResolution is inductive once it is joined by who can see what: the   *)
(* time stamps lie in the past, nobody acts on an action that has no row.  *)
(* GateSound needs more: the resolving row is the latest one.  That holds  *)
(* only when ingested records are not late (MaxDelay = 0), because a late  *)
(* one is stamped before rows that are already there.                      *)
(***************************************************************************)
EXTENDS HitlGate, TLAPS

(* The row lock and the unique index keep the store consistent.              *)
StoreInv ==
    /\ OneResolution
    /\ \A r \in rows : r.stamp < clock
    /\ status = "absent" => rows = {}
    /\ gate = "submit" => status = "absent"
    /\ gate \in {"check", "poll", "sleep", "expired"} => status # "absent"
    /\ gate = "repoll" => status \in TerminalAuthStates
    /\ \A o \in Operator : oper[o] = "selected" => status # "absent"

Inv == TypeOK /\ StoreInv /\ LandedDecisionHolds

(* The three statuses a decision maps to.                                    *)
LEMMA StatusOfDecision ==
    /\ DecisionToAuthStatus["approved"] = "human_approved"
    /\ DecisionToAuthStatus["rejected"] = "human_rejected"
    /\ DecisionToAuthStatus["escalated"] = "pending"
  BY DEF DecisionToAuthStatus

LEMMA InitInv == Init => Inv
<1> SUFFICES ASSUME Init PROVE Inv
  OBVIOUS
<1>1. open \in BOOLEAN /\ admitted \in BOOLEAN
  BY DEF Init
<1>2. TypeOK
  BY <1>1 DEF Init, TypeOK, TerminalAuthStates, Ended
<1>3. StoreInv /\ LandedDecisionHolds
  BY DEF Init, StoreInv, LandedDecisionHolds, OneResolution, TerminalAuthStates
<1> QED
  BY <1>2, <1>3 DEF Inv

(* Steps that write no approval: they leave the store alone.                 *)
LEMMA QuietStep ==
    ASSUME Inv, UNCHANGED <<status, rows, choice>>,
           Tick \/ CloseSession \/ CheckDeadline \/ Poll \/ Wake \/ Repoll \/ GateFails
           \/ AdmitApproval
    PROVE  Inv'
<1>1. CASE Tick
  BY <1>1 DEF Tick, Inv, TypeOK, StoreInv, LandedDecisionHolds, OneResolution, Row
<1>2. CASE CloseSession
  BY <1>2 DEF CloseSession, Inv, TypeOK, StoreInv, LandedDecisionHolds, OneResolution
<1>3. CASE CheckDeadline
  BY <1>3 DEF CheckDeadline, Inv, TypeOK, StoreInv, LandedDecisionHolds, OneResolution
<1>4. CASE Poll \/ Repoll
  <2>1. gate' \in Ended \cup {"sleep"}
    BY <1>4 DEF Poll, Repoll, RaiseOrReturn, Ended
  <2>2. gate' = "sleep" => status # "absent"
    BY <1>4 DEF Poll, Repoll, RaiseOrReturn, Inv, StoreInv
  <2> QED
    BY <1>4, <2>1, <2>2
    DEF Poll, Repoll, Inv, TypeOK, StoreInv, LandedDecisionHolds, OneResolution, Ended
<1>5. CASE Wake
  BY <1>5 DEF Wake, Inv, TypeOK, StoreInv, LandedDecisionHolds, OneResolution
<1>6. CASE GateFails
  BY <1>6 DEF GateFails, Inv, TypeOK, StoreInv, LandedDecisionHolds, OneResolution, Ended
<1>7. CASE AdmitApproval
  <2>1. admitted' \in BOOLEAN
    BY <1>7 DEF AdmitApproval
  <2> QED
    BY <1>7, <2>1 DEF AdmitApproval, Inv, TypeOK, StoreInv, LandedDecisionHolds, OneResolution
<1> QED
  BY <1>1, <1>2, <1>3, <1>4, <1>5, <1>6, <1>7

(* A row of decision d and stamp x enters the table of an action that exists *)
(* and is not resolved, with the status that belongs to it.                  *)
LEMMA InsertKeepsStore ==
    ASSUME Inv, NEW d \in Decision, NEW y \in {"human", "timeout"}, NEW x \in Nat, x <= clock,
           ~UniqueViolation(d) \/ status \notin TerminalAuthStates,
           status # "absent",
           d = "escalated" => status \notin TerminalAuthStates,
           rows' = rows \cup {[decision |-> d, type |-> y, stamp |-> x]},
           clock' = clock + 1,
           status' \in TerminalAuthStates \cup {"pending"},
           status' \in TerminalAuthStates <=> d # "escalated",
           status' = "human_approved" <=> d = "approved"
    PROVE  /\ OneResolution'
           /\ rows' \subseteq Row
           /\ \A r \in rows' : r.stamp < clock'
           /\ status \notin TerminalAuthStates
           /\ status' # "absent"
<1> DEFINE new == [decision |-> d, type |-> y, stamp |-> x]
<1>1. new \in Row /\ new.decision = d /\ new.stamp = x
  BY DEF Row
<1>2. \A r \in rows : d # "escalated" => r.decision = "escalated"
  BY DEF Inv, StoreInv, OneResolution, UniqueViolation
<1>3. status \notin TerminalAuthStates
  BY <1>2 DEF Inv, StoreInv, OneResolution
<1>4. \A r \in rows : r.decision = "escalated"
  BY <1>3 DEF Inv, StoreInv, OneResolution
<1>5. OneResolution'
  <2> HIDE DEF new
  <2>1. rows' = rows \cup {new}
    BY DEF new
  <2> QED
    BY <1>1, <1>4, <2>1 DEF OneResolution, Decision, Resolving
<1>6. rows' \subseteq Row
  BY <1>1 DEF Inv, TypeOK
<1>7. \A r \in rows' : r.stamp < clock'
  BY <1>1 DEF Inv, TypeOK, StoreInv, Row
<1> QED
  BY <1>3, <1>5, <1>6, <1>7 DEF TerminalAuthStates

LEMMA SubmitPendingInv == ASSUME Inv, SubmitPending PROVE Inv'
<1>1. status = "absent" /\ rows = {}
  BY DEF SubmitPending, Inv, StoreInv
<1>2. \A o \in Operator : oper[o] # "landed"
  BY <1>1, StatusOfDecision DEF Inv, TypeOK, LandedDecisionHolds, Resolving
<1> QED
  BY <1>1, <1>2
  DEF SubmitPending, Inv, TypeOK, StoreInv, LandedDecisionHolds, OneResolution,
      TerminalAuthStates, Ended

LEMMA RecordTimeoutInv == ASSUME Inv, RecordTimeout PROVE Inv'
<1>1. CASE status \in TerminalAuthStates
  BY <1>1 DEF RecordTimeout, Inv, TypeOK, StoreInv, LandedDecisionHolds, OneResolution
<1>2. CASE status \notin TerminalAuthStates
  <2>1. /\ rows' = rows \cup {[decision |-> "rejected", type |-> "timeout", stamp |-> clock]}
        /\ status' = "timed_out"
        /\ clock' = clock + 1
        /\ gate' = "timedout"
        /\ UNCHANGED <<open, admitted, oper, choice>>
    BY <1>2 DEF RecordTimeout
  <2>2. /\ status # "absent"
        /\ clock \in Nat
        /\ "rejected" \in Decision
    BY DEF RecordTimeout, Inv, StoreInv, TypeOK, Decision, Resolving
  <2>3. /\ OneResolution'
        /\ rows' \subseteq Row
        /\ \A r \in rows' : r.stamp < clock'
    BY <1>2, <2>1, <2>2, InsertKeepsStore DEF TerminalAuthStates
  <2>4. \A o \in Operator : oper[o] # "landed"
    BY <1>2, StatusOfDecision DEF Inv, TypeOK, LandedDecisionHolds, Resolving, TerminalAuthStates
  <2> QED
    BY <2>1, <2>2, <2>3, <2>4
    DEF Inv, TypeOK, StoreInv, LandedDecisionHolds, TerminalAuthStates, Ended
<1> QED
  BY <1>1, <1>2

LEMMA SelectPendingInv == ASSUME Inv, NEW o \in Operator, SelectPending(o) PROVE Inv'
  BY DEF SelectPending, Inv, TypeOK, StoreInv, LandedDecisionHolds, OneResolution

LEMMA SubmitApprovalInv == ASSUME Inv, NEW o \in Operator, SubmitApproval(o) PROVE Inv'
<1>1. CASE UniqueViolation(choice[o])
  BY <1>1 DEF SubmitApproval, Inv, TypeOK, StoreInv, LandedDecisionHolds, OneResolution
<1>2. CASE ~UniqueViolation(choice[o])
  <2>1. /\ rows' = rows \cup {[decision |-> choice[o], type |-> "human", stamp |-> clock]}
        /\ status' = DecisionToAuthStatus[choice[o]]
        /\ clock' = clock + 1
        /\ oper' = [oper EXCEPT ![o] = "landed"]
        /\ UNCHANGED <<open, admitted, gate, choice>>
    BY <1>2 DEF SubmitApproval
  <2>2. /\ choice[o] \in Resolving
        /\ choice[o] \in Decision
        /\ choice[o] # "escalated"
        /\ clock \in Nat
        /\ status # "absent"
    BY DEF SubmitApproval, Inv, StoreInv, TypeOK, Decision, Resolving
  <2>3. /\ status' \in TerminalAuthStates
        /\ status' = "human_approved" <=> choice[o] = "approved"
    BY <2>1, <2>2, StatusOfDecision DEF Resolving, TerminalAuthStates
  <2>4. /\ OneResolution'
        /\ rows' \subseteq Row
        /\ \A r \in rows' : r.stamp < clock'
        /\ status \notin TerminalAuthStates
    BY <1>2, <2>1, <2>2, <2>3, InsertKeepsStore
  <2>5. \A p \in Operator : oper[p] # "landed"
    BY <2>4, StatusOfDecision DEF Inv, TypeOK, LandedDecisionHolds, Resolving, TerminalAuthStates
  <2>6. LandedDecisionHolds'
    BY <2>1, <2>5 DEF LandedDecisionHolds, Inv, TypeOK
  <2> QED
    BY <2>1, <2>2, <2>3, <2>4, <2>6 DEF Inv, TypeOK, StoreInv, TerminalAuthStates
<1> QED
  BY <1>1, <1>2

(* A row the ingest path inserts: its action is pending.                     *)
Inserts(d, y, x) ==
    /\ status = "pending"
    /\ clock - MaxDelay <= x
    /\ ~UniqueViolation(d)
    /\ rows' = rows \cup {[decision |-> d, type |-> y, stamp |-> x]}
    /\ status' = DecisionToAuthStatus[d]
    /\ clock' = clock + 1

LEMMA IngestCases ==
    ASSUME IngestApproval
    PROVE  /\ UNCHANGED <<open, gate, oper, choice>>
           /\ admitted' \in BOOLEAN
           /\ \/ UNCHANGED <<clock, status, rows>>
              \/ \E d \in Decision, y \in IngestTypes, x \in 0 .. clock : Inserts(d, y, x)
<1>1. admitted' = FALSE /\ UNCHANGED <<open, gate, oper, choice>>
  BY DEF IngestApproval
<1>2. CASE UNCHANGED <<clock, status, rows>>
  BY <1>1, <1>2
<1>3. CASE ~UNCHANGED <<clock, status, rows>>
  <2>1. PICK d \in Decision, y \in IngestTypes, x \in 0 .. clock : Inserts(d, y, x)
    BY <1>3 DEF IngestApproval, Inserts
  <2> QED
    BY <1>1, <2>1
<1> QED
  BY <1>2, <1>3

LEMMA IngestApprovalInv == ASSUME Inv, IngestApproval PROVE Inv'
<1>1. UNCHANGED <<open, gate, oper, choice>> /\ admitted' \in BOOLEAN
  BY IngestCases
<1>2. CASE UNCHANGED <<clock, status, rows>>
  BY <1>1, <1>2 DEF Inv, TypeOK, StoreInv, LandedDecisionHolds, OneResolution
<1>3. ASSUME NEW d \in Decision, NEW y \in IngestTypes, NEW x \in 0 .. clock, Inserts(d, y, x)
      PROVE  Inv'
  <2>1. /\ y \in {"human", "timeout"}
        /\ x \in Nat
        /\ x <= clock
        /\ clock \in Nat
        /\ status = "pending"
        /\ status \notin TerminalAuthStates
    BY <1>3, GateAssumption DEF Inserts, Inv, TypeOK, TerminalAuthStates
  <2>2. /\ status' \in TerminalAuthStates \cup {"pending"}
        /\ status' \in TerminalAuthStates <=> d # "escalated"
        /\ status' = "human_approved" <=> d = "approved"
    BY <1>3, StatusOfDecision DEF Inserts, Decision, Resolving, TerminalAuthStates
  <2>3. /\ OneResolution'
        /\ rows' \subseteq Row
        /\ \A r \in rows' : r.stamp < clock'
        /\ status' # "absent"
    BY <1>3, <2>1, <2>2, InsertKeepsStore DEF Inserts
  <2>4. \A p \in Operator : oper[p] # "landed"
    BY <2>1, StatusOfDecision DEF Inv, TypeOK, LandedDecisionHolds, Resolving, TerminalAuthStates
  <2>5. gate # "repoll" /\ gate # "submit"
    BY <2>1 DEF Inv, StoreInv
  <2>6. clock' \in Nat
    BY <1>3, <2>1 DEF Inserts
  <2>7. TypeOK'
    BY <1>1, <2>2, <2>3, <2>6 DEF Inv, TypeOK
  <2>8. StoreInv'
    BY <1>1, <2>1, <2>3, <2>5 DEF Inv, StoreInv
  <2>9. LandedDecisionHolds'
    BY <1>1, <2>4 DEF LandedDecisionHolds
  <2> QED
    BY <2>7, <2>8, <2>9 DEF Inv
<1> QED
  BY <1>2, <1>3, IngestCases

LEMMA NextInv == ASSUME Inv, [Next]_vars PROVE Inv'
<1>1. CASE UNCHANGED vars
  BY <1>1 DEF vars, Inv, TypeOK, StoreInv, LandedDecisionHolds, OneResolution
<1>2. CASE Tick \/ CloseSession \/ CheckDeadline \/ Poll \/ Wake \/ Repoll \/ GateFails
           \/ AdmitApproval
  BY <1>2, QuietStep
  DEF Tick, CloseSession, CheckDeadline, Poll, Wake, Repoll, GateFails, AdmitApproval
<1> QED
  BY <1>1, <1>2, SubmitPendingInv, RecordTimeoutInv, IngestApprovalInv, SelectPendingInv,
     SubmitApprovalInv DEF Next, Waiter

(* The store and the operators' view of it are consistent in every reachable *)
(* state.                                                                    *)
THEOREM InvHolds == Spec => []Inv
<1> QED
  BY InitInv, NextInv, PTL DEF Spec

(* The variables keep their types.                                           *)
THEOREM TypeCorrect == Spec => []TypeOK
  BY InvHolds, PTL DEF Inv

(* The row lock and the partial unique index admit one resolution per        *)
(* action, the one its status shows (CRUDApproval, migration 0004).          *)
THEOREM ResolvedOnce == Spec => []OneResolution
  BY InvHolds, PTL DEF Inv, StoreInv

(* A decision `rootsign approve` reported as recorded is the action's.       *)
THEOREM LandedHolds == Spec => []LandedDecisionHolds
  BY InvHolds, PTL DEF Inv

(* No step changes the status of a resolved action.                         *)
LEMMA FinalStep ==
    ASSUME Inv, [Next]_vars, status \in TerminalAuthStates
    PROVE  status' = status
<1>1. status # "pending" /\ status # "absent" /\ gate # "submit"
  BY DEF Inv, StoreInv, TerminalAuthStates
<1>2. \A o \in Operator : UniqueViolation(choice[o])
  BY DEF Inv, StoreInv, OneResolution, TypeOK, Resolving, UniqueViolation
<1>3. IngestApproval => status' = status
  BY <1>1, IngestCases DEF Inserts
<1> QED
  BY <1>1, <1>2, <1>3
  DEF Next, Waiter, Tick, CloseSession, CheckDeadline, Poll, Wake, Repoll, GateFails,
        AdmitApproval, SubmitPending, RecordTimeout, SelectPending, SubmitApproval, vars

(* Once resolved, always resolved the same way: every writer finds either    *)
(* the terminal status or the unique index in its way.                       *)
THEOREM ResolutionNeverChanges == Spec => ResolutionIsFinal
<1> QED
  BY FinalStep, InvHolds, PTL DEF Spec, ResolutionIsFinal

-------------------------------------------------------------------------------
(* The gate *)

(* The row that resolves the action is the latest one, so a poll that finds  *)
(* the action resolved reads that row.                                       *)
ResolvingRowIsLatest ==
    \A r, q \in rows : r.decision # "escalated" /\ q # r => q.stamp < r.stamp

GateInv == ResolvingRowIsLatest /\ GateSound

LEMMA GateStep ==
    ASSUME MaxDelay = 0, Inv, GateInv, [Next]_vars
    PROVE  GateInv'
<1>1. \A r \in rows : r \in Row /\ r.stamp < clock /\ r.stamp \in Nat
  BY DEF Inv, TypeOK, StoreInv, Row
<1>2. ASSUME NEW d, NEW y, status \notin TerminalAuthStates,
             rows' = rows \cup {[decision |-> d, type |-> y, stamp |-> clock]}
      PROVE  ResolvingRowIsLatest'
  <2>1. \A r \in rows : r.decision = "escalated"
    BY <1>2 DEF Inv, StoreInv, OneResolution
  <2> DEFINE new == [decision |-> d, type |-> y, stamp |-> clock]
  <2>2. new.stamp = clock /\ clock \in Nat
    BY DEF Inv, TypeOK
  <2>3. rows' = rows \cup {new}
    BY <1>2
  <2> HIDE DEF new
  <2> QED
    BY <1>1, <2>1, <2>2, <2>3 DEF ResolvingRowIsLatest
<1>3. CASE RecordTimeout
  BY <1>2, <1>3 DEF RecordTimeout, GateInv, GateSound, ResolvingRowIsLatest, TerminalAuthStates
<1>4. ASSUME NEW o \in Operator, SubmitApproval(o)
      PROVE  GateInv'
  <2>1. CASE UniqueViolation(choice[o])
    BY <1>4, <2>1 DEF SubmitApproval, GateInv, GateSound, ResolvingRowIsLatest
  <2>2. CASE ~UniqueViolation(choice[o])
    <3>1. status \notin TerminalAuthStates
      BY <2>2 DEF UniqueViolation, Inv, TypeOK, StoreInv, OneResolution, Resolving
    <3> QED
      BY <1>2, <1>4, <2>2, <3>1 DEF SubmitApproval, GateInv, GateSound, TerminalAuthStates
  <2> QED
    BY <2>1, <2>2
<1>5. CASE IngestApproval
  <2>1. CASE UNCHANGED <<clock, status, rows>>
    BY <1>5, <2>1, IngestCases DEF GateInv, GateSound, ResolvingRowIsLatest
  <2>2. ASSUME NEW d \in Decision, NEW y \in IngestTypes, NEW x \in 0 .. clock, Inserts(d, y, x)
        PROVE  GateInv'
    <3>1. x = clock
      BY <2>2 DEF Inserts, Inv, TypeOK
    <3>2. status = "pending" /\ gate' = gate
      BY <1>5, <2>2, IngestCases DEF Inserts
    <3> QED
      BY <1>2, <2>2, <3>1, <3>2 DEF Inserts, GateInv, GateSound, TerminalAuthStates
  <2> QED
    BY <1>5, <2>1, <2>2, IngestCases
<1>6. CASE Poll \/ Repoll
  <2>1. UNCHANGED <<status, rows>>
    BY <1>6 DEF Poll, Repoll
  <2>2. ASSUME gate' = "executed" PROVE status = "human_approved"
    <3>1. PICK r \in rows : Latest(r) /\ RaiseOrReturn(r)
      BY <1>6, <2>2 DEF Poll, Repoll
    <3>2. r.decision # "rejected"
      BY <2>2, <3>1 DEF RaiseOrReturn
    <3>3. \E q \in rows : q.decision # "escalated"
      BY <1>6, <2>2 DEF Poll, Repoll, Inv, StoreInv, OneResolution, Resolving
    <3>4. r.decision # "escalated"
      <4>1. PICK q \in rows : q.decision # "escalated"
        BY <3>3
      <4>2. r = q
        BY <1>1, <3>1, <4>1 DEF Latest, GateInv, ResolvingRowIsLatest
      <4> QED
        BY <4>1, <4>2
    <3> QED
      BY <1>1, <3>2, <3>4 DEF Inv, StoreInv, OneResolution, Row, Decision, Resolving
  <2> QED
    BY <2>1, <2>2 DEF GateInv, GateSound, ResolvingRowIsLatest
<1>7. CASE UNCHANGED vars \/ Tick \/ CloseSession \/ CheckDeadline \/ Wake \/ GateFails
           \/ AdmitApproval \/ SubmitPending \/ \E o \in Operator : SelectPending(o)
  <2>1. (UNCHANGED rows /\ gate' # "executed") \/ UNCHANGED <<rows, gate, status>>
    BY <1>7 DEF vars, Tick, CloseSession, CheckDeadline, Wake, GateFails, AdmitApproval,
                SubmitPending, SelectPending
  <2> QED
    BY <2>1 DEF GateInv, GateSound, ResolvingRowIsLatest
<1> QED
  BY <1>3, <1>4, <1>5, <1>6, <1>7 DEF Next, Waiter

(* As long as ingested approvals are not late, the gated tool runs only when *)
(* a resolving row approved it, whatever the deadline, the operators and the *)
(* ingest path do to each other (HiTLCheckpoint.wait_for_approval).          *)
THEOREM GateIsSound == ASSUME MaxDelay = 0 PROVE Spec => []GateSound
<1>1. Init => GateInv
  BY DEF Init, GateInv, GateSound, ResolvingRowIsLatest
<1> QED
  BY <1>1, GateStep, InvHolds, PTL DEF Spec, GateInv

-------------------------------------------------------------------------------
(* What the caller sees *)

(* A row with a human's rejection shows in the status.                       *)
RejectionShows ==
    \A r \in rows : r.decision = "rejected" /\ r.type = "human" => status = "human_rejected"

OutcomeInv == RejectionShows /\ OutcomeIsTheRow

(* Steps that do not end the call: rows are only added, and once the action  *)
(* is resolved its status stays.                                             *)
LEMMA UnendedStep ==
    ASSUME Inv, OutcomeInv, [Next]_vars, RejectionShows', rows \subseteq rows',
           gate' = gate \/ gate' \notin {"executed", "timedout", "rejected"}
    PROVE  OutcomeInv'
<1>1. gate = "rejected" => status' = "human_rejected"
  BY FinalStep DEF OutcomeInv, OutcomeIsTheRow, TerminalAuthStates
<1> QED
  BY <1>1 DEF OutcomeInv, OutcomeIsTheRow

LEMMA OutcomeStep ==
    ASSUME Inv, ResolvingRowIsLatest, OutcomeInv, [Next]_vars
    PROVE  OutcomeInv'
<1>1. \A r \in rows : r \in Row /\ r.stamp \in Nat
  BY DEF Inv, TypeOK, Row
<1>2. ASSUME status \notin TerminalAuthStates
      PROVE  \A r \in rows : r.decision = "escalated"
  BY <1>2 DEF Inv, StoreInv, OneResolution
<1>3. ASSUME status \notin TerminalAuthStates, NEW d, NEW y, NEW x,
             d = "rejected" /\ y = "human" => status' = "human_rejected",
             rows' = rows \cup {[decision |-> d, type |-> y, stamp |-> x]}
      PROVE  RejectionShows'
  BY <1>2, <1>3 DEF RejectionShows
<1>4. CASE RecordTimeout
  <2>1. CASE status \in TerminalAuthStates
    <3>1. UNCHANGED <<rows, status>> /\ gate' = "repoll"
      BY <1>4, <2>1 DEF RecordTimeout
    <3>2. RejectionShows'
      BY <3>1 DEF OutcomeInv, RejectionShows
    <3> QED
      BY <3>1, <3>2, UnendedStep
  <2>2. CASE status \notin TerminalAuthStates
    <3> DEFINE new == [decision |-> "rejected", type |-> "timeout", stamp |-> clock]
    <3>1. gate' = "timedout" /\ rows' = rows \cup {new}
      BY <1>4, <2>2 DEF RecordTimeout
    <3>2. RejectionShows'
      BY <1>3, <2>2, <3>1
    <3>3. new \in rows' /\ new.decision \in Resolving /\ new.type = "timeout"
      BY <3>1 DEF Resolving
    <3> HIDE DEF new
    <3> QED
      BY <3>1, <3>2, <3>3 DEF OutcomeInv, OutcomeIsTheRow
  <2> QED
    BY <2>1, <2>2
<1>5. ASSUME NEW o \in Operator, SubmitApproval(o)
      PROVE  OutcomeInv'
  <2>1. CASE UniqueViolation(choice[o])
    <3>1. UNCHANGED <<rows, status, gate>>
      BY <1>5, <2>1 DEF SubmitApproval
    <3>2. RejectionShows'
      BY <3>1 DEF OutcomeInv, RejectionShows
    <3> QED
      BY <3>1, <3>2, UnendedStep
  <2>2. CASE ~UniqueViolation(choice[o])
    <3>1. status \notin TerminalAuthStates
      BY <2>2 DEF UniqueViolation, Inv, TypeOK, StoreInv, OneResolution, Resolving
    <3>2. /\ rows' = rows \cup {[decision |-> choice[o], type |-> "human", stamp |-> clock]}
          /\ status' = DecisionToAuthStatus[choice[o]]
          /\ gate' = gate
      BY <1>5, <2>2 DEF SubmitApproval
    <3>3. RejectionShows'
      BY <1>3, <3>1, <3>2, StatusOfDecision
    <3> QED
      BY <3>2, <3>3, UnendedStep
  <2> QED
    BY <2>1, <2>2
<1>6. CASE IngestApproval
  <2>1. gate' = gate
    BY <1>6, IngestCases
  <2>2. CASE UNCHANGED <<clock, status, rows>>
    <3>1. RejectionShows'
      BY <2>2 DEF OutcomeInv, RejectionShows
    <3> QED
      BY <2>1, <2>2, <3>1, UnendedStep
  <2>3. ASSUME NEW d \in Decision, NEW y \in IngestTypes, NEW x \in 0 .. clock, Inserts(d, y, x)
        PROVE  OutcomeInv'
    <3>1. /\ status \notin TerminalAuthStates
          /\ rows' = rows \cup {[decision |-> d, type |-> y, stamp |-> x]}
          /\ status' = DecisionToAuthStatus[d]
      BY <2>3 DEF Inserts, TerminalAuthStates
    <3>2. RejectionShows'
      BY <1>3, <3>1, StatusOfDecision
    <3> QED
      BY <2>1, <3>1, <3>2, UnendedStep
  <2> QED
    BY <1>6, <2>2, <2>3, IngestCases
<1>7. CASE Poll \/ Repoll
  <2>1. UNCHANGED <<status, rows>>
    BY <1>7 DEF Poll, Repoll
  <2>2. RejectionShows'
    BY <2>1 DEF OutcomeInv, RejectionShows
  <2>3. CASE gate' = "sleep"
    BY <2>1, <2>2, <2>3, UnendedStep
  <2>4. CASE gate' # "sleep"
    <3>1. PICK r \in rows : Latest(r) /\ RaiseOrReturn(r)
      BY <1>7, <2>4 DEF Poll, Repoll
    <3>2. PICK q \in rows : q.decision # "escalated"
      BY <1>7, <2>4 DEF Poll, Repoll, Inv, StoreInv, OneResolution, Resolving
    <3>3. r = q
      BY <1>1, <3>1, <3>2 DEF Latest, ResolvingRowIsLatest
    <3>4. r.decision \in {"approved", "rejected"} /\ r.type \in {"human", "timeout"}
      BY <1>1, <3>2, <3>3 DEF Row, Decision, Resolving
    <3>5. r.decision = "rejected" /\ r.type = "human" => status' = "human_rejected"
      BY <2>1 DEF OutcomeInv, RejectionShows
    <3> QED
      BY <2>1, <2>2, <3>1, <3>4, <3>5 DEF RaiseOrReturn, OutcomeInv, OutcomeIsTheRow, Resolving
  <2> QED
    BY <2>3, <2>4
<1>8. CASE UNCHANGED vars \/ Tick \/ CloseSession \/ CheckDeadline \/ Wake \/ GateFails
           \/ AdmitApproval \/ \E o \in Operator : SelectPending(o)
  <2>1. /\ UNCHANGED <<rows, status>>
        /\ gate' = gate \/ gate' \notin {"executed", "timedout", "rejected"}
    BY <1>8 DEF vars, Tick, CloseSession, CheckDeadline, Wake, GateFails, AdmitApproval,
                SelectPending
  <2>2. RejectionShows'
    BY <2>1 DEF OutcomeInv, RejectionShows
  <2> QED
    BY <2>1, <2>2, UnendedStep
<1>9. CASE SubmitPending
  BY <1>9 DEF SubmitPending, Inv, StoreInv, OutcomeInv, RejectionShows, OutcomeIsTheRow
<1> QED
  BY <1>4, <1>5, <1>6, <1>7, <1>8, <1>9 DEF Next, Waiter

(* As long as ingested approvals are not late, what the caller is told is    *)
(* the row that resolved the action, whoever wrote it: the tool runs on an   *)
(* approval, and a human's rejection and a time-out are told apart by the    *)
(* row's approver_type (_raise_or_return).                                   *)
THEOREM OutcomeIsTheResolution ==
    ASSUME MaxDelay = 0
    PROVE  Spec => []OutcomeIsTheRow
<1>1. Init => GateInv /\ OutcomeInv
  BY DEF Init, GateInv, GateSound, ResolvingRowIsLatest, OutcomeInv, RejectionShows,
         OutcomeIsTheRow
<1>2. ASSUME Inv, GateInv, OutcomeInv, [Next]_vars
      PROVE  GateInv' /\ OutcomeInv'
  BY <1>2, GateStep, OutcomeStep DEF GateInv
<1> QED
  BY <1>1, <1>2, InvHolds, PTL DEF Spec, OutcomeInv

===============================================================================
