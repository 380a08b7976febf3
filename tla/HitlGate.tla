-------------------------------- MODULE HitlGate --------------------------------
(***************************************************************************)
(* One human-in-the-loop gate on the Postgres backend: the traced tool     *)
(* call that waits (sdk/decorator.py _emit_hitl_action, sdk/hitl.py), the  *)
(* operators who run `rootsign approve` (sdk/cli.py) and the               *)
(* APPROVAL_RECORDs that arrive by ingest, all writing the approvals table *)
(* through crud/approval.py.                                               *)
(*                                                                         *)
(* A transaction that takes the row lock (SELECT ... FOR UPDATE) runs to   *)
(* its commit as one step; what was read before the lock was taken is      *)
(* remembered.  The partial unique index of migration 0004 is part of the  *)
(* table.  A row's time stamp is the clock when it was made; each write    *)
(* takes a moment, so rows made here never tie.                            *)
(***************************************************************************)
EXTENDS Integers, FiniteSets

CONSTANTS
    Operator,     \* runs of `rootsign approve`, one decision each
    Deadline,     \* timeout_seconds on the clock
    Horizon,      \* bound on the clock
    MaxDelay,     \* bound on how late an ingested record arrives
    IngestTypes   \* approver_type of ingested records: "timeout" for the
                  \* sentinel timeout_auto_rejected, "human" for the others

ASSUME GateAssumption ==
    /\ Deadline \in Nat
    /\ Horizon \in Nat /\ Deadline <= Horizon
    /\ MaxDelay \in Nat
    /\ IngestTypes \subseteq {"human", "timeout"}

VARIABLES
    clock,     \* the time
    open,      \* the session's status is "running"
    admitted,  \* an APPROVAL_RECORD has passed the check for that
    status,    \* authorization_status; "absent" before the row exists
    rows,      \* the approvals of the action
    gate,      \* where the gated call is, or how it ended
    oper,      \* operator -> where `rootsign approve` is, or how it ended
    choice     \* operator -> the decision on its command line

vars == <<clock, open, admitted, status, rows, gate, oper, choice>>

Resolving == {"approved", "rejected"}

Decision == Resolving \cup {"escalated"}

Row == [decision : Decision, type : {"human", "timeout"}, stamp : Nat]

(* _DECISION_TO_AUTH_STATUS *)
DecisionToAuthStatus ==
    [approved |-> "human_approved", rejected |-> "human_rejected", escalated |-> "pending"]

(* _TERMINAL_AUTH_STATES *)
TerminalAuthStates == {"human_approved", "human_rejected", "timed_out"}

(* How the call can end: the tool ran, or an exception reached the caller.   *)
Ended == {"executed", "rejected", "timedout", "failed"}

(* The row _poll_once reads: the latest by time stamp.                       *)
Latest(r) == r \in rows /\ \A q \in rows : q.stamp <= r.stamp

(* Mutant of UniqueViolation: migration 0004 is missing. *)
NoUniqueIndex(decision) == FALSE

(* uq_approvals_action_resolution: one row per action other than escalated.  *)
UniqueViolation(decision) ==
    decision # "escalated" /\ \E r \in rows : r.decision # "escalated"

-------------------------------------------------------------------------------
Init ==
    /\ clock = 0
    /\ open = TRUE
    /\ admitted = FALSE
    /\ status = "absent"
    /\ rows = {}
    /\ gate = "submit"
    /\ oper = [o \in Operator |-> "idle"]
    /\ choice \in [Operator -> Resolving]

(* Time passes. *)
Tick ==
    /\ clock < Horizon
    /\ clock' = clock + 1
    /\ UNCHANGED <<open, admitted, status, rows, gate, oper, choice>>

(* SESSION_CLOSE of the session. *)
CloseSession ==
    /\ open
    /\ open' = FALSE
    /\ UNCHANGED <<clock, admitted, status, rows, gate, oper, choice>>

(* _emit_hitl_action submits the pending ACTION_RECORD.  Without an accepted *)
(* answer the call raises, whether or not the row landed.                    *)
SubmitPending ==
    /\ gate = "submit"
    /\ \/ gate' = "check" /\ status' = "pending"
       \/ gate' = "failed" /\ status' \in {"absent", "pending"}
    /\ UNCHANGED <<clock, open, admitted, rows, oper, choice>>

(* The loop condition of wait_for_approval.                                  *)
CheckDeadline ==
    /\ gate = "check"
    /\ gate' = IF clock < Deadline THEN "poll" ELSE "expired"
    /\ UNCHANGED <<clock, open, admitted, status, rows, oper, choice>>

(* _raise_or_return: the sentinel approver_type first, then the decision.    *)
RaiseOrReturn(r) ==
    gate' = CASE r.type = "timeout" -> "timedout"
              [] r.type # "timeout" /\ r.decision = "rejected" -> "rejected"
              [] OTHER -> "executed"

(* Mutant of Poll: any row ends the wait. *)
EscalationOpens ==
    /\ gate = "poll"
    /\ IF rows # {}
       THEN \E r \in rows : Latest(r) /\ RaiseOrReturn(r)
       ELSE gate' = "sleep"
    /\ UNCHANGED <<clock, open, admitted, status, rows, oper, choice>>

(* _poll_once, and the tool when the row approves it.                        *)
Poll ==
    /\ gate = "poll"
    /\ IF \E r \in rows : Latest(r) /\ r.decision \in Resolving
       THEN \E r \in rows : Latest(r) /\ RaiseOrReturn(r)
       ELSE gate' = "sleep"
    /\ UNCHANGED <<clock, open, admitted, status, rows, oper, choice>>

(* Mutant of Wake: the deadline is checked once. *)
WakeToPoll ==
    /\ gate = "sleep"
    /\ gate' = "poll"
    /\ UNCHANGED <<clock, open, admitted, status, rows, oper, choice>>

(* asyncio.sleep(poll_interval) is over. *)
Wake ==
    /\ gate = "sleep"
    /\ gate' = "check"
    /\ UNCHANGED <<clock, open, admitted, status, rows, oper, choice>>

(* Mutant of RecordTimeout: a resolved action is not looked for. *)
TimeoutOverwrites ==
    /\ gate = "expired"
    /\ rows' = rows \cup {[decision |-> "rejected", type |-> "timeout", stamp |-> clock]}
    /\ status' = "timed_out"
    /\ clock' = clock + 1
    /\ gate' = "timedout"
    /\ UNCHANGED <<open, admitted, oper, choice>>

(* _record_timeout: create_with_chain_link on a fresh session re-reads the   *)
(* locked action; a resolved one sends the call back to the approvals.       *)
RecordTimeout ==
    /\ gate = "expired"
    /\ IF status \in TerminalAuthStates
       THEN /\ gate' = "repoll"
            /\ UNCHANGED <<clock, status, rows>>
       ELSE /\ rows' = rows \cup {[decision |-> "rejected", type |-> "timeout", stamp |-> clock]}
            /\ status' = "timed_out"
            /\ clock' = clock + 1
            /\ gate' = "timedout"
    /\ UNCHANGED <<open, admitted, oper, choice>>

(* Mutant of Repoll: the lost race still raises a time-out. *)
RepollTimesOut ==
    /\ gate = "repoll"
    /\ gate' = "timedout"
    /\ UNCHANGED <<clock, open, admitted, status, rows, oper, choice>>

(* The last _poll_once of _record_timeout; its row is surfaced as it is.     *)
Repoll ==
    /\ gate = "repoll"
    /\ \E r \in rows : Latest(r) /\ RaiseOrReturn(r)
    /\ UNCHANGED <<clock, open, admitted, status, rows, oper, choice>>

(* The database fails under the waiting call, or its task is cancelled: the  *)
(* exception leaves _emit_hitl_action before the tool.                       *)
GateFails ==
    /\ gate \in {"poll", "sleep", "expired", "repoll"}
    /\ gate' = "failed"
    /\ UNCHANGED <<clock, open, admitted, status, rows, oper, choice>>

(* _submit_approval: the first SELECT, which takes no lock.                  *)
SelectPending(o) ==
    /\ oper[o] = "idle"
    /\ oper' = [oper EXCEPT ![o] = IF status = "pending" THEN "selected" ELSE "notpending"]
    /\ UNCHANGED <<clock, open, admitted, status, rows, gate, choice>>

(* create_with_chain_link in the session that already holds the action: the  *)
(* locking SELECT returns that object, still "pending", so the terminal      *)
(* guard passes and only the unique index can refuse.                        *)
SubmitApproval(o) ==
    /\ oper[o] = "selected"
    /\ IF UniqueViolation(choice[o])
       THEN /\ oper' = [oper EXCEPT ![o] = "integrityerror"]
            /\ UNCHANGED <<clock, status, rows>>
       ELSE /\ rows' = rows \cup {[decision |-> choice[o], type |-> "human", stamp |-> clock]}
            /\ status' = DecisionToAuthStatus[choice[o]]
            /\ clock' = clock + 1
            /\ oper' = [oper EXCEPT ![o] = "landed"]
    /\ UNCHANGED <<open, admitted, gate, choice>>

(* _handle_approval_record finds the session running.                        *)
AdmitApproval ==
    /\ open
    /\ ~admitted
    /\ admitted' = TRUE
    /\ UNCHANGED <<clock, open, status, rows, gate, oper, choice>>

(* create_with_action_status_update under the row lock: refused once the     *)
(* action is resolved, else the row is inserted with the sender's time       *)
(* stamp, up to MaxDelay old.  parent_approval_id only adds refusals.        *)
IngestApproval ==
    /\ admitted
    /\ admitted' = FALSE
    /\ \/ UNCHANGED <<clock, status, rows>>
       \/ /\ status = "pending"
          /\ clock < Horizon
          /\ \E d \in Decision, y \in IngestTypes, x \in 0 .. clock :
                /\ clock - MaxDelay <= x
                /\ \A r \in rows : r.stamp # x
                /\ ~UniqueViolation(d)
                /\ rows' = rows \cup {[decision |-> d, type |-> y, stamp |-> x]}
                /\ status' = DecisionToAuthStatus[d]
                /\ clock' = clock + 1
    /\ UNCHANGED <<open, gate, oper, choice>>

Waiter == SubmitPending \/ CheckDeadline \/ Poll \/ Wake \/ RecordTimeout \/ Repoll

Next ==
    \/ Tick
    \/ CloseSession
    \/ Waiter
    \/ GateFails
    \/ AdmitApproval
    \/ IngestApproval
    \/ \E o \in Operator : SelectPending(o) \/ SubmitApproval(o)

Spec == Init /\ [][Next]_vars

(* Time passes and the event loop resumes the waiting call; nobody owes it a *)
(* decision.                                                                 *)
Fairness == WF_vars(Tick) /\ WF_vars(Waiter)

FairSpec == Spec /\ Fairness

-------------------------------------------------------------------------------
(* Properties *)

(* The statuses and rows are ones the columns' CHECK constraints allow.      *)
TypeOK ==
    /\ clock \in Nat
    /\ open \in BOOLEAN
    /\ admitted \in BOOLEAN
    /\ status \in TerminalAuthStates \cup {"absent", "pending"}
    /\ rows \subseteq Row
    /\ gate \in Ended \cup {"submit", "check", "poll", "sleep", "expired", "repoll"}
    /\ oper \in [Operator -> {"idle", "selected", "notpending", "landed", "integrityerror"}]
    /\ choice \in [Operator -> Resolving]

(* The tool behind the gate runs only once a resolving row approved it:      *)
(* "The tool is NEVER executed in those paths" (decorator.py:482).           *)
GateSound == gate = "executed" => status = "human_approved"

(* However the deadline, the operators and the ingest path race, the caller  *)
(* is told what the row says that resolved the action: the tool runs on an   *)
(* approval, a rejection and a time-out are raised each under its own name   *)
(* (hitl.py:239), and a rejection that is raised is the action's status.     *)
OutcomeIsTheRow ==
    /\ gate = "executed" => \E r \in rows : r.decision = "approved" /\ r.type = "human"
    /\ gate = "timedout" => \E r \in rows : r.decision \in Resolving /\ r.type = "timeout"
    /\ gate = "rejected" => /\ status = "human_rejected"
                            /\ \E r \in rows : r.decision = "rejected" /\ r.type = "human"

(* "By the time this is raised, the SDK has already written" the status      *)
(* timed_out (errors.py:130), which ADR-007 keeps apart from human_rejected. *)
(* It does not hold.                                                         *)
TimeoutIsRecorded == gate = "timedout" => status = "timed_out"

(* At most one approval resolves an action, and the status is its decision:  *)
(* no resolver overwrites another one's (audit #5).                          *)
OneResolution ==
    /\ \A r, q \in rows : r.decision # "escalated" /\ q.decision # "escalated" => r = q
    /\ status \in TerminalAuthStates <=> \E r \in rows : r.decision # "escalated"
    /\ status = "human_approved" <=> \E r \in rows : r.decision = "approved"

(* An operator who was told the decision was recorded is in the trail, and   *)
(* stays there.                                                              *)
LandedDecisionHolds ==
    \A o \in Operator :
        oper[o] = "landed" => /\ status = DecisionToAuthStatus[choice[o]]
                              /\ \A p \in Operator : oper[p] = "landed" => p = o

(* A resolved action never changes its status again.                         *)
ResolutionIsFinal == [][(status \in TerminalAuthStates) => (status' = status)]_vars

(* The gate always opens, closes or fails: the deadline bounds the wait,     *)
(* whoever does or does not answer.                                          *)
GateEnds == <>(gate \in Ended)

(* An approval that lands while the call waits lets the tool run, unless the *)
(* call dies first: it is not lost to the deadline.                          *)
ApprovalReachesGate ==
    (\E r \in rows : r.decision = "approved" /\ r.type = "human")
        ~> gate \in {"executed", "failed"}

===============================================================================
