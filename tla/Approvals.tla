----------------------------- MODULE Approvals -----------------------------
(***************************************************************************)
(* The approvals add-on: ApprovalService::decide, called from the admin    *)
(* grid and from REST, and the reconciliation sweep of the task table.     *)
(* Each action is one conditional statement and the branch on its outcome. *)
(***************************************************************************)
EXTENDS ResumePath

CONSTANT Approvers   \* concurrent decide() calls

VARIABLES
    approver,    \* approver[a]: the decision in progress
    reconciler   \* the reconciliation in progress, with what it has read

approvalVars == <<approver, reconciler>>

IdleApprover == [pc |-> "idle", gate |-> NoStep, verdict |-> "approved"]

ApproverState ==
    [pc: {"idle", "claim", "write", "publish", "clear", "unpark", "reopen"},
     gate: Targets, verdict: Verdicts]

IdleReconciler == [pc |-> "idle", open |-> {}, seen |-> NullRow]

ReconcilerState == [pc: {"idle", "read", "close"}, open: SUBSET Steps, seen: ExecRow]

ApprovalInit ==
    /\ approver = [a \in Approvers |-> IdleApprover]
    /\ reconciler = IdleReconciler

ApproverAt(a, label) == approver[a].pc = label
ApproverGoto(a, label) == approver' = [approver EXCEPT ![a].pc = label]
ApproverDone(a) == approver' = [approver EXCEPT ![a] = IdleApprover]
-----------------------------------------------------------------------------
(***************************************************************************)
(* ApprovalService::decide.  A task that is not open is refused without    *)
(* any change, so only the call that claims it is an action.               *)
(***************************************************************************)
ClaimTask(a) ==
    /\ ApproverAt(a, "idle")
    /\ \E s \in Steps, verdict \in Verdicts :
          /\ task[s] = "open"
          /\ task' = [task EXCEPT ![s] = verdict]
          /\ approver' = [approver EXCEPT ![a] =
                            [pc |-> "claim", gate |-> s, verdict |-> verdict]]
    /\ UNCHANGED <<exec, snapshotOk, rows, queue, faults, executorVars, resumeVars, reconciler>>

\* The execution claim is scoped to the gate; a lost race reopens the task.
ClaimGate(a) ==
    /\ ApproverAt(a, "claim")
    /\ \/ /\ exec.current = approver[a].gate
          /\ ClaimWaiting
          /\ ApproverGoto(a, "write")
       \/ /\ exec.current # approver[a].gate \/ exec.status # "waiting"
          /\ ApproverGoto(a, "reopen")
          /\ UNCHANGED exec
    /\ UNCHANGED <<snapshotOk, rows, task, queue, faults, executorVars, resumeVars, reconciler>>

\* UPDATE of the gate's own rows, those that wait only.
SetGateResult(s, result) ==
    rows' = [rows EXCEPT ![s] = [i \in Slots |->
               IF rows[s][i].status = "waiting"
               THEN [rows[s][i] EXCEPT !.result = result] ELSE rows[s][i]]]

WriteVerdict(a) ==
    /\ ApproverAt(a, "write")
    /\ SetGateResult(approver[a].gate, approver[a].verdict)
    /\ ApproverGoto(a, "publish")
    /\ UNCHANGED <<exec, snapshotOk, task, queue, faults, executorVars, resumeVars, reconciler>>

PublishVerdict(a) ==
    /\ ApproverAt(a, "publish")
    /\ \/ Publish("resume") /\ ApproverDone(a) /\ UNCHANGED faults
       \/ Fault("publish") /\ ApproverGoto(a, "clear") /\ UNCHANGED queue
    /\ UNCHANGED <<exec, snapshotOk, rows, task, executorVars, resumeVars, reconciler>>

\* The publish failed: the result, the execution and the task go back, in this order.
ClearVerdict(a) ==
    /\ ApproverAt(a, "clear")
    /\ SetGateResult(approver[a].gate, NoResult)
    /\ ApproverGoto(a, "unpark")
    /\ UNCHANGED <<exec, snapshotOk, task, queue, faults, executorVars, resumeVars, reconciler>>

RollbackGate(a) ==
    /\ ApproverAt(a, "unpark")
    /\ RollbackClaim
    /\ ApproverGoto(a, "reopen")
    /\ UNCHANGED <<snapshotOk, rows, task, queue, faults, executorVars, resumeVars, reconciler>>

\* rollbackTaskClaim, guarded on the verdict this call wrote.
ReopenTask(a) ==
    /\ ApproverAt(a, "reopen")
    /\ task' = [task EXCEPT ![approver[a].gate] =
                  IF @ = approver[a].verdict THEN "open" ELSE @]
    /\ ApproverDone(a)
    /\ UNCHANGED <<exec, snapshotOk, rows, queue, faults, executorVars, resumeVars, reconciler>>

ApproverStep(a) ==
    \/ ClaimTask(a) \/ ClaimGate(a) \/ WriteVerdict(a) \/ PublishVerdict(a)
    \/ ClearVerdict(a) \/ RollbackGate(a) \/ ReopenTask(a)
-----------------------------------------------------------------------------
(***************************************************************************)
(* Cron/ReconcileApprovals: the open tasks are read first, the executions  *)
(* they belong to after them, and each task is closed by a statement of    *)
(* its own.                                                                *)
(***************************************************************************)
OpenTasks == {s \in Steps : task[s] = "open"}

SelectOpenTasks ==
    /\ reconciler.pc = "idle"
    /\ OpenTasks # {}
    /\ reconciler' = [reconciler EXCEPT !.pc = "read", !.open = OpenTasks]
    /\ UNCHANGED <<storeVars, executorVars, resumeVars, approver>>

\* Mutant of SelectExecutions: a parked gate is not left alone.
SelectExecutionsEvenParked ==
    /\ reconciler.pc = "read"
    /\ reconciler' = [reconciler EXCEPT !.pc = "close", !.seen = exec]
    /\ UNCHANGED <<storeVars, executorVars, resumeVars, approver>>

\* A task is left alone while the execution's current_step is its gate.
SelectExecutions ==
    /\ reconciler.pc = "read"
    /\ LET left == IF exec.status \in Terminal THEN reconciler.open
                   ELSE reconciler.open \ {exec.current}
       IN  reconciler' = IF left = {} THEN IdleReconciler
                         ELSE [pc |-> "close", open |-> left, seen |-> exec]
    /\ UNCHANGED <<storeVars, executorVars, resumeVars, approver>>

\* Mutant of CloseTask: only tasks of live executions are closed.
CloseTaskOfLiveExecution ==
    /\ reconciler.pc = "close"
    /\ \E s \in reconciler.open :
          /\ IF reconciler.seen.status \in Terminal THEN UNCHANGED task ELSE ExpireTask(s)
          /\ reconciler' = IF reconciler.open = {s} THEN IdleReconciler
                           ELSE [reconciler EXCEPT !.open = @ \ {s}]
    /\ UNCHANGED <<exec, snapshotOk, rows, queue, faults, executorVars, resumeVars, approver>>

CloseTask ==
    /\ reconciler.pc = "close"
    /\ \E s \in reconciler.open :
          /\ IF reconciler.seen.status \in Terminal
             THEN task' = [task EXCEPT ![s] = IF @ = "open" THEN "orphaned" ELSE @]
             ELSE ExpireTask(s)
          /\ reconciler' = IF reconciler.open = {s} THEN IdleReconciler
                           ELSE [reconciler EXCEPT !.open = @ \ {s}]
    /\ UNCHANGED <<exec, snapshotOk, rows, queue, faults, executorVars, resumeVars, approver>>

ReconcilerStep == SelectOpenTasks \/ SelectExecutions \/ CloseTask

ApprovalTypeOK ==
    /\ approver \in [Approvers -> ApproverState]
    /\ reconciler \in ReconcilerState
=============================================================================
