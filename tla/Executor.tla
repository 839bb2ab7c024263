------------------------------ MODULE Executor ------------------------------
(***************************************************************************)
(* Executor::execute and the graph walk, as run by the queue consumers.    *)
(* A consumer holds one message at a time; each of its actions is at most  *)
(* one database statement and the computation around it.                   *)
(***************************************************************************)
EXTENDS ExecutionStore

CONSTANTS
    HasRootConditions,  \* an entity and a workflow to evaluate root conditions on
    ApprovalsInstalled, \* an ApprovalTaskManagerInterface is bound
    MaxStepsPerRun      \* MAX_STEPS_PER_RUN

VARIABLES
    worker,   \* worker[c]: what consumer c is doing, with its copy of the row
    effects   \* effects[s]: how often action step s was performed successfully

executorVars == <<worker, effects>>

ASSUME ExecutorAssumption ==
    /\ HasRootConditions \in BOOLEAN
    /\ ApprovalsInstalled \in BOOLEAN
    /\ MaxStepsPerRun \in Nat

NoParked == [step |-> NoStep, result |-> NoResult]

NullRow == [status |-> "pending", current |-> NoStep, event |-> NoEvent]

IdleWorker == [pc |-> "idle", topic |-> "execute", step |-> NoStep, iterations |-> 0,
               mem |-> NullRow, snap |-> NullRow, parked |-> NoParked]

ExecutorLabels == {"load", "skip", "enter", "arrive", "claim", "insert", "act", "acted",
                   "route", "stop", "gate", "park_row", "park_exec", "complete",
                   "fail", "orphan", "ack"}

ResumeLabels == {"resume_load", "fetch", "close", "expire", "mark_running"}

WorkerState == [pc: {"idle"} \cup ExecutorLabels \cup ResumeLabels,
                topic: Topics, step: Targets, iterations: Nat,
                mem: ExecRow, snap: ExecRow,
                parked: [step: Targets, result: Resolutions \cup {NoResult, "output"}]]

At(c, label) == worker[c].pc = label
Goto(c, label) == worker' = [worker EXCEPT ![c].pc = label]

\* Mutant of SaveAs: the model still compares with the fields it loaded.
SaveKeepingOrigData(c, m, label) ==
    /\ exec' = DirtyFields(exec, worker[c].snap, m)
    /\ worker' = [worker EXCEPT ![c].mem = m, ![c].pc = label]

\* $this->executionRepository->save($execution), then on to label.
SaveAs(c, m, label) ==
    /\ exec' = DirtyFields(exec, worker[c].snap, m)
    /\ worker' = [worker EXCEPT ![c].mem = m, ![c].snap = m, ![c].pc = label]

ExecutorInit ==
    /\ worker = [c \in Consumers |-> IdleWorker]
    /\ effects = [s \in Steps |-> 0]
-----------------------------------------------------------------------------
(***************************************************************************)
(* Receiving a message; the consumers' process() and the row they load.    *)
(***************************************************************************)
\* Mutant of Receive: a consumer takes a message off an empty queue.
ReceiveOffByOne(c) ==
    /\ At(c, "idle")
    /\ \E topic \in Topics :
          /\ queue[topic] >= 0
          /\ queue' = [queue EXCEPT ![topic] = @ - 1]
          /\ worker' = [worker EXCEPT ![c].topic = topic,
                            ![c].pc = IF topic = "execute" THEN "load" ELSE "resume_load"]
    /\ UNCHANGED <<exec, snapshotOk, rows, task, faults, effects>>

Receive(c) ==
    /\ At(c, "idle")
    /\ \E topic \in Topics :
          /\ queue[topic] > 0
          /\ queue' = [queue EXCEPT ![topic] = @ - 1]
          /\ worker' = [worker EXCEPT ![c].topic = topic,
                            ![c].pc = IF topic = "execute" THEN "load" ELSE "resume_load"]
    /\ UNCHANGED <<exec, snapshotOk, rows, task, faults, effects>>

Acknowledge(c) ==
    /\ At(c, "ack")
    /\ worker' = [worker EXCEPT ![c] = IdleWorker]
    /\ UNCHANGED <<storeVars, effects>>

\* A terminal or parked execution is none of an execute message's business.
DropMessage(c) ==
    /\ At(c, "load")
    /\ exec.status \in Terminal \cup {"waiting"}
    /\ Goto(c, "ack")
    /\ UNCHANGED <<storeVars, effects>>

Loaded(c) == At(c, "load") /\ exec.status \in {"pending", "running"}

\* getById has returned row exec; m is what the executor makes of it.
LoadAs(c, m, label) ==
    worker' = [worker EXCEPT ![c].snap = exec, ![c].mem = m, ![c].step = m.current,
                             ![c].iterations = 0, ![c].parked = NoParked, ![c].pc = label]

RejectSnapshot(c) ==
    /\ Loaded(c)
    /\ ~snapshotOk
    /\ LoadAs(c, exec, "fail")
    /\ UNCHANGED <<storeVars, effects>>

\* Root conditions are evaluated when the row is still pending, and fail here.
SkipByConditions(c) ==
    /\ Loaded(c)
    /\ snapshotOk
    /\ exec.status = "pending"
    /\ HasRootConditions
    /\ LoadAs(c, [exec EXCEPT !.status = "skipped"], "skip")
    /\ UNCHANGED <<storeVars, effects>>

SaveSkipped(c) ==
    /\ At(c, "skip")
    /\ SaveAs(c, worker[c].mem, "ack")
    /\ UNCHANGED <<snapshotOk, rows, task, queue, faults, effects>>

StartStep == IF exec.current # NoStep THEN exec.current
             ELSE IF exec.status = "pending" THEN Entry ELSE NoStep

BeginWalk(c) ==
    /\ Loaded(c)
    /\ snapshotOk
    /\ StartStep # NoStep
    /\ LoadAs(c, [exec EXCEPT !.status = "running", !.current = StartStep], "enter")
    /\ UNCHANGED <<storeVars, effects>>

\* Resumed past a trailing park, or a definition without steps.
NothingLeftToWalk(c) ==
    /\ Loaded(c)
    /\ snapshotOk
    /\ StartStep = NoStep
    /\ LoadAs(c, exec, "complete")
    /\ UNCHANGED <<storeVars, effects>>

EnterWalk(c) ==
    /\ At(c, "enter")
    /\ SaveAs(c, worker[c].mem, "arrive")
    /\ UNCHANGED <<snapshotOk, rows, task, queue, faults, effects>>
-----------------------------------------------------------------------------
(***************************************************************************)
(* walk(): one step after the other.                                       *)
(***************************************************************************)
Continue(c, next) ==
    worker' = [worker EXCEPT ![c].step = next,
                             ![c].pc = IF next = NoStep THEN "complete" ELSE "arrive"]

ExceedIterations(c) ==
    /\ At(c, "arrive")
    /\ worker[c].iterations = MaxStepsPerRun
    /\ Goto(c, "fail")
    /\ UNCHANGED <<storeVars, effects>>

\* Mutant of ArriveAtStep: the iteration count never grows.
ArriveUncounted(c) ==
    /\ At(c, "arrive")
    /\ worker[c].iterations < MaxStepsPerRun
    /\ SaveAs(c, [worker[c].mem EXCEPT !.current = worker[c].step], "claim")
    /\ UNCHANGED <<snapshotOk, rows, task, queue, faults, effects>>

\* State in the database before the side effect: first the execution row ...
ArriveAtStep(c) ==
    /\ At(c, "arrive")
    /\ worker[c].iterations < MaxStepsPerRun
    /\ LET m == [worker[c].mem EXCEPT !.current = worker[c].step]
       IN  /\ exec' = DirtyFields(exec, worker[c].snap, m)
           /\ worker' = [worker EXCEPT ![c].mem = m, ![c].snap = m, ![c].pc = "claim",
                                       ![c].iterations = @ + 1]
    /\ UNCHANGED <<snapshotOk, rows, task, queue, faults, effects>>

StepLabel(s) ==
    CASE StepType[s] = "action"             -> "act"
      [] StepType[s] \in {"delay", "wait"}  -> "park_row"
      [] StepType[s] = "approval"           -> "gate"
      [] StepType[s] \in {"branch", "switch"} -> "route"
      [] StepType[s] = "stop"               -> "stop"

\* Mutant of ClaimStepRow: the row is inserted without looking for it.
InsertWithoutSelect(c) ==
    /\ At(c, "claim")
    /\ Goto(c, "insert")
    /\ UNCHANGED storeVars
    /\ UNCHANGED effects

\* ... then the step row: upsertStepRow selects it, and updates it if it is there ...
ClaimStepRow(c) ==
    /\ At(c, "claim")
    /\ LET s == worker[c].step
       IN  \/ /\ RowsOf(s) = {}
              /\ Goto(c, "insert")
              /\ UNCHANGED rows
           \/ /\ \E i \in RowsOf(s) :
                    rows' = [rows EXCEPT ![s][i].status = "running", ![s][i].stale = FALSE]
              /\ Goto(c, StepLabel(s))
    /\ UNCHANGED <<exec, snapshotOk, task, queue, faults, effects>>

\* ... and inserts it if it was not, whatever happened since the SELECT.
InsertStepRow(c) ==
    /\ At(c, "insert")
    /\ \E i \in Slots :
          /\ RowsOf(worker[c].step) = 1..(i - 1)
          /\ rows' = [rows EXCEPT ![worker[c].step][i] = [AbsentRow EXCEPT !.status = "running"]]
    /\ Goto(c, StepLabel(worker[c].step))
    /\ UNCHANGED <<exec, snapshotOk, task, queue, faults, effects>>

PerformAction(c) ==
    /\ At(c, "act")
    /\ effects' = [effects EXCEPT ![worker[c].step] = @ + 1]
    /\ Goto(c, "acted")
    /\ UNCHANGED storeVars

\* Mutant of RecordSuccess: the walk does not move on.
RecordSuccessAndStay(c) ==
    /\ At(c, "acted")
    /\ SetStepRow(worker[c].step, "complete", "output")
    /\ Continue(c, worker[c].step)
    /\ UNCHANGED <<exec, snapshotOk, task, queue, faults, effects>>

RecordSuccess(c) ==
    /\ At(c, "acted")
    /\ SetStepRow(worker[c].step, "complete", "output")
    /\ Continue(c, Edge[worker[c].step]["next"])
    /\ UNCHANGED <<exec, snapshotOk, task, queue, faults, effects>>

\* The step goes back to pending and the exception makes the queue redeliver.
ActionToRetry(c) ==
    /\ At(c, "act")
    /\ Fault("retry")
    /\ \E i \in RowsOf(worker[c].step) :
          rows' = [rows EXCEPT ![worker[c].step][i].status = "pending"]
    /\ Publish(worker[c].topic)
    /\ worker' = [worker EXCEPT ![c] = IdleWorker]
    /\ UNCHANGED <<exec, snapshotOk, task, effects>>

\* A terminal failure, or an action code nobody registered: failStep.
ActionFails(c) ==
    /\ At(c, "act")
    /\ \E result \in {NoResult, "output"} : SetStepRow(worker[c].step, "failed", result)
    /\ Goto(c, "fail")
    /\ UNCHANGED <<exec, snapshotOk, task, queue, faults, effects>>

\* runBranchStep and runSwitchStep: the row is complete before the edge is followed.
FollowEdge(c) ==
    /\ At(c, "route")
    /\ SetStepRow(worker[c].step, "complete", "output")
    /\ \E next \in Successors(worker[c].step) : Continue(c, next)
    /\ UNCHANGED <<exec, snapshotOk, task, queue, faults, effects>>

\* Mutant of ReachStop: the row of the stop step is left running.
ReachStopSilently(c) ==
    /\ At(c, "stop")
    /\ Goto(c, "complete")
    /\ UNCHANGED <<storeVars, effects>>

ReachStop(c) ==
    /\ At(c, "stop")
    /\ \E i \in RowsOf(worker[c].step) :
          rows' = [rows EXCEPT ![worker[c].step][i].status = "complete"]
    /\ Goto(c, "complete")
    /\ UNCHANGED <<exec, snapshotOk, task, queue, faults, effects>>
-----------------------------------------------------------------------------
(***************************************************************************)
(* Parking: runDelayStep, runWaitStep, runApprovalStep.                    *)
(***************************************************************************)
OpenGate(c) ==
    /\ At(c, "gate")
    /\ ApprovalsInstalled
    /\ CreateTask(worker[c].step)
    /\ Goto(c, "park_row")
    /\ UNCHANGED <<exec, snapshotOk, rows, queue, faults, effects>>

GateWithoutModule(c) ==
    /\ At(c, "gate")
    /\ ~ApprovalsInstalled
    /\ SetStepRow(worker[c].step, "failed", NoResult)
    /\ Goto(c, "fail")
    /\ UNCHANGED <<exec, snapshotOk, task, queue, faults, effects>>

\* The row waits first, with resume_at ahead; an earlier result stays in it.
ParkStepRow(c) ==
    /\ At(c, "park_row")
    /\ \E i \in RowsOf(worker[c].step) :
          rows' = [rows EXCEPT ![worker[c].step][i].status = "waiting",
                               ![worker[c].step][i].due = FALSE]
    /\ Goto(c, "park_exec")
    /\ UNCHANGED <<exec, snapshotOk, task, queue, faults, effects>>

\* Mutant of ParkedAs: a delay parks on itself too.
ParkedOnItself(s, m) ==
    [status |-> "waiting", current |-> s,
     event |-> IF StepType[s] = "wait" THEN EventOf[s] ELSE NoEvent]

\* A delay parks on the step after it; a wait and a gate park on themselves.
ParkedAs(s, m) ==
    CASE StepType[s] = "delay" -> [m EXCEPT !.status = "waiting", !.current = Edge[s]["next"]]
      [] StepType[s] = "wait"  -> [status |-> "waiting", current |-> s, event |-> EventOf[s]]
      [] OTHER                 -> [status |-> "waiting", current |-> s, event |-> NoEvent]

ParkExecution(c) ==
    /\ At(c, "park_exec")
    /\ SaveAs(c, ParkedAs(worker[c].step, worker[c].mem), "ack")
    /\ UNCHANGED <<snapshotOk, rows, task, queue, faults, effects>>
-----------------------------------------------------------------------------
(***************************************************************************)
(* The two ends of an execution.                                           *)
(***************************************************************************)
CompleteExecution(c) ==
    /\ At(c, "complete")
    /\ SaveAs(c, [worker[c].mem EXCEPT !.status = "complete", !.current = NoStep], "ack")
    /\ UNCHANGED <<snapshotOk, rows, task, queue, faults, effects>>

FailExecution(c) ==
    /\ At(c, "fail")
    /\ SaveAs(c, [worker[c].mem EXCEPT !.status = "failed"],
              IF ApprovalsInstalled THEN "orphan" ELSE "ack")
    /\ UNCHANGED <<snapshotOk, rows, task, queue, faults, effects>>

\* Best effort: an error of the task manager is logged and swallowed.
OrphanOpenTasks(c) ==
    /\ At(c, "orphan")
    /\ \/ OrphanTasks /\ UNCHANGED faults
       \/ Fault("seam") /\ UNCHANGED task
    /\ Goto(c, "ack")
    /\ UNCHANGED <<exec, snapshotOk, rows, queue, effects>>

ExecutorStep(c) ==
    \/ Acknowledge(c)
    \/ DropMessage(c) \/ RejectSnapshot(c) \/ SkipByConditions(c) \/ SaveSkipped(c)
    \/ BeginWalk(c) \/ NothingLeftToWalk(c) \/ EnterWalk(c)
    \/ ExceedIterations(c) \/ ArriveAtStep(c) \/ ClaimStepRow(c) \/ InsertStepRow(c)
    \/ PerformAction(c) \/ RecordSuccess(c) \/ ActionToRetry(c) \/ ActionFails(c)
    \/ FollowEdge(c) \/ ReachStop(c)
    \/ OpenGate(c) \/ GateWithoutModule(c) \/ ParkStepRow(c) \/ ParkExecution(c)
    \/ CompleteExecution(c) \/ FailExecution(c) \/ OrphanOpenTasks(c)

ExecutorTypeOK ==
    /\ worker \in [Consumers -> WorkerState]
    /\ effects \in [Steps -> Nat]
=============================================================================
