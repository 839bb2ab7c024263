---------------------------- MODULE EngineGates ----------------------------
(***************************************************************************)
(* Approval gates: the proof that a parked gate can be decided, and that   *)
(* the execution leaves it by the edge of the decision that was accepted,  *)
(* however decisions race the timeout, the event deliveries and the        *)
(* reconciliation of the tasks.                                            *)
(***************************************************************************)
EXTENDS EngineRuns

\* The result of the one row of step s.
Result(s) == rows[s][1].result

Deciding(a, s) == ~ApproverAt(a, "idle") /\ approver[a].gate = s

\* The task of s is open, or a decision is under way that reopens it or resumes s.
Decidable(s) == task[s] = "open" \/ \E a \in Approvers : Deciding(a, s)

\* The reconciliation has read the task of s as one that is left over.
Doomed(s) == reconciler.pc = "close" /\ s \in reconciler.open

OnGate ==
    /\ exec.current \in Steps
    /\ StepType[exec.current] = "approval"
    /\ Stat(exec.current) = "waiting"

StaysOpen(s) == Decidable(s) /\ ~Doomed(s)

\* The task of s can wait for the park it was opened for.
LeftOpen(s) == StaysOpen(s) /\ Result(s) \notin Verdicts

(***************************************************************************)
(* Tasks, by themselves: they belong to gates that were reached, a verdict *)
(* in a row comes from a task, no task lies ahead of the execution, and a  *)
(* decision that has claimed a task is alone with it.                      *)
(***************************************************************************)
TaskOfGate ==
    \A s \in Steps : task[s] # "none" => StepType[s] = "approval" /\ Stat(s) # "absent"

VerdictHasTask == \A s \in Steps : Result(s) \in Verdicts => task[s] # "none"

AheadIsNew(rank) == \A s \in Steps : Below(rank, s, exec.current) => task[s] = "none"

ReadTasksExist == \A s \in reconciler.open : task[s] # "none"

ClaimedByVerdict ==
    \A a \in Approvers : ~ApproverAt(a, "idle") => task[approver[a].gate] = approver[a].verdict

OneDecider == \A a, b \in Approvers : \A s \in Steps : Deciding(a, s) /\ Deciding(b, s) => a = b

TasksFit(rank) ==
    /\ OnTheWay(rank)
    /\ TaskOfGate /\ VerdictHasTask /\ AheadIsNew(rank) /\ ReadTasksExist
    /\ ClaimedByVerdict /\ OneDecider

(***************************************************************************)
(* The execution at a gate.                                                *)
(***************************************************************************)
\* What a consumer does after its gate, if any, is opened or closed.
Settling == {"expire", "mark_running", "park_row", "park_exec", "fail", "orphan"}

\* The execution is on its way to the next park, or may be put on it again.
Carried ==
    /\ exec.status \notin Terminal
    /\ \/ exec.status = "waiting"
       \/ ClaimHeld
       \/ Messages > 0
       \/ ClaimLeft
       \/ \E c \in Consumers : Walking(c) /\ worker[c].pc \notin Settling

\* A step has no task yet, or the one of a consumer that died before its park.
NewOrLeft(s) ==
    \/ task[s] = "none"
    \/ exec.status = "running" /\ exec.current = s /\ LeftOpen(s)

\* Between a step and its gate there is nothing to decide.
NotOpenedYet ==
    exec.current \in Steps /\ Carried /\ ~OnGate => NewOrLeft(exec.current)

HeldAtItsGate ==
    \A a \in Approvers :
        /\ ApproverHolds(a) => OnGate /\ exec.current = approver[a].gate
        /\ ApproverAt(a, "publish") => Result(approver[a].gate) = approver[a].verdict

Undecided(s) ==
    Result(s) \in Verdicts =>
        \E a \in Approvers : approver[a].pc \in {"publish", "clear"} /\ approver[a].gate = s

\* The result is the decision that was accepted for s, or there was none.
Tells(result, s) ==
    IF result \in Verdicts THEN Decided(s) /\ task[s] = result ELSE ~Decided(s)

ParkFits ==
    OnGate =>
        /\ exec.status = "waiting" \/ ClaimHeld
               => StaysOpen(exec.current) /\ Undecided(exec.current)
        /\ exec.status = "pending" /\ ~ClaimHeld => Tells(Result(exec.current), exec.current)

GateWalkerOK(w) ==
    /\ w.pc \in {"park_row", "park_exec"} /\ IsGate(w.step) => LeftOpen(w.step)
    /\ w.pc = "close" /\ w.parked.step \in Steps => w.parked.result = Result(w.parked.step)
    /\ w.pc \in {"expire", "mark_running"} =>
          /\ w.mem.current \in Steps => NewOrLeft(w.mem.current)
          /\ IsGate(w.parked.step) => Tells(w.parked.result, w.parked.step)
    /\ w.pc = "expire" => exec.status # "running"

GateWalkersOK == \A c \in Consumers : Walking(c) => GateWalkerOK(worker[c])

AtGateFits == NotOpenedYet /\ HeldAtItsGate /\ ParkFits /\ GateWalkersOK

GatesFit(rank) == TasksFit(rank) /\ AtGateFits
-----------------------------------------------------------------------------
(***************************************************************************)
(* What a statement on the step table does to the results.                 *)
(***************************************************************************)
ResultsKept == \A s \in Steps : Result(s)' = Result(s)

NoNewVerdicts == \A s \in Steps : Result(s)' \in Verdicts => Result(s)' = Result(s)

LEMMA KeptIsNotNew == ResultsKept => NoNewVerdicts
BY DEF ResultsKept, NoNewVerdicts

LEMMA ResultKeptBy ==
    ASSUME rows \in RowTable, NEW s \in Steps, NEW i \in Slots, NEW status \in RowStatuses,
           \/ rows' = [rows EXCEPT ![s][i].status = status]
           \/ rows' = [rows EXCEPT ![s][i].status = status, ![s][i].due = FALSE]
           \/ rows' = [rows EXCEPT ![s][i].status = status, ![s][i].stale = FALSE]
           \/ rows' = [rows EXCEPT ![s][i].due = TRUE]
           \/ \E b \in BOOLEAN : rows' = [rows EXCEPT ![s][i].stale = b]
    PROVE  ResultsKept
<1>1. rows[s][i] \in StepRow
  BY RowType
<1>2. PICK new : new.result = rows[s][i].result /\ rows' = [rows EXCEPT ![s][i] = new]
  <2>1. CASE rows' = [rows EXCEPT ![s][i].status = status]
    <3>1. [rows[s][i] EXCEPT !.status = status].result = rows[s][i].result
      BY <1>1 DEF StepRow
    <3>2. QED
      BY <2>1, <3>1
  <2>2. CASE rows' = [rows EXCEPT ![s][i].status = status, ![s][i].due = FALSE]
    <3>1. [rows[s][i] EXCEPT !.status = status, !.due = FALSE].result = rows[s][i].result
      BY <1>1 DEF StepRow
    <3>2. rows' = [rows EXCEPT ![s][i] = [rows[s][i] EXCEPT !.status = status, !.due = FALSE]]
      BY <2>2 DEF RowTable
    <3>3. QED
      BY <3>1, <3>2
  <2>3. CASE rows' = [rows EXCEPT ![s][i].status = status, ![s][i].stale = FALSE]
    <3>1. [rows[s][i] EXCEPT !.status = status, !.stale = FALSE].result = rows[s][i].result
      BY <1>1 DEF StepRow
    <3>2. rows' = [rows EXCEPT ![s][i] = [rows[s][i] EXCEPT !.status = status, !.stale = FALSE]]
      BY <2>3 DEF RowTable
    <3>3. QED
      BY <3>1, <3>2
  <2>4. CASE rows' = [rows EXCEPT ![s][i].due = TRUE]
    <3>1. [rows[s][i] EXCEPT !.due = TRUE].result = rows[s][i].result
      BY <1>1 DEF StepRow
    <3>2. QED
      BY <2>4, <3>1
  <2>5. ASSUME NEW b \in BOOLEAN, rows' = [rows EXCEPT ![s][i].stale = b]
        PROVE  \E new : new.result = rows[s][i].result /\ rows' = [rows EXCEPT ![s][i] = new]
    <3>1. [rows[s][i] EXCEPT !.stale = b].result = rows[s][i].result
      BY <1>1 DEF StepRow
    <3>2. QED
      BY <2>5, <3>1
  <2>6. QED
    BY <2>1, <2>2, <2>3, <2>4, <2>5
<1>3. QED
  BY <1>2, FirstSlot DEF RowTable, ResultsKept, Result

LEMMA ResultSetBy ==
    ASSUME rows \in RowTable, NEW s \in Steps, NEW status \in RowStatuses,
           NEW result \in Resolutions \cup {NoResult, "output"}, SetStepRow(s, status, result)
    PROVE  \A t \in Steps : Result(t)' \in {Result(t), result}
<1>1. PICK i \in Slots :
          rows' = [rows EXCEPT ![s][i].status = status, ![s][i].result = result]
  BY DEF SetStepRow, RowsOf
<1>2. rows[s][i] \in StepRow
  BY <1>1, RowType
<1>3. [rows[s][i] EXCEPT !.status = status, !.result = result].result = result
  BY <1>2 DEF StepRow
<1>4. rows' = [rows EXCEPT ![s][i] = [rows[s][i] EXCEPT !.status = status, !.result = result]]
  BY <1>1 DEF RowTable
<1>5. QED
  BY <1>3, <1>4, FirstSlot DEF RowTable, Result

LEMMA ResultsMapped ==
    ASSUME rows \in RowTable
    PROVE  /\ rows' = [s \in Steps |-> [i \in Slots |->
                         IF rows[s][i].status = "waiting"
                         THEN [rows[s][i] EXCEPT !.result = "event"] ELSE rows[s][i]]]
                  => \A t \in Steps : Result(t)' = IF Stat(t) = "waiting" THEN "event" ELSE Result(t)
           /\ rows' = [s \in Steps |-> [i \in Slots |->
                         IF rows[s][i].status = "waiting"
                         THEN [rows[s][i] EXCEPT !.status = "complete"] ELSE rows[s][i]]]
                  => ResultsKept
<1>1. \A s \in Steps : /\ [rows[s][1] EXCEPT !.result = "event"].result = "event"
                       /\ [rows[s][1] EXCEPT !.status = "complete"].result = rows[s][1].result
  <2>1. \A s \in Steps : rows[s][1] \in StepRow
    BY RowType, FirstSlot
  <2>2. QED
    BY <2>1 DEF StepRow
<1>2. ASSUME rows' = [s \in Steps |-> [i \in Slots |->
                         IF rows[s][i].status = "waiting"
                         THEN [rows[s][i] EXCEPT !.result = "event"] ELSE rows[s][i]]]
      PROVE  \A t \in Steps : Result(t)' = IF Stat(t) = "waiting" THEN "event" ELSE Result(t)
  <2>1. \A t \in Steps : rows'[t][1] = IF rows[t][1].status = "waiting"
                                       THEN [rows[t][1] EXCEPT !.result = "event"] ELSE rows[t][1]
    BY <1>2, FirstSlot
  <2>2. QED
    BY <1>1, <2>1 DEF Result, Stat
<1>3. ASSUME rows' = [s \in Steps |-> [i \in Slots |->
                         IF rows[s][i].status = "waiting"
                         THEN [rows[s][i] EXCEPT !.status = "complete"] ELSE rows[s][i]]]
      PROVE  ResultsKept
  <2>1. \A t \in Steps : rows'[t][1] = IF rows[t][1].status = "waiting"
                                       THEN [rows[t][1] EXCEPT !.status = "complete"] ELSE rows[t][1]
    BY <1>3, FirstSlot
  <2>2. QED
    BY <1>1, <2>1 DEF Result, ResultsKept
<1>4. QED
  BY <1>2, <1>3

LEMMA GateResultIs ==
    ASSUME rows \in RowTable, NEW s \in Steps,
           NEW result \in Resolutions \cup {NoResult, "output"}, SetGateResult(s, result)
    PROVE  /\ Result(s)' = IF Stat(s) = "waiting" THEN result ELSE Result(s)
           /\ \A t \in Steps \ {s} : Result(t)' = Result(t)
<1>1. [rows[s][1] EXCEPT !.result = result].result = result
  BY RowType, FirstSlot DEF StepRow
<1>2. QED
  BY <1>1, FirstSlot DEF Result, Stat, SetGateResult, RowTable
-----------------------------------------------------------------------------
(***************************************************************************)
(* What the processes do to the tasks and the results.                     *)
(***************************************************************************)
\* A task that is not open stays as it is, and an open one is closed at the most.
Closing(s) == task'[s] = task[s] \/ (task[s] = "open" /\ task'[s] \in {"expired", "orphaned"})

TasksClose == \A s \in Steps : Closing(s)

LEMMA ConsumerResults ==
    ASSUME RowsInv, NEW c \in Consumers, ConsumerMoves(c)
    PROVE  NoNewVerdicts
<1>0. /\ rows \in RowTable /\ OneRow
      /\ worker[c].pc \in AtStep => worker[c].step \in Steps
  BY DEF RowsInv, RowsFit, RowsOK, OutcomeInv, TokenInv, TypeInv, StoreTypeOK, ConsumersOK,
         ExecutorTypeOK, RowTable, CursorOK
<1>1. ASSUME NEW s \in Steps, NEW status \in RowStatuses, NEW result \in {NoResult, "output"},
             SetStepRow(s, status, result)
      PROVE  NoNewVerdicts
  BY <1>0, <1>1, ResultSetBy DEF NoNewVerdicts, NoResult, Verdicts
<1>2. CASE UNCHANGED rows
  BY <1>2 DEF NoNewVerdicts, Result
<1>3. CASE ClaimStepRow(c)
  <2>1. PICK s \in Steps : s = worker[c].step
    BY <1>0, <1>3 DEF ClaimStepRow, At, AtStep
  <2>2. ASSUME NEW i \in RowsOf(s),
               rows' = [rows EXCEPT ![s][i].status = "running", ![s][i].stale = FALSE]
        PROVE  NoNewVerdicts
    BY <1>0, <2>2, ResultKeptBy, KeptIsNotNew DEF RowsOf, RowStatuses
  <2>3. QED
    BY <1>2, <1>3, <2>1, <2>2 DEF ClaimStepRow
<1>4. CASE InsertStepRow(c)
  <2>1. PICK s \in Steps : s = worker[c].step
    BY <1>0, <1>4 DEF InsertStepRow, At, AtStep
  <2>2. PICK i \in Slots : rows' = [rows EXCEPT ![s][i] = [AbsentRow EXCEPT !.status = "running"]]
    BY <1>4, <2>1 DEF InsertStepRow
  <2>3. [AbsentRow EXCEPT !.status = "running"].result = NoResult
    BY DEF AbsentRow
  <2>4. QED
    BY <1>0, <2>2, <2>3, FirstSlot DEF RowTable, NoNewVerdicts, Result, NoResult, Verdicts
<1>5. CASE RecordSuccess(c) \/ FollowEdge(c) \/ GateWithoutModule(c) \/ ActionFails(c)
  <2>1. PICK s \in Steps : s = worker[c].step
    BY <1>0, <1>5 DEF RecordSuccess, FollowEdge, GateWithoutModule, ActionFails, At, AtStep
  <2>2. QED
    BY <1>1, <1>5, <2>1 DEF RecordSuccess, FollowEdge, GateWithoutModule, ActionFails, RowStatuses
<1>6. CASE ActionToRetry(c) \/ ReachStop(c)
  <2>1. PICK s \in Steps : s = worker[c].step
    BY <1>0, <1>6 DEF ActionToRetry, ReachStop, At, AtStep
  <2>2. PICK i \in RowsOf(s), status \in {"pending", "complete"} :
            rows' = [rows EXCEPT ![s][i].status = status]
    BY <1>6, <2>1 DEF ActionToRetry, ReachStop
  <2>3. QED
    BY <1>0, <2>2, ResultKeptBy, KeptIsNotNew DEF RowsOf, RowStatuses
<1>7. CASE ParkStepRow(c)
  <2>1. PICK s \in Steps : s = worker[c].step
    BY <1>0, <1>7 DEF ParkStepRow, At, AtStep
  <2>2. PICK i \in RowsOf(s) :
            rows' = [rows EXCEPT ![s][i].status = "waiting", ![s][i].due = FALSE]
    BY <1>7, <2>1 DEF ParkStepRow
  <2>3. QED
    BY <1>0, <2>2, ResultKeptBy, KeptIsNotNew DEF RowsOf, RowStatuses
<1>8. CASE CloseParkedRows(c)
  BY <1>0, <1>8, ResultsMapped, KeptIsNotNew DEF CloseParkedRows
<1>9. QED
  BY <1>2, <1>3, <1>4, <1>5, <1>6, <1>7, <1>8
     DEF ConsumerMoves, ExecutorStep, ResumeStep, Receive, Acknowledge, DropMessage, RejectSnapshot,
         SkipByConditions, SaveSkipped, BeginWalk, NothingLeftToWalk, EnterWalk, ExceedIterations,
         ArriveAtStep, PerformAction, OpenGate, ParkExecution, CompleteExecution, FailExecution,
         OrphanOpenTasks, DropResume, LoadParked, FetchParked, ExpireGate, MarkRunning, storeVars

LEMMA ConsumerTasks ==
    ASSUME RowsInv, NEW c \in Consumers, ConsumerMoves(c)
    PROVE  TasksClose \/ OpenGate(c)
<1>0. task \in [Steps -> TaskStatuses] /\ (worker[c].pc = "expire" => worker[c].parked.step \in Steps)
  BY DEF RowsInv, OutcomeInv, TokenInv, TypeInv, StoreTypeOK, ConsumersOK, CursorOK
<1>1. UNCHANGED task => TasksClose
  BY DEF TasksClose, Closing
<1>2. CASE ExpireGate(c)
  <2>1. PICK s \in Steps : s = worker[c].parked.step
    BY <1>0, <1>2 DEF ExpireGate, At
  <2>2. QED
    BY <1>0, <1>1, <1>2, <2>1 DEF ExpireGate, ExpireTask, TasksClose, Closing
<1>3. CASE OrphanOpenTasks(c)
  BY <1>0, <1>1, <1>3 DEF OrphanOpenTasks, OrphanTasks, TasksClose, Closing
<1>4. QED
  BY <1>1, <1>2, <1>3
     DEF ConsumerMoves, ExecutorStep, ResumeStep, Receive, Acknowledge, DropMessage, RejectSnapshot,
         SkipByConditions, SaveSkipped, BeginWalk, NothingLeftToWalk, EnterWalk, ExceedIterations,
         ArriveAtStep, ClaimStepRow, InsertStepRow, PerformAction, RecordSuccess, ActionToRetry,
         ActionFails, FollowEdge, ReachStop, GateWithoutModule, ParkStepRow, ParkExecution,
         CompleteExecution, FailExecution, DropResume, LoadParked, FetchParked, CloseParkedRows,
         MarkRunning, storeVars

LEMMA GateTasks ==
    ASSUME RowsInv
    PROVE  /\ task \in [Steps -> TaskStatuses]
           /\ reconciler.open \subseteq Steps
           /\ approver \in [Approvers -> ApproverState]
           /\ \A a \in Approvers : /\ approver[a].verdict \in Verdicts
                                   /\ ~ApproverAt(a, "idle") => approver[a].gate \in Steps
BY DEF RowsInv, OutcomeInv, TokenInv, TypeInv, StoreTypeOK, WakersOK, ApprovalTypeOK, ReconcilerState,
       ApproverState, ApproverAt

\* Decisions go on with the tasks they have claimed.
LEMMA DecisionsKept ==
    ASSUME RowsInv, ClaimedByVerdict, OneDecider, UNCHANGED approver,
           \A s \in Steps : task[s] \in Verdicts => task'[s] = task[s]
    PROVE  (ClaimedByVerdict /\ OneDecider)'
<1>1. ASSUME NEW a \in Approvers, ~ApproverAt(a, "idle")
      PROVE  task'[approver[a].gate] = approver[a].verdict
  <2>1. approver[a].gate \in Steps /\ approver[a].verdict \in Verdicts
    BY <1>1, GateTasks DEF ApproverAt
  <2>2. QED
    BY <1>1, <2>1 DEF ClaimedByVerdict
<1>2. ClaimedByVerdict'
  BY <1>1 DEF ClaimedByVerdict, ApproverAt
<1>3. OneDecider'
  BY DEF OneDecider, Deciding, ApproverAt
<1>4. QED
  BY <1>2, <1>3

\* Where no task is opened and nothing is decided, the tasks go on as before.
LEMMA TasksKept ==
    ASSUME NoDuplicates, NEW rank, Descends(rank), RowsInv, TasksFit(rank), [Next]_vars,
           TasksClose, NoNewVerdicts
    PROVE  /\ (TaskOfGate /\ VerdictHasTask /\ AheadIsNew(rank))'
           /\ reconciler'.open \subseteq reconciler.open => ReadTasksExist'
           /\ UNCHANGED approver => (ClaimedByVerdict /\ OneDecider)'
<1>0. /\ task \in [Steps -> TaskStatuses] /\ reconciler.open \subseteq Steps
      /\ \A s \in Steps : Closing(s)
  BY GateTasks DEF TasksClose
<1>1. \A s \in Steps : task'[s] # "none" => task[s] # "none"
  BY <1>0 DEF Closing
<1>2. \A s \in Steps : task[s] # "none" => task'[s] # "none"
  BY <1>0 DEF Closing
<1>3. TaskOfGate'
  BY <1>1, RowsStay DEF TasksFit, TaskOfGate
<1>4. VerdictHasTask'
  BY <1>2 DEF TasksFit, VerdictHasTask, NoNewVerdicts
<1>5. AheadIsNew(rank)'
  <2>1. Untouched => \A s \in Steps : task[s] = "none"
    BY DEF TasksFit, TaskOfGate, Untouched
  <2>2. QED
    BY <1>1, <2>1, AheadShrinks DEF TasksFit, AheadIsNew, Below
<1>6. reconciler'.open \subseteq reconciler.open => ReadTasksExist'
  BY <1>0, <1>2 DEF TasksFit, ReadTasksExist
<1>7. ASSUME UNCHANGED approver PROVE (ClaimedByVerdict /\ OneDecider)'
  <2>1. \A s \in Steps : task[s] \in Verdicts => task'[s] = task[s]
    BY <1>0 DEF Closing, Verdicts
  <2>2. QED
    BY <1>7, <2>1, DecisionsKept DEF TasksFit
<1>8. QED
  BY <1>3, <1>4, <1>5, <1>6, <1>7

\* A gate opens its task.
LEMMA OpenGateOpens ==
    ASSUME RowsInv, NEW c \in Consumers, OpenGate(c)
    PROVE  \E s \in Steps :
              /\ s = worker[c].step /\ s = exec.current
              /\ exec.status = "running" /\ StepType[s] = "approval" /\ Stat(s) = "running"
              /\ UNCHANGED <<exec, rows, queue>>
              /\ task' = [task EXCEPT ![s] = IF @ = "none" THEN "open" ELSE @]
              /\ Goto(c, "park_row")
<1>1. worker[c].pc = "gate"
  BY DEF OpenGate, At
<1>2. PICK s \in Steps : s = worker[c].step /\ s = exec.current /\ exec.status = "running"
  BY <1>1, AtTheCursor DEF OnItsStep, AtStep
<1>3. StepType[s] = "approval" /\ Stat(s) = "running"
  BY <1>1, <1>2, AtTheCursor DEF OnItsStep, AtStep, WalkerOK, Walks, LabelFits, AfterClaim
<1>4. QED
  BY <1>2, <1>3 DEF OpenGate, CreateTask

LEMMA TasksByConsumer ==
    ASSUME NoDuplicates, NEW rank, Descends(rank), RowsInv, TasksFit(rank), [Next]_vars,
           NEW c \in Consumers, ConsumerMoves(c), UNCHANGED wakerVars
    PROVE  TasksFit(rank)'
<1>0. UNCHANGED <<approver, reconciler>> /\ NoNewVerdicts /\ task \in [Steps -> TaskStatuses]
  BY ConsumerResults, GateTasks DEF wakerVars, approvalVars
<1>1. CASE TasksClose
  BY <1>0, <1>1, TasksKept, StaysOnTheWay DEF TasksFit
<1>2. CASE OpenGate(c)
  <2>1. PICK s \in Steps :
            /\ s = exec.current /\ StepType[s] = "approval" /\ Stat(s) = "running"
            /\ UNCHANGED <<exec, rows>>
            /\ task' = [task EXCEPT ![s] = IF @ = "none" THEN "open" ELSE @]
    BY <1>2, OpenGateOpens
  <2>2. /\ task'[s] = IF task[s] = "none" THEN "open" ELSE task[s]
        /\ \A t \in Steps \ {s} : task'[t] = task[t]
        /\ \A t \in Steps : Stat(t)' = Stat(t) /\ Result(t)' = Result(t)
    BY <1>0, <2>1 DEF Stat, Result
  <2>3. ~Below(rank, s, exec.current)
    BY <2>1 DEF Below, Descends
  <2>4. (TaskOfGate /\ VerdictHasTask /\ AheadIsNew(rank))'
    BY <2>1, <2>2, <2>3 DEF TasksFit, TaskOfGate, VerdictHasTask, AheadIsNew
  <2>5. ReadTasksExist'
    BY <1>0, <2>2, GateTasks DEF TasksFit, ReadTasksExist
  <2>6. (ClaimedByVerdict /\ OneDecider)'
    <3>1. \A t \in Steps : task[t] \in Verdicts => task'[t] = task[t]
      BY <2>2 DEF Verdicts
    <3>2. QED
      BY <1>0, <3>1, DecisionsKept DEF TasksFit
  <2>7. QED
    BY <2>4, <2>5, <2>6, StaysOnTheWay DEF TasksFit
<1>3. QED
  BY <1>1, <1>2, ConsumerTasks

\* Where no task is opened and no decision is taken or written.
LEMMA TasksAside ==
    ASSUME NoDuplicates, NEW rank, Descends(rank), RowsInv, TasksFit(rank), [Next]_vars,
           UNCHANGED approver, TasksClose,
           \A s \in Steps : Result(s)' \in {Result(s), "event"},
           \A s \in reconciler'.open : s \in reconciler.open \/ task'[s] = "open"
    PROVE  TasksFit(rank)'
<1>1. NoNewVerdicts
  BY DEF NoNewVerdicts, Verdicts
<1>2. (TaskOfGate /\ VerdictHasTask /\ AheadIsNew(rank) /\ ClaimedByVerdict /\ OneDecider)'
  BY <1>1, TasksKept
<1>3. ReadTasksExist'
  <2>1. \A s \in reconciler.open : s \in Steps /\ task[s] # "none"
    BY GateTasks DEF TasksFit, ReadTasksExist
  <2>2. \A s \in reconciler.open : task'[s] # "none"
    BY <2>1 DEF TasksClose, Closing
  <2>3. QED
    BY <2>2 DEF ReadTasksExist
<1>4. QED
  BY <1>2, <1>3, StaysOnTheWay DEF TasksFit
-----------------------------------------------------------------------------
(***************************************************************************)
(* What an approver does to its decision.                                  *)
(***************************************************************************)
LEMMA DecisionGoesOn ==
    ASSUME RowsInv, NEW a \in Approvers, ~ApproverAt(a, "idle"),
           NEW label \in {"write", "publish", "clear", "unpark", "reopen"}, ApproverGoto(a, label)
    PROVE  /\ approver'[a].pc = label /\ approver'[a].gate = approver[a].gate
           /\ approver'[a].verdict = approver[a].verdict
           /\ \A b \in Approvers \ {a} : approver'[b] = approver[b]
           /\ \A b \in Approvers : \A s : Deciding(b, s)' <=> Deciding(b, s)
<1>1. approver \in [Approvers -> ApproverState]
  BY GateTasks
<1>2. /\ approver'[a].pc = label /\ approver'[a].gate = approver[a].gate
      /\ approver'[a].verdict = approver[a].verdict
      /\ \A b \in Approvers \ {a} : approver'[b] = approver[b]
  BY <1>1 DEF ApproverGoto, ApproverState
<1>3. \A b \in Approvers : \A s : Deciding(b, s)' <=> Deciding(b, s)
  BY <1>2 DEF Deciding, ApproverAt
<1>4. QED
  BY <1>2, <1>3

LEMMA DecisionEnds ==
    ASSUME RowsInv, NEW a \in Approvers, ApproverDone(a)
    PROVE  /\ approver'[a].pc = "idle"
           /\ \A b \in Approvers \ {a} : approver'[b] = approver[b]
           /\ \A b \in Approvers : \A s : Deciding(b, s)' <=> b # a /\ Deciding(b, s)
<1>1. approver \in [Approvers -> ApproverState]
  BY GateTasks
<1>2. /\ approver'[a].pc = "idle"
      /\ \A b \in Approvers \ {a} : approver'[b] = approver[b]
  BY <1>1 DEF ApproverDone, IdleApprover
<1>3. \A b \in Approvers : \A s : Deciding(b, s)' <=> b # a /\ Deciding(b, s)
  BY <1>2 DEF Deciding, ApproverAt
<1>4. QED
  BY <1>2, <1>3

\* It claims a task that is open, and nobody else decides about this gate.
LEMMA DecisionBegins ==
    ASSUME RowsInv, ClaimedByVerdict, NEW a \in Approvers, ClaimTask(a)
    PROVE  \E s \in Steps, verdict \in Verdicts :
              /\ task[s] = "open" /\ task' = [task EXCEPT ![s] = verdict]
              /\ \A t : ~Deciding(a, t)
              /\ \A b \in Approvers : ~Deciding(b, s)
              /\ approver'[a] = [pc |-> "claim", gate |-> s, verdict |-> verdict]
              /\ \A b \in Approvers \ {a} : approver'[b] = approver[b]
              /\ \A b \in Approvers : \A t \in Steps :
                     Deciding(b, t)' <=> Deciding(b, t) \/ (b = a /\ t = s)
<1>1. approver \in [Approvers -> ApproverState]
  BY GateTasks
<1>2. PICK s \in Steps, verdict \in Verdicts :
          /\ task[s] = "open" /\ task' = [task EXCEPT ![s] = verdict]
          /\ approver' = [approver EXCEPT ![a] = [pc |-> "claim", gate |-> s, verdict |-> verdict]]
  BY DEF ClaimTask
<1>3. \A t : ~Deciding(a, t)
  BY DEF ClaimTask, Deciding
<1>4. \A b \in Approvers : ~Deciding(b, s)
  BY <1>2, GateTasks DEF ClaimedByVerdict, Deciding, Verdicts
<1>5. /\ approver'[a] = [pc |-> "claim", gate |-> s, verdict |-> verdict]
      /\ \A b \in Approvers \ {a} : approver'[b] = approver[b]
  BY <1>1, <1>2
<1>6. ASSUME NEW b \in Approvers, NEW t \in Steps
      PROVE  Deciding(b, t)' <=> Deciding(b, t) \/ (b = a /\ t = s)
  BY <1>3, <1>5 DEF Deciding, ApproverAt
<1>7. QED
  BY <1>2, <1>3, <1>4, <1>5, <1>6

LEMMA TasksByApprover ==
    ASSUME NoDuplicates, NEW rank, Descends(rank), RowsInv, TasksFit(rank), [Next]_vars,
           NEW a \in Approvers, ApproverStep(a)
    PROVE  TasksFit(rank)'
<1>0. /\ task \in [Steps -> TaskStatuses] /\ rows \in RowTable /\ UNCHANGED reconciler
      /\ ~ApproverAt(a, "idle") => /\ approver[a].gate \in Steps
                                   /\ task[approver[a].gate] = approver[a].verdict
      /\ approver[a].verdict \in Verdicts
  BY GateTasks DEF RowsInv, OutcomeInv, TokenInv, TypeInv, StoreTypeOK, RowTable, ApproverStep,
                   ClaimTask, ClaimGate, WriteVerdict, PublishVerdict, ClearVerdict, RollbackGate,
                   ReopenTask, TasksFit, ClaimedByVerdict
<1>1. \A s \in reconciler.open : s \in Steps /\ task[s] # "none"
  BY GateTasks DEF TasksFit, ReadTasksExist
<1>2. CASE ClaimTask(a)
  <2>1. PICK s \in Steps, verdict \in Verdicts :
              /\ task[s] = "open" /\ task' = [task EXCEPT ![s] = verdict]
              /\ approver'[a] = [pc |-> "claim", gate |-> s, verdict |-> verdict]
              /\ \A b \in Approvers \ {a} : approver'[b] = approver[b]
              /\ \A b \in Approvers : ~Deciding(b, s)
              /\ \A t : ~Deciding(a, t)
              /\ \A b \in Approvers : \A t \in Steps :
                     Deciding(b, t)' <=> Deciding(b, t) \/ (b = a /\ t = s)
    BY <1>2, DecisionBegins DEF TasksFit
  <2>2. task'[s] = verdict /\ \A t \in Steps \ {s} : task'[t] = task[t]
    BY <1>0, <2>1
  <2>3. UNCHANGED <<exec, rows>> /\ \A t \in Steps : Stat(t)' = Stat(t) /\ Result(t)' = Result(t)
    BY <1>2 DEF ClaimTask, Stat, Result
  <2>4. \A t \in Steps : task'[t] = "none" <=> task[t] = "none"
    BY <2>1, <2>2 DEF Verdicts
  <2>5. (TaskOfGate /\ VerdictHasTask /\ AheadIsNew(rank) /\ ReadTasksExist)'
    BY <1>0, <1>1, <2>3, <2>4 DEF TasksFit, TaskOfGate, VerdictHasTask, AheadIsNew, ReadTasksExist
  <2>6. ClaimedByVerdict'
    <3>1. ASSUME NEW b \in Approvers, b # a, ~ApproverAt(b, "idle")
          PROVE  task'[approver[b].gate] = approver[b].verdict
      <4>1. approver[b].gate \in Steps /\ approver[b].gate # s
        BY <2>1, <3>1, GateTasks DEF Deciding
      <4>2. QED
        BY <2>2, <3>1, <4>1 DEF TasksFit, ClaimedByVerdict
    <3>2. QED
      BY <2>1, <2>2, <3>1 DEF ClaimedByVerdict, ApproverAt
  <2>7. OneDecider'
    BY <2>1 DEF TasksFit, OneDecider
  <2>8. QED
    BY <2>5, <2>6, <2>7, StaysOnTheWay DEF TasksFit
<1>3. CASE ReopenTask(a)
  <2>1. PICK s \in Steps : s = approver[a].gate
    BY <1>0, <1>3 DEF ReopenTask, ApproverAt
  <2>2. Deciding(a, s) /\ task[s] \in Verdicts /\ task[s] = approver[a].verdict
    BY <1>0, <1>3, <2>1 DEF ReopenTask, ApproverAt, Deciding
  <2>3. task'[s] = "open" /\ \A t \in Steps \ {s} : task'[t] = task[t]
    BY <1>0, <1>3, <2>1, <2>2 DEF ReopenTask
  <2>4. UNCHANGED <<exec, rows>> /\ \A t \in Steps : Stat(t)' = Stat(t) /\ Result(t)' = Result(t)
    BY <1>3 DEF ReopenTask, Stat, Result
  <2>5. \A t \in Steps : task'[t] = "none" <=> task[t] = "none"
    BY <2>2, <2>3 DEF Verdicts
  <2>6. (TaskOfGate /\ VerdictHasTask /\ AheadIsNew(rank) /\ ReadTasksExist)'
    BY <1>0, <1>1, <2>4, <2>5 DEF TasksFit, TaskOfGate, VerdictHasTask, AheadIsNew, ReadTasksExist
  <2>7. /\ approver'[a].pc = "idle"
        /\ \A b \in Approvers \ {a} : approver'[b] = approver[b]
        /\ \A b \in Approvers : \A t : Deciding(b, t)' <=> b # a /\ Deciding(b, t)
    BY <1>3, DecisionEnds DEF ReopenTask
  <2>8. ClaimedByVerdict'
    <3>1. ASSUME NEW b \in Approvers, b # a, ~ApproverAt(b, "idle")
          PROVE  task'[approver[b].gate] = approver[b].verdict
      <4>1. approver[b].gate \in Steps /\ approver[b].gate # s
        BY <2>2, <3>1, GateTasks DEF Deciding, TasksFit, OneDecider
      <4>2. QED
        BY <2>3, <3>1, <4>1 DEF TasksFit, ClaimedByVerdict
    <3>2. QED
      BY <2>7, <3>1 DEF ClaimedByVerdict, ApproverAt
  <2>9. OneDecider'
    BY <2>7 DEF TasksFit, OneDecider
  <2>10. QED
    BY <2>6, <2>8, <2>9, StaysOnTheWay DEF TasksFit
<1>4. ASSUME UNCHANGED task, \A s \in Steps : Result(s)' \in Verdicts => task[s] # "none",
             \/ ApproverDone(a)
             \/ \E label \in {"write", "publish", "clear", "unpark", "reopen"} :
                    ~ApproverAt(a, "idle") /\ ApproverGoto(a, label)
      PROVE  TasksFit(rank)'
  <2>1. (VerdictHasTask /\ ReadTasksExist)'
    BY <1>0, <1>1, <1>4 DEF VerdictHasTask, ReadTasksExist
  <2>2. (TaskOfGate /\ AheadIsNew(rank))'
    <3>1. TaskOfGate'
      BY <1>4, RowsStay DEF TasksFit, TaskOfGate
    <3>2. Untouched => \A s \in Steps : task[s] = "none"
      BY DEF TasksFit, TaskOfGate, Untouched
    <3>3. QED
      BY <1>4, <3>1, <3>2, AheadShrinks DEF TasksFit, AheadIsNew
  <2>3. (ClaimedByVerdict /\ OneDecider)'
    <3>1. \A b \in Approvers : \A s : Deciding(b, s)' => Deciding(b, s)
      BY <1>4, DecisionEnds, DecisionGoesOn
    <3>2. \A b \in Approvers : ~ApproverAt(b, "idle")' =>
             /\ ~ApproverAt(b, "idle") /\ approver'[b].gate = approver[b].gate
             /\ approver'[b].verdict = approver[b].verdict
      BY <1>4, DecisionEnds, DecisionGoesOn DEF ApproverAt
    <3>3. QED
      BY <1>4, <3>1, <3>2 DEF TasksFit, ClaimedByVerdict, OneDecider
  <2>4. QED
    BY <2>1, <2>2, <2>3, StaysOnTheWay DEF TasksFit
<1>5. CASE ClaimGate(a) \/ PublishVerdict(a) \/ RollbackGate(a)
  <2>1. UNCHANGED <<task, rows>> /\ \A s \in Steps : Result(s)' = Result(s)
    BY <1>5 DEF ClaimGate, PublishVerdict, RollbackGate, Result
  <2>2. \A s \in Steps : Result(s)' \in Verdicts => task[s] # "none"
    BY <2>1 DEF TasksFit, VerdictHasTask
  <2>3. QED
    BY <1>4, <1>5, <2>1, <2>2 DEF ClaimGate, PublishVerdict, RollbackGate, ApproverAt
<1>6. CASE WriteVerdict(a) \/ ClearVerdict(a)
  <2>1. PICK s \in Steps : s = approver[a].gate /\ task[s] = approver[a].verdict
    BY <1>0, <1>6 DEF WriteVerdict, ClearVerdict, ApproverAt
  <2>2. \A t \in Steps : Result(t)' \in Verdicts => task[t] # "none"
    <3>1. PICK result \in Resolutions \cup {NoResult, "output"} :
              SetGateResult(s, result) /\ (result = approver[a].verdict \/ result = NoResult)
      BY <1>0, <1>6, <2>1 DEF WriteVerdict, ClearVerdict, Verdicts, Resolutions
    <3>2. /\ Result(s)' = IF Stat(s) = "waiting" THEN result ELSE Result(s)
          /\ \A t \in Steps \ {s} : Result(t)' = Result(t)
      BY <1>0, <3>1, GateResultIs
    <3>3. task[s] # "none"
      BY <1>0, <2>1 DEF Verdicts
    <3>4. QED
      BY <3>2, <3>3 DEF TasksFit, VerdictHasTask
  <2>3. QED
    BY <1>4, <1>6, <2>2 DEF WriteVerdict, ClearVerdict, ApproverAt
<1>7. QED
  BY <1>2, <1>3, <1>5, <1>6 DEF ApproverStep

\* What the sweep, the deliveries and time have in common.
Bystanders ==
    /\ WakerKind
    /\ UNCHANGED <<task, approver, reconciler>>
    /\ ParkClaimed => ClaimHeld'
    /\ (\E a \in Approvers : ApproverHolds(a)) => UNCHANGED exec /\ ResultsKept
    /\ \/ ResultsKept
       \/ /\ ClaimHeld
          /\ \A s \in Steps : Result(s)' = IF Stat(s) = "waiting" THEN "event" ELSE Result(s)

LEMMA SweeperStandsBy ==
    ASSUME RowsInv, SweeperStep, UNCHANGED approvalVars
    PROVE  Bystanders
<1>0. /\ TokenInv /\ OneRow /\ SingleToken /\ sweeper \in SweeperState /\ exec \in ExecRow
      /\ rows \in RowTable /\ (sweeper.pc = "reclaim" => sweeper.row \in Steps \X Slots)
  BY DEF RowsInv, RowsFit, RowsOK, OutcomeInv, TokenInv, Owned, TypeInv, StoreTypeOK, WakersOK,
         ResumeTypeOK, RowTable
<1>1. WakerKind
  BY <1>0, SweeperKind
<1>2. SelectZombie \/ ReclaimZombie \/ RepublishZombie => UNCHANGED exec
  BY DEF SelectZombie, ReclaimZombie, RepublishZombie, storeVars
<1>3. UNCHANGED <<task, approver, reconciler>> /\ ResultsKept
  <2>1. CASE ReclaimZombie
    <3>1. UNCHANGED task
      BY <2>1 DEF ReclaimZombie
    <3>2. CASE UNCHANGED rows
      BY <3>1, <3>2 DEF approvalVars, ResultsKept, Result
    <3>3. CASE rows' = [rows EXCEPT ![sweeper.row[1]][sweeper.row[2]].stale = FALSE]
      <4>1. ResultsKept
        BY <1>0, <2>1, <3>3, ResultKeptBy DEF ReclaimZombie, RowStatuses
      <4>2. QED
        BY <3>1, <4>1 DEF approvalVars
    <3>4. QED
      BY <2>1, <3>2, <3>3 DEF ReclaimZombie
  <2>2. CASE ~ReclaimZombie
    BY <2>2 DEF SweeperStep, SelectDue, ClaimDue, PublishDue, RollbackDue, SelectZombie,
                RepublishZombie, storeVars, approvalVars, ResultsKept, Result
  <2>3. QED
    BY <2>1, <2>2
<1>4. ASSUME ParkClaimed PROVE ClaimHeld'
  <2>1. exec.status = "waiting" /\ exec' # exec /\ ~SweepHolds
    BY <1>0, <1>4 DEF ParkClaimed, ClaimWaiting, ExecRow, SingleToken, ParkIsUnowned, ClaimHeld
  <2>2. ClaimDue
    BY <1>2, <2>1 DEF SweeperStep, SelectDue, PublishDue, RollbackDue, storeVars, SweepHolds
  <2>3. sweeper'.pc = "publish"
    BY <1>0, <2>1, <2>2 DEF ClaimDue, SweeperState
  <2>4. QED
    BY <2>3 DEF ClaimHeld, SweepHolds
<1>5. ASSUME NEW a \in Approvers, ApproverHolds(a) PROVE UNCHANGED exec
  <2>1. exec.status = "pending" /\ ~SweepHolds
    BY <1>0, <1>5 DEF SingleToken, ClaimIsExclusive, ClaimHeld, OneClaim
  <2>2. QED
    BY <1>2, <2>1 DEF SweeperStep, SelectDue, ClaimDue, PublishDue, RollbackDue, ClaimWaiting,
                      SweepHolds, storeVars
<1>6. QED
  BY <1>1, <1>3, <1>4, <1>5 DEF Bystanders

LEMMA DeliveryStandsBy ==
    ASSUME RowsInv, NEW d \in Deliveries, DeliveryStep(d), UNCHANGED approvalVars
    PROVE  Bystanders
<1>0. /\ TokenInv /\ OneRow /\ SingleToken /\ delivery \in [Deliveries -> DeliveryState]
      /\ exec \in ExecRow /\ rows \in RowTable
  BY DEF RowsInv, RowsFit, RowsOK, OutcomeInv, TokenInv, Owned, TypeInv, StoreTypeOK, WakersOK,
         ResumeTypeOK, RowTable
<1>1. WakerKind
  BY <1>0, DeliveryKind
<1>2. UNCHANGED <<task, approver, reconciler>>
  BY DEF DeliveryStep, SelectParkedOn, ClaimForEvent, WriteResolution, PublishEvent, RollbackEvent,
         storeVars, approvalVars
<1>3. CASE WriteResolution(d)
  <2>1. /\ ClaimHeld /\ UNCHANGED exec /\ exec.status = "pending"
        /\ \A a \in Approvers : ~ApproverHolds(a)
    BY <1>0, <1>3 DEF WriteResolution, ClaimHeld, DeliveryHolds, SingleToken, ClaimIsExclusive,
                      OneClaim
  <2>2. \A s \in Steps : Result(s)' = IF Stat(s) = "waiting" THEN "event" ELSE Result(s)
    BY <1>0, <1>3, ResultsMapped DEF WriteResolution
  <2>3. ~ParkClaimed
    BY <2>1 DEF ParkClaimed, ClaimWaiting
  <2>4. QED
    BY <1>1, <1>2, <2>1, <2>2, <2>3 DEF Bystanders
<1>4. CASE ~WriteResolution(d)
  <2>1. UNCHANGED rows /\ ResultsKept
    BY <1>4 DEF DeliveryStep, SelectParkedOn, ClaimForEvent, PublishEvent, RollbackEvent, storeVars,
                ResultsKept, Result
  <2>2. ASSUME ParkClaimed PROVE ClaimHeld'
    <3>1. exec.status = "waiting" /\ exec' # exec /\ ~DeliveryHolds(d)
      BY <1>0, <2>2 DEF ParkClaimed, ClaimWaiting, ExecRow, SingleToken, ParkIsUnowned, ClaimHeld
    <3>2. ClaimForEvent(d)
      BY <1>4, <3>1 DEF DeliveryStep, SelectParkedOn, PublishEvent, RollbackEvent, storeVars,
                        DeliveryHolds
    <3>3. delivery'[d].pc = "write"
      BY <1>0, <3>1, <3>2 DEF ClaimForEvent, DeliveryState
    <3>4. QED
      BY <3>3 DEF ClaimHeld, DeliveryHolds
  <2>3. ASSUME NEW a \in Approvers, ApproverHolds(a) PROVE UNCHANGED exec
    <3>1. exec.status = "pending" /\ ~DeliveryHolds(d)
      BY <1>0, <2>3 DEF SingleToken, ClaimIsExclusive, ClaimHeld, OneClaim
    <3>2. QED
      BY <1>4, <3>1 DEF DeliveryStep, SelectParkedOn, ClaimForEvent, PublishEvent, RollbackEvent,
                        ClaimWaiting, DeliveryHolds, storeVars
  <2>4. QED
    BY <1>1, <1>2, <2>1, <2>2, <2>3 DEF Bystanders
<1>5. QED
  BY <1>3, <1>4

LEMMA TimeStandsBy ==
    ASSUME NoDuplicates, RowsInv, Time \/ UNCHANGED vars
    PROVE  Bystanders
<1>0. TokenInv /\ OneRow /\ rows \in RowTable /\ exec \in ExecRow
  BY DEF RowsInv, RowsFit, RowsOK, OutcomeInv, TokenInv, TypeInv, StoreTypeOK, RowTable
<1>1. StatusesLeft
  BY <1>0, OtherKind
<1>2. UNCHANGED <<task, approver, reconciler>> /\ ResultsKept
  <2>1. CASE Time
    <3>1. PICK s \in Steps, i \in Slots : TimeoutDue(s, i) \/ ClaimAges(s, i)
      BY <2>1 DEF Time
    <3>2. \/ rows' = [rows EXCEPT ![s][i].due = TRUE]
          \/ \E b \in BOOLEAN : rows' = [rows EXCEPT ![s][i].stale = b]
      BY <3>1 DEF TimeoutDue, ClaimAges
    <3>3. ResultsKept
      BY <1>0, <3>2, ResultKeptBy DEF RowStatuses
    <3>4. QED
      BY <3>1, <3>3 DEF TimeoutDue, ClaimAges, wakerVars, approvalVars
  <2>2. CASE UNCHANGED vars
    BY <2>2 DEF vars, storeVars, approvalVars, ResultsKept, Result
  <2>3. QED
    BY <2>1, <2>2
<1>3. ~ParkClaimed
  BY <1>0, <1>1 DEF StatusesLeft, ParkClaimed, ClaimWaiting, ExecRow
<1>4. QED
  BY <1>1, <1>2, <1>3 DEF Bystanders, WakerKind, StatusesLeft
-----------------------------------------------------------------------------
(***************************************************************************)
(* The gate under the hands of the wakers.                                 *)
(***************************************************************************)
\* A walk that was left at its step is the only one, and its execution runs.
LEMMA LeftAtItsStep ==
    ASSUME RowsInv, ClaimLeft
    PROVE  exec.status \notin {"pending", "waiting"} /\ \E s \in Steps : Stat(s) = "running"
<1>1. OneRow /\ RunsOneStep
  BY OneStepRuns DEF RowsInv, OutcomeInv, RowsFit, RowsOK
<1>2. QED
  BY <1>1 DEF ClaimLeft, RunsOneStep, OneRow, Stat

\* A waker leaves the cursor and the statuses of the rows, and starts nothing anew.
LEMMA WakersCarry ==
    ASSUME RowsInv, WakerKind
    PROVE  /\ UNCHANGED worker /\ StatsKept /\ exec'.current = exec.current
           /\ OnGate' <=> OnGate
           /\ Carried' => Carried
           /\ exec.status = "running" => UNCHANGED exec
<1>0. /\ exec \in ExecRow /\ queue \in [Topics -> Nat] /\ ClaimIsExclusive
      /\ OneRow
  BY DEF RowsInv, RowsFit, RowsOK, OutcomeInv, TokenInv, TypeInv, StoreTypeOK, Owned, SingleToken
<1>1. UNCHANGED worker /\ StatsKept /\ exec'.current = exec.current
  <2>1. UNCHANGED worker /\ exec'.current = exec.current
    BY <1>0 DEF WakerKind, ParkClaimed, ClaimPublished, ClaimReturned, ZombiePublished, StatusesLeft,
                ClaimWaiting, RollbackClaim, ExecRow, executorVars
  <2>2. UNCHANGED rows \/ StatsKept
    BY DEF WakerKind, ParkClaimed, ClaimPublished, ClaimReturned, ZombiePublished, StatusesLeft
  <2>3. QED
    BY <2>1, <2>2 DEF StatsKept, Stat
<1>2. OnGate' <=> OnGate
  <2>1. PICK t : t = exec.current /\ t = exec'.current
    BY <1>1
  <2>2. t \in Steps => Stat(t)' = Stat(t)
    BY <1>1 DEF StatsKept
  <2>3. QED
    BY <2>1, <2>2 DEF OnGate, Stat
<1>3. exec.status = "running" => UNCHANGED exec
  BY <1>0 DEF WakerKind, ParkClaimed, ClaimPublished, ClaimReturned, ZombiePublished, StatusesLeft,
              ClaimWaiting, ClaimIsExclusive
<1>4. ASSUME Carried' PROVE Carried
  <2>1. CASE ParkClaimed
    BY <2>1 DEF ParkClaimed, ClaimWaiting, Carried, Terminal
  <2>2. CASE ClaimPublished \/ ClaimReturned
    BY <1>0, <2>2 DEF ClaimPublished, ClaimReturned, Carried, ClaimIsExclusive, Terminal
  <2>3. CASE StatusesLeft
    <3>1. UNCHANGED <<exec, queue>> /\ (ClaimHeld' => ClaimHeld) /\ OneRow'
      BY <2>3 DEF StatusesLeft, NoNewHolder, ClaimHeld
    <3>2. ClaimLeft' => ClaimLeft
      <4>1. ClaimLeft' => \E s \in Steps : Stat(s)' = "running"
        BY <3>1 DEF ClaimLeft, OneRow, Stat
      <4>2. QED
        BY <1>1, <4>1, FirstSlot DEF ClaimLeft, StatsKept, Stat
    <3>3. QED
      BY <1>1, <1>4, <3>1, <3>2 DEF Carried, Messages, Walking
  <2>4. CASE ZombiePublished
    BY <1>4, <2>4 DEF ZombiePublished, Carried
  <2>5. QED
    BY <2>1, <2>2, <2>3, <2>4 DEF WakerKind
<1>5. QED
  BY <1>1, <1>2, <1>3, <1>4

LEMMA NotOpenedByWakers ==
    ASSUME RowsInv, WakerKind, NotOpenedYet, \A s \in Steps : task[s] = "none" => task'[s] = "none",
           exec.status = "running" /\ exec.current \in Steps /\ LeftOpen(exec.current)
               => LeftOpen(exec.current)'
    PROVE  NotOpenedYet'
<1>1. SUFFICES ASSUME exec'.current \in Steps, Carried', ~OnGate' PROVE NewOrLeft(exec.current)'
  BY DEF NotOpenedYet
<1>2. /\ exec'.current = exec.current /\ Carried /\ ~OnGate
      /\ exec.status = "running" => UNCHANGED exec
  BY <1>1, WakersCarry
<1>3. NewOrLeft(exec.current)
  BY <1>1, <1>2 DEF NotOpenedYet
<1>4. CASE task[exec.current] = "none"
  BY <1>1, <1>2, <1>4 DEF NewOrLeft
<1>5. CASE exec.status = "running" /\ LeftOpen(exec.current)
  BY <1>1, <1>2, <1>5 DEF NewOrLeft
<1>6. QED
  BY <1>3, <1>4, <1>5 DEF NewOrLeft

LEMMA StandByAtGate ==
    ASSUME RowsInv, AtGateFits, Bystanders, ClaimIsExclusive'
    PROVE  AtGateFits'
<1>0. /\ exec \in ExecRow /\ SingleToken
      /\ NotOpenedYet /\ HeldAtItsGate /\ ParkFits /\ GateWalkersOK
  BY DEF RowsInv, OutcomeInv, TokenInv, TypeInv, StoreTypeOK, Owned, AtGateFits
<1>1. /\ UNCHANGED <<worker, task, approver, reconciler>>
      /\ StatsKept /\ exec'.current = exec.current /\ (OnGate' <=> OnGate)
  BY WakersCarry DEF Bystanders
<1>3. /\ \A s \in Steps : StaysOpen(s)' <=> StaysOpen(s)
      /\ \A s : \A r : task'[s] = task[s] /\ (Decided(s)' <=> Decided(s))
      /\ \A a \in Approvers : ApproverHolds(a)' <=> ApproverHolds(a)
  BY <1>1 DEF StaysOpen, Decidable, Deciding, Doomed, Decided, ApproverHolds, ApproverAt
<1>a. ResultsKept => \A s \in Steps : LeftOpen(s) => LeftOpen(s)'
  BY <1>3 DEF LeftOpen, ResultsKept
<1>2. NotOpenedYet'
  <2>1. exec.status = "running" => ResultsKept
    BY <1>0 DEF Bystanders, SingleToken, ClaimIsExclusive
  <2>2. QED
    BY <1>0, <1>1, <1>a, <2>1, NotOpenedByWakers DEF Bystanders
<1>4. GateWalkersOK'
  <2> SUFFICES ASSUME NEW c \in Consumers, Walking(c)' PROVE GateWalkerOK(worker[c])'
    BY DEF GateWalkersOK
  <2>1. Walking(c) /\ ~ClaimHeld
    BY <1>0, <1>1 DEF Walking, SingleToken, ClaimIsExclusive, Idle
  <2>2. ResultsKept
    BY <2>1 DEF Bystanders
  <2>3. GateWalkerOK(worker[c])
    BY <1>0, <2>1 DEF GateWalkersOK
  <2>4. \A s \in Steps : IsGate(s)' <=> IsGate(s)
    BY DEF IsGate
  <2>5. worker[c].pc \in {"park_row", "park_exec"} => worker[c].step \in Steps
    BY DEF RowsInv, OutcomeInv, TokenInv, TypeInv, ConsumersOK, CursorOK, AtStep
  <2>6. UNCHANGED exec
    <3>1. exec.status # "waiting"
      BY <1>0, <2>1 DEF SingleToken, ParkIsUnowned, Idle, Walking
    <3>2. QED
      BY <2>1, <3>1 DEF Bystanders, WakerKind, ParkClaimed, ClaimPublished, ClaimReturned,
                        ZombiePublished, StatusesLeft, ClaimWaiting
  <2>7. \A s \in Steps : NewOrLeft(s) => NewOrLeft(s)'
    BY <1>1, <1>a, <2>2, <2>6 DEF NewOrLeft
  <2>8. QED
    BY <1>1, <1>3, <1>a, <2>2, <2>3, <2>5, <2>6, <2>7 DEF GateWalkerOK, ResultsKept, Tells
<1>5. CASE \E a \in Approvers : ApproverHolds(a)
  <2>1. UNCHANGED exec /\ ResultsKept
    BY <1>5 DEF Bystanders
  <2>2. ClaimHeld /\ ClaimHeld'
    BY <1>3, <1>5 DEF ClaimHeld
  <2>3. HeldAtItsGate'
    <3>1. \A a \in Approvers : ApproverHolds(a) => approver[a].gate \in Steps
      BY <1>0 DEF HeldAtItsGate, OnGate
    <3>2. \A a \in Approvers : ApproverAt(a, "publish") => ApproverHolds(a)
      BY DEF ApproverAt, ApproverHolds
    <3>3. QED
      BY <1>0, <1>1, <1>3, <2>1, <3>1, <3>2 DEF HeldAtItsGate, ResultsKept, ApproverAt
  <2>4. ParkFits'
    <3>1. exec.current \in Steps /\ OnGate' =>
             (Undecided(exec.current)' <=> Undecided(exec.current))
      BY <1>1, <2>1 DEF Undecided, ResultsKept
    <3>2. OnGate' => exec.current \in Steps
      BY <1>1 DEF OnGate
    <3>3. QED
      BY <1>0, <1>1, <1>3, <2>1, <2>2, <3>1, <3>2 DEF ParkFits
  <2>5. QED
    BY <1>2, <1>4, <2>3, <2>4 DEF AtGateFits
<1>6. CASE \A a \in Approvers : ~ApproverHolds(a)
  <2>1. HeldAtItsGate'
    BY <1>3, <1>6 DEF HeldAtItsGate, ApproverAt, ApproverHolds
  <2>2. ASSUME OnGate' PROVE (ParkFits)'
    <3>1. PICK s \in Steps : s = exec.current /\ s = exec'.current /\ Stat(s) = "waiting"
      BY <1>1, <2>2 DEF OnGate
    <3>2. OnGate
      BY <1>1, <2>2
    <3>3. CASE exec.status = "waiting" \/ ClaimHeld
      <4>1. StaysOpen(s) /\ Undecided(s)
        BY <1>0, <3>1, <3>2, <3>3 DEF ParkFits
      <4>2. Result(s) \notin Verdicts
        BY <1>6, <4>1 DEF Undecided, ApproverHolds
      <4>3. Result(s)' \notin Verdicts
        BY <4>2 DEF Bystanders, ResultsKept, Verdicts
      <4>4. StaysOpen(s)' /\ Undecided(s)'
        BY <1>3, <4>1, <4>3 DEF Undecided
      <4>5. ~Decided(s)
        <5>1. Decidable(s)
          BY <4>1 DEF StaysOpen
        <5>2. QED
          BY <5>1 DEF Decidable, Deciding, Decided, Verdicts
      <4>6. Tells(Result(s), s)'
        BY <1>3, <4>3, <4>5 DEF Tells
      <4>7. QED
        BY <3>1, <4>4, <4>6 DEF ParkFits
    <3>4. CASE exec.status # "waiting" /\ ~ClaimHeld
      <4>1. StatusesLeft \/ ZombiePublished
        BY <3>4 DEF Bystanders, WakerKind, ParkClaimed, ClaimWaiting, ClaimPublished, ClaimReturned
      <4>2. UNCHANGED exec /\ ~ClaimHeld'
        <5>1. exec.status = "pending" => ~ClaimHeld'
          BY <3>4, <4>1 DEF StatusesLeft, ZombiePublished, NoNewHolder, ClaimHeld
        <5>2. QED
          BY <4>1, <5>1 DEF StatusesLeft, ZombiePublished, ClaimIsExclusive
      <4>3. ResultsKept
        BY <3>4 DEF Bystanders
      <4>4. Result(s)' = Result(s)
        BY <4>3 DEF ResultsKept
      <4>5. exec.status = "pending" => Tells(Result(s), s)
        BY <1>0, <3>1, <3>2, <3>4 DEF ParkFits
      <4>6. exec.status = "pending" => Tells(Result(s), s)'
        BY <1>3, <4>4, <4>5 DEF Tells
      <4>7. QED
        BY <3>1, <3>4, <4>2, <4>6 DEF ParkFits
    <3>5. QED
      BY <3>3, <3>4
  <2>3. ParkFits'
    BY <2>2 DEF ParkFits
  <2>4. QED
    BY <1>2, <1>4, <2>1, <2>3 DEF AtGateFits
<1>7. QED
  BY <1>5, <1>6

LEMMA DecidedIs ==
    ASSUME NEW s
    PROVE  /\ Decided(s) <=> task[s] \in Verdicts /\ \A a \in Approvers : ~Deciding(a, s)
           /\ Decided(s)' <=> task'[s] \in Verdicts /\ \A a \in Approvers : ~Deciding(a, s)'
BY DEF Decided, Deciding, ApproverAt

\* A step beside the claim that may change a task, begin a decision or end it.
LEMMA BesideGate ==
    ASSUME RowsInv, AtGateFits, StatusesLeft, UNCHANGED rows, ClaimHeld' <=> ClaimHeld,
           \A a \in Approvers : ApproverHolds(a)' => ApproverHolds(a) /\ approver'[a] = approver[a],
           \A a \in Approvers : ApproverHolds(a) => approver'[a] = approver[a],
           \A s \in Steps : task[s] = "none" => task'[s] = "none",
           \A s \in Steps : StaysOpen(s) => Decidable(s)',
           Doomed(exec.current)' => Doomed(exec.current) \/ exec.status \in Terminal,
           \A s \in Steps : \A r : Tells(r, s) => Tells(r, s)'
    PROVE  AtGateFits'
<1>0. /\ exec \in ExecRow /\ SingleToken /\ worker \in Workers
      /\ NotOpenedYet /\ HeldAtItsGate /\ ParkFits /\ GateWalkersOK
  BY DEF RowsInv, OutcomeInv, TokenInv, TypeInv, StoreTypeOK, ConsumersOK, ExecutorTypeOK, Workers,
         Owned, AtGateFits
<1>1. /\ UNCHANGED <<exec, worker>> /\ (OnGate' <=> OnGate)
      /\ \A s : Result(s)' = Result(s)
  BY DEF StatusesLeft, executorVars, OnGate, Stat, Result
<1>3. HeldAtItsGate'
  BY <1>0, <1>1 DEF HeldAtItsGate, ApproverAt, ApproverHolds
<1>4. exec.status \notin Terminal /\ exec.current \in Steps /\ StaysOpen(exec.current)
          => StaysOpen(exec.current)'
  BY <1>1 DEF StaysOpen, Doomed
<1>a. exec.status \notin Terminal /\ exec.current \in Steps /\ LeftOpen(exec.current)
          => LeftOpen(exec.current)'
  BY <1>1, <1>4 DEF LeftOpen
<1>2. NotOpenedYet'
  BY <1>0, <1>a, NotOpenedByWakers DEF WakerKind, Terminal
<1>5. \A s : Undecided(s) => Undecided(s)'
  <2>1. \A a \in Approvers : approver[a].pc \in {"publish", "clear"} => ApproverHolds(a)
    BY DEF ApproverHolds
  <2>2. QED
    BY <1>1, <2>1 DEF Undecided
<1>6. ParkFits'
  <2> SUFFICES ASSUME OnGate' PROVE ParkFits'
    BY DEF ParkFits
  <2>1. PICK s \in Steps : s = exec.current /\ s = exec'.current
    BY <1>1 DEF OnGate
  <2>2. exec.status = "waiting" \/ ClaimHeld => exec.status \notin Terminal
    BY <1>0 DEF SingleToken, ClaimIsExclusive, Terminal
  <2>3. QED
    BY <1>0, <1>1, <1>4, <1>5, <2>1, <2>2 DEF ParkFits
<1>7. GateWalkersOK'
  <2> SUFFICES ASSUME NEW c \in Consumers, Walking(c)' PROVE GateWalkerOK(worker[c])'
    BY DEF GateWalkersOK
  <2>1. Walking(c) /\ GateWalkerOK(worker[c])
    BY <1>0, <1>1 DEF Walking, GateWalkersOK
  <2>2. worker[c].parked.step \in Targets
    BY <1>0 DEF Workers, WorkerState
  <2>3. IsGate(worker[c].parked.step) => worker[c].parked.step \in Steps
    BY <2>2 DEF IsGate, Targets
  <2>4. worker[c].pc \in {"park_row", "park_exec"} =>
           worker[c].step = exec.current /\ exec.current \in Steps /\ exec.status = "running"
    BY AtTheCursor DEF OnItsStep, AtStep
  <2>5. IsGate(worker[c].step)' <=> IsGate(worker[c].step)
    BY <1>1 DEF IsGate
  <2>6. IsGate(worker[c].parked.step)' <=> IsGate(worker[c].parked.step)
    BY <1>1 DEF IsGate
  <2>7. worker[c].pc \in {"park_row", "park_exec"} /\ IsGate(worker[c].step) =>
           LeftOpen(worker[c].step)'
    BY <1>1, <1>a, <2>1, <2>4 DEF GateWalkerOK, Terminal
  <2>8. \A s \in Steps : NewOrLeft(s) => NewOrLeft(s)'
    BY <1>1, <1>a DEF NewOrLeft, Terminal
  <2>9. QED
    BY <1>1, <2>1, <2>3, <2>5, <2>6, <2>7, <2>8 DEF GateWalkerOK
<1>8. QED
  BY <1>2, <1>3, <1>6, <1>7 DEF AtGateFits

LEMMA ReconcilerAtGate ==
    ASSUME NoDuplicates, RowsInv, AtGateFits, ReconcilerStep
    PROVE  AtGateFits'
<1>0. /\ StatusesLeft /\ UNCHANGED <<rows, approver, resumeVars>>
      /\ task \in [Steps -> TaskStatuses] /\ reconciler \in ReconcilerState
      /\ NoStep \notin Steps
  <2>1. TokenInv /\ OneRow
    BY DEF RowsInv, RowsFit, RowsOK, OutcomeInv
  <2>2. QED
    BY <2>1, OtherKind, GateTasks, DefinitionAssumption
       DEF RowsInv, OutcomeInv, TokenInv, TypeInv, WakersOK, ApprovalTypeOK, ReconcilerStep,
           SelectOpenTasks, SelectExecutions, CloseTask, storeVars
<1>1. /\ ClaimHeld' <=> ClaimHeld
      /\ \A a \in Approvers : ApproverHolds(a)' <=> ApproverHolds(a)
      /\ \A a \in Approvers : \A s : Deciding(a, s)' <=> Deciding(a, s)
  BY <1>0 DEF ClaimHeld, SweepHolds, DeliveryHolds, ApproverHolds, Deciding, ApproverAt, resumeVars
<1>2. \A s \in Steps : Closing(s)
  BY <1>0, GateTasks DEF ReconcilerStep, SelectOpenTasks, SelectExecutions, CloseTask, storeVars,
                         ExpireTask, Closing
<1>3. \A s \in Steps : ~Doomed(s) => task'[s] = task[s]
  BY <1>0, GateTasks DEF ReconcilerStep, SelectOpenTasks, SelectExecutions, CloseTask, storeVars,
                         ExpireTask, Doomed
<1>4. Doomed(exec.current)' => Doomed(exec.current) \/ exec.status \in Terminal
  <2>1. CASE SelectOpenTasks
    BY <1>0, <2>1 DEF SelectOpenTasks, Doomed, ReconcilerState, storeVars
  <2>2. CASE SelectExecutions
    BY <1>0, <2>2 DEF SelectExecutions, Doomed, IdleReconciler, ReconcilerState, storeVars
  <2>3. CASE CloseTask
    <3>1. reconciler.pc = "close" /\ reconciler'.open \subseteq reconciler.open /\ UNCHANGED exec
      BY <1>0, <2>3 DEF CloseTask, IdleReconciler, ReconcilerState
    <3>2. QED
      BY <3>1 DEF Doomed
  <2>4. QED
    BY <2>1, <2>2, <2>3 DEF ReconcilerStep
<1>5. \A s \in Steps : task[s] = "none" => task'[s] = "none"
  BY <1>2 DEF Closing
<1>6. \A s \in Steps : StaysOpen(s) => Decidable(s)'
  BY <1>1, <1>3 DEF StaysOpen, Decidable
<1>7. \A s \in Steps : \A r : Tells(r, s) => Tells(r, s)'
  <2>1. \A s \in Steps : task[s] \in Verdicts => task'[s] = task[s]
    BY <1>2 DEF Closing, Verdicts
  <2>2. \A s \in Steps : task'[s] \in Verdicts => task'[s] = task[s]
    BY <1>2 DEF Closing, Verdicts
  <2>3. \A s \in Steps : Decided(s)' <=> Decided(s)
    BY <1>1, <2>1, <2>2, DecidedIs
  <2>4. QED
    BY <2>1, <2>3, DecidedIs DEF Tells
<1>8. QED
  BY <1>0, <1>1, <1>4, <1>5, <1>6, <1>7, BesideGate

\* A decision that begins, that comes too late, or that gives its task back.
LEMMA DeciderBesideGate ==
    ASSUME RowsInv, ClaimedByVerdict, OneDecider, AtGateFits, NEW a \in Approvers,
           ClaimTask(a) \/ ReopenTask(a) \/ (ClaimGate(a) /\ UNCHANGED exec)
    PROVE  AtGateFits'
<1>0. /\ task \in [Steps -> TaskStatuses] /\ approver[a] \in ApproverState
      /\ ~ApproverHolds(a) /\ UNCHANGED <<exec, rows, queue, executorVars, resumeVars, reconciler>>
      /\ exec \in ExecRow
  BY GateTasks DEF ClaimTask, ReopenTask, ClaimGate, ApproverAt, ApproverHolds, RowsInv, OutcomeInv,
                   TokenInv, TypeInv, StoreTypeOK
\* The tasks and the decisions before and after.
<1>1. /\ \A s \in Steps : /\ task[s] = "none" => task'[s] = "none"
                          /\ Decidable(s) => Decidable(s)'
                          /\ \A r : Tells(r, s) => Tells(r, s)'
      /\ ~ApproverHolds(a)' /\ \A b \in Approvers \ {a} : approver'[b] = approver[b]
  <2>1. CASE ClaimTask(a)
    <3>1. PICK s \in Steps, verdict \in Verdicts :
              /\ task[s] = "open" /\ task' = [task EXCEPT ![s] = verdict]
              /\ approver'[a] = [pc |-> "claim", gate |-> s, verdict |-> verdict]
              /\ \A b \in Approvers \ {a} : approver'[b] = approver[b]
              /\ \A b \in Approvers : \A t \in Steps :
                     Deciding(b, t)' <=> Deciding(b, t) \/ (b = a /\ t = s)
      BY <2>1, DecisionBegins
    <3>2. task'[s] = verdict /\ \A t \in Steps \ {s} : task'[t] = task[t]
      BY <1>0, <3>1
    <3>3. Deciding(a, s)' /\ \A t \in Steps \ {s} : \A b \in Approvers :
                               Deciding(b, t)' <=> Deciding(b, t)
      BY <3>1
    <3>4. ~Decided(s) /\ ~Decided(s)' /\ Decidable(s)'
      BY <3>1, <3>3, DecidedIs DEF Decidable, Verdicts
    <3>5. \A t \in Steps \ {s} : (Decided(t)' <=> Decided(t)) /\ (Decidable(t)' <=> Decidable(t))
      BY <3>2, <3>3, DecidedIs DEF Decidable
    <3>6. \A t \in Steps : \A r : Tells(r, t) => Tells(r, t)'
      BY <3>2, <3>4, <3>5 DEF Tells
    <3>7. ~ApproverHolds(a)'
      BY <3>1 DEF ApproverHolds
    <3>8. QED
      BY <3>1, <3>2, <3>4, <3>5, <3>6, <3>7
  <2>2. CASE ReopenTask(a)
    <3>1. PICK s \in Steps : s = approver[a].gate /\ Deciding(a, s)
      BY <2>2, GateTasks DEF ReopenTask, ApproverAt, Deciding
    <3>2. task[s] = approver[a].verdict
      BY <3>1 DEF ClaimedByVerdict, Deciding
    <3>3. task'[s] = "open" /\ \A t \in Steps \ {s} : task'[t] = task[t]
      BY <1>0, <2>2, <3>1, <3>2 DEF ReopenTask
    <3>4. /\ approver'[a].pc = "idle"
          /\ \A b \in Approvers \ {a} : approver'[b] = approver[b]
          /\ \A b \in Approvers : \A t : Deciding(b, t)' <=> b # a /\ Deciding(b, t)
      BY <2>2, DecisionEnds DEF ReopenTask
    <3>5. \A t \in Steps \ {s} : ~Deciding(a, t)
      BY <3>1 DEF Deciding
    <3>6. ~Decided(s) /\ ~Decided(s)' /\ Decidable(s)'
      BY <3>1, <3>3, DecidedIs DEF Decidable, Verdicts
    <3>7. \A t \in Steps \ {s} : (Decided(t)' <=> Decided(t)) /\ (Decidable(t)' <=> Decidable(t))
      BY <3>3, <3>4, <3>5, DecidedIs DEF Decidable
    <3>8. \A t \in Steps : \A r : Tells(r, t) => Tells(r, t)'
      BY <3>3, <3>6, <3>7 DEF Tells
    <3>9. task[s] # "none"
      BY <3>2, GateTasks DEF Verdicts
    <3>10. QED
      BY <3>3, <3>4, <3>6, <3>7, <3>8, <3>9 DEF ApproverHolds
  <2>3. CASE ClaimGate(a) /\ UNCHANGED exec
    <3>1. ApproverGoto(a, "reopen") /\ ~ApproverAt(a, "idle") /\ UNCHANGED task
      BY <1>0, <2>3 DEF ClaimGate, ClaimWaiting, ExecRow, ApproverAt
    <3>2. /\ approver'[a].pc = "reopen" /\ \A b \in Approvers \ {a} : approver'[b] = approver[b]
          /\ \A b \in Approvers : \A s : Deciding(b, s)' <=> Deciding(b, s)
      BY <3>1, DecisionGoesOn
    <3>3. \A s : (Decided(s)' <=> Decided(s)) /\ (Decidable(s)' <=> Decidable(s))
      BY <3>1, <3>2, DecidedIs DEF Decidable
    <3>4. QED
      BY <3>1, <3>2, <3>3 DEF Tells, ApproverHolds
  <2>4. QED
    BY <2>1, <2>2, <2>3
<1>2. /\ \A b \in Approvers : ApproverHolds(b)' <=> ApproverHolds(b)
      /\ \A b \in Approvers : ApproverHolds(b) => approver'[b] = approver[b]
  BY <1>0, <1>1 DEF ApproverHolds
<1>3. ClaimHeld' <=> ClaimHeld
  BY <1>0, <1>2 DEF ClaimHeld, SweepHolds, DeliveryHolds, resumeVars
<1>4. StatusesLeft
  BY <1>0, <1>2 DEF StatusesLeft, NoNewHolder, SweepHolds, DeliveryHolds, resumeVars, RowsInv, RowsFit,
                    RowsOK, OneRow, StatsKept, Stat
<1>5. Doomed(exec.current)' => Doomed(exec.current)
  BY <1>0 DEF Doomed
<1>6. QED
  BY <1>0, <1>1, <1>2, <1>3, <1>4, <1>5, BesideGate DEF StaysOpen

\* A decision that has claimed the execution, or claims it now.
LEMMA HolderAtGate ==
    ASSUME RowsInv, ClaimedByVerdict, OneDecider, AtGateFits, NEW a \in Approvers,
           \/ ClaimGate(a) /\ exec' # exec
           \/ WriteVerdict(a) \/ PublishVerdict(a) \/ ClearVerdict(a) \/ RollbackGate(a)
    PROVE  AtGateFits'
<1>0. /\ TokenInv /\ OneRow /\ SingleToken /\ rows \in RowTable /\ exec \in ExecRow
      /\ NotOpenedYet /\ HeldAtItsGate /\ ParkFits
  BY DEF RowsInv, RowsFit, RowsOK, OutcomeInv, TokenInv, Owned, TypeInv, StoreTypeOK, RowTable,
         AtGateFits
<1>6. exec.status = "waiting" \/ ClaimHeld
  BY DEF ClaimGate, ClaimWaiting, WriteVerdict, PublishVerdict, ClearVerdict, RollbackGate,
         ApproverAt, ApproverHolds, ClaimHeld
<1>1. WakerKind
  BY <1>0, ApproverKind DEF ApproverStep
<1>2. UNCHANGED <<task, resumeVars, reconciler>>
  BY DEF ClaimGate, WriteVerdict, PublishVerdict, ClearVerdict, RollbackGate
<1>3. /\ exec'.current = exec.current /\ StatsKept /\ (OnGate' <=> OnGate) /\ UNCHANGED worker
  BY <1>1, WakersCarry
\* Where the decision is, whose gate it is, and that it is alone with the claim.
<1>4. PICK g \in Steps : g = approver[a].gate /\ Deciding(a, g) /\ task[g] = approver[a].verdict
  BY GateTasks DEF ClaimGate, WriteVerdict, PublishVerdict, ClearVerdict, RollbackGate, ApproverAt,
                   Deciding, ClaimedByVerdict
<1>5. exec.current = g /\ OnGate
  <2>1. CASE ClaimGate(a) /\ exec' # exec
    <3>1. exec.status = "waiting" /\ exec.current = g
      BY <1>4, <2>1 DEF ClaimGate, ClaimWaiting
    <3>2. task[g] # "none"
      BY <1>4, GateTasks DEF Verdicts
    <3>3. QED
      BY <1>0, <3>1, <3>2 DEF NotOpenedYet, NewOrLeft, Carried, Terminal
  <2>2. CASE ApproverHolds(a)
    BY <1>0, <1>4, <2>2 DEF HeldAtItsGate
  <2>3. QED
    BY <2>1, <2>2 DEF WriteVerdict, PublishVerdict, ClearVerdict, RollbackGate, ApproverAt,
                      ApproverHolds
<1>7. /\ Idle /\ ~SweepHolds /\ \A d \in Deliveries : ~DeliveryHolds(d)
      /\ \A b \in Approvers \ {a} : ~ApproverHolds(b)
      /\ ClaimHeld => exec.status = "pending" /\ ApproverHolds(a)
  <2>1. CASE exec.status = "waiting"
    BY <1>0, <2>1 DEF SingleToken, ParkIsUnowned, ClaimHeld
  <2>2. CASE ClaimHeld
    <3>1. exec.status = "pending" /\ Idle
      BY <1>0, <2>2 DEF SingleToken, ClaimIsExclusive
    <3>2. ApproverHolds(a)
      BY <3>1 DEF ClaimGate, ClaimWaiting, WriteVerdict, PublishVerdict, ClearVerdict, RollbackGate,
                  ApproverAt, ApproverHolds
    <3>3. QED
      BY <1>0, <3>1, <3>2 DEF SingleToken, OneClaim
  <2>3. QED
    BY <1>6, <2>1, <2>2
<1>8. StaysOpen(g) /\ Undecided(g)
  BY <1>0, <1>5, <1>6 DEF ParkFits
<1>9. NotOpenedYet'
  BY <1>0, <1>1, <1>2, <1>6, NotOpenedByWakers DEF SingleToken, ClaimIsExclusive
<1>10. GateWalkersOK'
  BY <1>3, <1>7 DEF GateWalkersOK, Walking, Idle
<1>11. ~SweepHolds' /\ \A d \in Deliveries : ~DeliveryHolds(d)'
  BY <1>2, <1>7 DEF SweepHolds, DeliveryHolds, resumeVars
\* The decision goes on.
<1>12. ASSUME NEW label \in {"write", "publish", "clear", "unpark", "reopen"}, ApproverGoto(a, label)
       PROVE  /\ approver'[a].pc = label /\ approver'[a].gate = g
              /\ approver'[a].verdict = approver[a].verdict
              /\ \A b \in Approvers \ {a} : ~ApproverHolds(b)' /\ ~ApproverAt(b, "publish")'
              /\ StaysOpen(g)'
  <2>1. /\ approver'[a].pc = label /\ approver'[a].gate = approver[a].gate
        /\ approver'[a].verdict = approver[a].verdict
        /\ \A b \in Approvers \ {a} : approver'[b] = approver[b]
        /\ \A b \in Approvers : \A s : Deciding(b, s)' <=> Deciding(b, s)
    BY <1>4, <1>12, DecisionGoesOn DEF Deciding
  <2>2. StaysOpen(g)'
    BY <1>2, <1>8, <2>1 DEF StaysOpen, Decidable, Doomed
  <2>3. QED
    BY <1>4, <1>7, <2>1, <2>2 DEF ApproverHolds, ApproverAt
<1>13. CASE ClaimGate(a) /\ exec' # exec
  <2>1. ApproverGoto(a, "write") /\ UNCHANGED rows /\ exec.status = "waiting"
    BY <1>13 DEF ClaimGate, ClaimWaiting
  <2>2. ApproverHolds(a)' /\ ~ApproverAt(a, "publish")'
    BY <1>12, <2>1 DEF ApproverHolds, ApproverAt
  <2>3. HeldAtItsGate'
    BY <1>3, <1>5, <1>12, <2>1, <2>2 DEF HeldAtItsGate
  <2>4. ~ClaimHeld
    BY <1>7, <2>1
  <2>5. Result(g) \notin Verdicts
    BY <1>8, <2>4 DEF Undecided, ClaimHeld, ApproverHolds
  <2>6. Result(g)' = Result(g)
    BY <2>1 DEF Result
  <2>7. Undecided(g)'
    BY <2>5, <2>6 DEF Undecided
  <2>8. ParkFits'
    BY <1>3, <1>5, <1>12, <2>1, <2>2, <2>7 DEF ParkFits, ClaimHeld
  <2>9. QED
    BY <1>9, <1>10, <2>3, <2>8 DEF AtGateFits
<1>14. CASE WriteVerdict(a)
  <2>1. ApproverGoto(a, "publish") /\ SetGateResult(g, approver[a].verdict)
    BY <1>4, <1>14 DEF WriteVerdict
  <2>2. Stat(g) = "waiting" /\ approver[a].verdict \in Resolutions
    BY <1>5, GateTasks DEF OnGate, Verdicts, Resolutions
  <2>3. Result(g)' = approver[a].verdict
    BY <1>0, <2>1, <2>2, GateResultIs
  <2>4. ApproverHolds(a)' /\ ApproverAt(a, "publish")' /\ Undecided(g)'
    BY <1>12, <2>1 DEF ApproverHolds, ApproverAt, Undecided
  <2>5. HeldAtItsGate'
    <3>1. Result(approver[a].gate)' = Result(g)'
      BY <1>12, <2>1 DEF Result
    <3>2. QED
      BY <1>3, <1>5, <1>12, <2>1, <2>3, <3>1 DEF HeldAtItsGate
  <2>6. ParkFits'
    BY <1>3, <1>5, <1>12, <2>1, <2>4 DEF ParkFits, ClaimHeld
  <2>7. QED
    BY <1>9, <1>10, <2>5, <2>6 DEF AtGateFits
<1>15. CASE ClearVerdict(a)
  <2>1. ApproverGoto(a, "unpark") /\ SetGateResult(g, NoResult)
    BY <1>4, <1>15 DEF ClearVerdict
  <2>2. Stat(g) = "waiting"
    BY <1>5 DEF OnGate
  <2>3. Result(g)' = NoResult
    BY <1>0, <2>1, <2>2, GateResultIs
  <2>4. ApproverHolds(a)' /\ ~ApproverAt(a, "publish")'
    BY <1>12, <2>1 DEF ApproverHolds, ApproverAt
  <2>5. Undecided(g)'
    BY <2>3 DEF Undecided, NoResult, Verdicts
  <2>6. HeldAtItsGate'
    BY <1>3, <1>5, <1>12, <2>1, <2>4 DEF HeldAtItsGate
  <2>7. ParkFits'
    BY <1>3, <1>5, <1>12, <2>1, <2>4, <2>5 DEF ParkFits, ClaimHeld
  <2>8. QED
    BY <1>9, <1>10, <2>6, <2>7 DEF AtGateFits
<1>16. CASE RollbackGate(a)
  <2>1. ApproverGoto(a, "reopen") /\ UNCHANGED rows /\ approver[a].pc = "unpark"
    BY <1>16 DEF RollbackGate, ApproverAt
  <2>2. exec'.status = "waiting"
    <3>1. exec.status = "pending"
      BY <1>7, <2>1 DEF ClaimHeld, ApproverHolds
    <3>2. QED
      BY <1>0, <1>16, <3>1 DEF RollbackGate, RollbackClaim, ExecRow
  <2>3. Result(g) \notin Verdicts
    BY <1>7, <1>8, <2>1 DEF Undecided, ApproverHolds
  <2>4. Undecided(g)'
    BY <2>1, <2>3 DEF Undecided, Result
  <2>5. ~ApproverHolds(a)' /\ ~ApproverAt(a, "publish")'
    BY <1>12, <2>1 DEF ApproverHolds, ApproverAt
  <2>6. HeldAtItsGate'
    BY <1>12, <2>1, <2>5 DEF HeldAtItsGate
  <2>7. ParkFits'
    BY <1>3, <1>5, <1>12, <2>1, <2>2, <2>4 DEF ParkFits
  <2>8. QED
    BY <1>9, <1>10, <2>6, <2>7 DEF AtGateFits
<1>17. CASE PublishVerdict(a) /\ ApproverGoto(a, "clear")
  <2>1. UNCHANGED <<exec, rows>>
    BY <1>17 DEF PublishVerdict
  <2>2. ApproverHolds(a)' /\ ~ApproverAt(a, "publish")' /\ Undecided(g)'
    BY <1>12, <1>17 DEF ApproverHolds, ApproverAt, Undecided
  <2>3. HeldAtItsGate'
    BY <1>3, <1>5, <1>12, <1>17, <2>2 DEF HeldAtItsGate
  <2>4. ParkFits'
    BY <1>3, <1>5, <1>12, <1>17, <2>2 DEF ParkFits, ClaimHeld
  <2>5. QED
    BY <1>9, <1>10, <2>3, <2>4 DEF AtGateFits
<1>18. CASE PublishVerdict(a) /\ ApproverDone(a)
  <2>1. /\ approver'[a].pc = "idle"
        /\ \A b \in Approvers \ {a} : approver'[b] = approver[b]
        /\ \A b \in Approvers : \A s : Deciding(b, s)' <=> b # a /\ Deciding(b, s)
    BY <1>18, DecisionEnds
  <2>2. UNCHANGED <<exec, rows>> /\ ApproverAt(a, "publish") /\ ApproverHolds(a)
    BY <1>18 DEF PublishVerdict, ApproverAt, ApproverHolds
  <2>3. \A b \in Approvers : ~ApproverHolds(b)' /\ ~ApproverAt(b, "publish")'
    BY <1>7, <2>1 DEF ApproverHolds, ApproverAt
  <2>4. HeldAtItsGate' /\ ~ClaimHeld'
    BY <1>11, <2>3 DEF HeldAtItsGate, ClaimHeld
  <2>5. exec'.status = "pending"
    BY <1>7, <2>2 DEF ClaimHeld
  <2>6. Result(g)' = approver[a].verdict
    BY <1>0, <1>4, <2>2 DEF HeldAtItsGate, Result
  <2>7. Decided(g)'
    <3>1. \A b \in Approvers : ~Deciding(b, g)'
      BY <1>4, <2>1 DEF OneDecider
    <3>2. task'[g] \in Verdicts
      BY <1>2, <1>4, GateTasks
    <3>3. QED
      BY <3>1, <3>2, DecidedIs
  <2>8. Tells(Result(g), g)'
    <3>1. Result(g)' \in Verdicts /\ task'[g] = Result(g)'
      BY <1>2, <1>4, <2>6, GateTasks
    <3>2. QED
      BY <2>7, <3>1 DEF Tells
  <2>9. ParkFits'
    BY <1>3, <1>5, <2>2, <2>4, <2>5, <2>8 DEF ParkFits
  <2>10. QED
    BY <1>9, <1>10, <2>4, <2>9 DEF AtGateFits
<1>19. PublishVerdict(a) => ApproverDone(a) \/ ApproverGoto(a, "clear")
  BY DEF PublishVerdict
<1>20. QED
  BY <1>13, <1>14, <1>15, <1>16, <1>17, <1>18, <1>19
-----------------------------------------------------------------------------
(***************************************************************************)
(* The gate under the hands of the consumer that has the message.          *)
(***************************************************************************)
LEMMA ConsumerCarries ==
    ASSUME RowsInv, NEW c \in Consumers, Walking(c), OthersUnchanged(c), UNCHANGED wakerVars,
           exec'.status # "waiting",
           exec'.current \in Steps /\ ~OnGate' /\ exec'.status \notin Terminal
           /\ (Messages' > 0 \/ ClaimLeft' \/ (Walking(c)' /\ worker'[c].pc \notin Settling))
               => NewOrLeft(exec.current)',
           OnGate' /\ exec'.status = "pending" => Tells(Result(exec.current), exec.current)',
           Walking(c)' => GateWalkerOK(worker[c])'
    PROVE  AtGateFits'
<1>0. TokenInv /\ OneWalker
  BY DEF RowsInv, OutcomeInv, TokenInv, Owned, SingleToken
<1>1. ~ClaimHeld' /\ \A a \in Approvers : ~ApproverHolds(a)'
  BY <1>0, NoClaimWhileWalking DEF ClaimHeld
<1>2. \A k \in Consumers : Walking(k)' => k = c
  BY <1>0 DEF OneWalker, OthersUnchanged, Walking
<1>3. NotOpenedYet'
  BY <1>1, <1>2 DEF NotOpenedYet, Carried
<1>4. HeldAtItsGate'
  BY <1>1 DEF HeldAtItsGate, ApproverHolds, ApproverAt
<1>5. ParkFits'
  BY <1>1 DEF ParkFits
<1>6. GateWalkersOK'
  BY <1>2 DEF GateWalkersOK
<1>7. QED
  BY <1>3, <1>4, <1>5, <1>6 DEF AtGateFits

\* A consumer lets go of its message, and of nothing else.
LEMMA StopsAtGate ==
    ASSUME RowsInv, AtGateFits, NEW c \in Consumers, OthersUnchanged(c), ~Walking(c)',
           UNCHANGED <<exec, rows, task, queue, wakerVars>>
    PROVE  AtGateFits'
<1>1. \A k \in Consumers : Walking(k)' => Walking(k) /\ worker'[k] = worker[k]
  BY DEF OthersUnchanged, Walking
<1>2. /\ (OnGate' <=> OnGate) /\ (ClaimHeld' <=> ClaimHeld)
      /\ \A s : /\ Result(s)' = Result(s)
                /\ StaysOpen(s)' <=> StaysOpen(s)
                /\ NewOrLeft(s)' <=> NewOrLeft(s)
                /\ LeftOpen(s)' <=> LeftOpen(s)
                /\ Undecided(s)' <=> Undecided(s)
                /\ IsGate(s)' <=> IsGate(s)
                /\ \A r : Tells(r, s)' <=> Tells(r, s)
  BY DEF OnGate, Stat, ClaimHeld, SweepHolds, DeliveryHolds, ApproverHolds, Result, StaysOpen,
         LeftOpen, NewOrLeft,
         Decidable, Deciding, Doomed, Undecided, IsGate, Tells, Decided, ApproverAt, wakerVars,
         resumeVars, approvalVars
<1>3. Carried' => Carried
  BY <1>1, <1>2 DEF Carried, Messages, ClaimLeft
<1>4. NotOpenedYet'
  BY <1>2, <1>3 DEF AtGateFits, NotOpenedYet
<1>5. HeldAtItsGate'
  <2>1. \A a \in Approvers : /\ ApproverHolds(a)' <=> ApproverHolds(a)
                             /\ ApproverAt(a, "publish")' <=> ApproverAt(a, "publish")
                             /\ approver'[a] = approver[a]
    BY DEF ApproverHolds, ApproverAt, wakerVars, approvalVars
  <2>2. QED
    BY <1>2, <2>1 DEF AtGateFits, HeldAtItsGate
<1>6. ParkFits'
  BY <1>2 DEF AtGateFits, ParkFits
<1>7. GateWalkersOK'
  <2> SUFFICES ASSUME NEW k \in Consumers, Walking(k)' PROVE GateWalkerOK(worker[k])'
    BY DEF GateWalkersOK
  <2>1. worker'[k] = worker[k] /\ GateWalkerOK(worker[k])
    BY <1>1 DEF AtGateFits, GateWalkersOK
  <2>2. QED
    BY <1>2, <2>1 DEF GateWalkerOK
<1>8. QED
  BY <1>4, <1>5, <1>6, <1>7 DEF AtGateFits

\* A message is taken off the queue.
LEMMA ReceiveAtGate ==
    ASSUME RowsInv, AtGateFits, NEW c \in Consumers, Receive(c), UNCHANGED wakerVars
    PROVE  AtGateFits'
<1>0. /\ worker \in Workers /\ queue \in [Topics -> Nat] /\ OneMessage
  BY DEF RowsInv, OutcomeInv, TokenInv, TypeInv, StoreTypeOK, ConsumersOK, ExecutorTypeOK, Workers,
         Owned, SingleToken
<1>1. Messages > 0
  BY <1>0 DEF Receive, Messages, Topics
<1>2. \A k \in Consumers : ~Walking(k)
  <2>1. Messages \in Nat
    BY <1>0 DEF Messages, Topics
  <2>2. Messages = 1
    BY <1>0, <1>1, <2>1 DEF OneMessage
  <2>3. QED
    BY <1>0, <2>2 DEF OneMessage
<1>3. /\ worker'[c].pc \in {"load", "resume_load"} /\ OthersUnchanged(c)
      /\ UNCHANGED <<exec, rows, task>>
  BY <1>0 DEF Receive, Workers, OthersUnchanged, WorkerState
<1>4. GateWalkersOK'
  BY <1>2, <1>3 DEF GateWalkersOK, GateWalkerOK, OthersUnchanged, Walking
<1>5. /\ (OnGate' <=> OnGate) /\ (ClaimHeld' <=> ClaimHeld)
      /\ \A s : /\ Result(s)' = Result(s)
                /\ StaysOpen(s)' <=> StaysOpen(s)
                /\ NewOrLeft(s)' <=> NewOrLeft(s)
                /\ Undecided(s)' <=> Undecided(s)
                /\ \A r : Tells(r, s)' <=> Tells(r, s)
  BY <1>3 DEF OnGate, Stat, ClaimHeld, SweepHolds, DeliveryHolds, ApproverHolds, Result, StaysOpen,
         LeftOpen, NewOrLeft,
         Decidable, Deciding, Doomed, Undecided, Tells, Decided, ApproverAt, wakerVars,
         resumeVars, approvalVars
<1>6. NotOpenedYet'
  BY <1>1, <1>3, <1>5 DEF AtGateFits, NotOpenedYet, Carried
<1>7. HeldAtItsGate'
  <2>1. \A a \in Approvers : /\ ApproverHolds(a)' <=> ApproverHolds(a)
                             /\ ApproverAt(a, "publish")' <=> ApproverAt(a, "publish")
                             /\ approver'[a] = approver[a]
    BY DEF ApproverHolds, ApproverAt, wakerVars, approvalVars
  <2>2. QED
    BY <1>3, <1>5, <2>1 DEF AtGateFits, HeldAtItsGate
<1>8. ParkFits'
  BY <1>3, <1>5 DEF AtGateFits, ParkFits
<1>9. QED
  BY <1>4, <1>6, <1>7, <1>8 DEF AtGateFits
-----------------------------------------------------------------------------
\* The walk goes on, or comes to an end, and no row and no task changes.
LEMMA WalkAtGate ==
    ASSUME NoDuplicates, NEW rank, Descends(rank), RowsInv, TasksFit(rank), AtGateFits, [Next]_vars,
           exec' \in ExecRow, NEW c \in Consumers, Walking(c), worker[c].pc \notin Settling,
           OthersUnchanged(c), UNCHANGED <<rows, task, queue, wakerVars>>,
           exec'.status # "waiting", exec'.status = "pending" => UNCHANGED exec,
           worker'[c].pc \notin {"park_row", "park_exec", "close", "expire", "mark_running"}
    PROVE  AtGateFits'
<1>0. /\ TokenInv /\ NotOpenedYet /\ ParkFits
      /\ TaskOfGate /\ AheadIsNew(rank) /\ OnTheWay(rank) /\ exec \in ExecRow /\ exec' \in ExecRow
  BY DEF RowsInv, OutcomeInv, TokenInv, TypeInv, StoreTypeOK, AtGateFits, TasksFit
<1>1. (exec.status \notin Terminal => Carried) /\ ~ClaimHeld
  BY <1>0, NoClaimWhileWalking DEF Carried
<1>2. ASSUME exec'.current \in Steps, ~OnGate', exec'.status \notin Terminal
      PROVE  NewOrLeft(exec.current)'
  <2>1. CASE exec'.current = exec.current
    <3>1. Carried /\ ~OnGate
      BY <1>1, <1>2, <2>1, EndIsFinal DEF RowsInv, OnGate, Stat
    <3>2. NewOrLeft(exec.current)
      BY <1>0, <1>2, <2>1, <3>1 DEF NotOpenedYet
    <3>3. LeftOpen(exec.current) => LeftOpen(exec.current)'
      BY <2>1 DEF LeftOpen, StaysOpen, Decidable, Deciding, Doomed, Result, ApproverAt, wakerVars,
                  approvalVars
    <3>4. exec.status = "running" => exec'.status = "running"
      BY <1>0, <1>2 DEF ExecRow, Statuses
    <3>5. QED
      BY <2>1, <3>2, <3>3, <3>4 DEF NewOrLeft
  <2>2. CASE Untouched
    BY <1>0, <1>2, <2>2 DEF TaskOfGate, Untouched, NewOrLeft
  <2>3. CASE Below(rank, exec'.current, exec.current)
    BY <1>0, <1>2, <2>3 DEF AheadIsNew, NewOrLeft
  <2>4. QED
    BY <1>0, <1>2, <2>1, <2>2, <2>3, AheadShrinks DEF CursorStays
<1>3. ASSUME OnGate', exec'.status = "pending"
      PROVE  Tells(Result(exec.current), exec.current)'
  <2>1. OnGate /\ exec.status = "pending" /\ UNCHANGED exec
    BY <1>3 DEF OnGate, Stat
  <2>2. Tells(Result(exec.current), exec.current)
    BY <1>0, <1>1, <2>1 DEF ParkFits
  <2>3. QED
    BY <2>1, <2>2 DEF Tells, Result, Decided, ApproverAt, wakerVars, approvalVars
<1>4. GateWalkerOK(worker[c])'
  BY DEF GateWalkerOK
<1>5. QED
  BY <1>2, <1>3, <1>4, ConsumerCarries

\* The parked row is read.
LEMMA FetchAtGate ==
    ASSUME RowsInv, AtGateFits, NEW c \in Consumers, FetchParked(c), UNCHANGED wakerVars,
           OthersUnchanged(c)
    PROVE  AtGateFits'
<1>0. /\ TokenInv /\ NotOpenedYet /\ ParkFits /\ OneRow /\ worker \in Workers /\ NoStep \notin Steps
      /\ Walking(c) /\ worker[c].pc = "fetch" /\ UNCHANGED <<exec, rows, task, queue>>
  BY DefinitionAssumption
     DEF RowsInv, RowsFit, RowsOK, OutcomeInv, TokenInv, TypeInv, ConsumersOK, ExecutorTypeOK,
         Workers, AtGateFits, FetchParked, At, Walking, storeVars
<1>1. (exec.status \notin Terminal => Carried) /\ ~ClaimHeld /\ exec.status # "waiting"
  BY <1>0, NoClaimWhileWalking, WalkedIsNotParked DEF Carried, Settling
<1>2. /\ OnGate' <=> OnGate
      /\ NewOrLeft(exec.current)' <=> NewOrLeft(exec.current)
  BY <1>0 DEF OnGate, Stat, NewOrLeft, LeftOpen, StaysOpen, Decidable, Deciding, Doomed, Result,
              ApproverAt, wakerVars, approvalVars
<1>3. exec'.current \in Steps /\ ~OnGate' /\ exec'.status \notin Terminal
          => NewOrLeft(exec.current)'
  BY <1>0, <1>1, <1>2 DEF NotOpenedYet
<1>4. OnGate' /\ exec'.status = "pending" => Tells(Result(exec.current), exec.current)'
  BY <1>0, <1>1, <1>2 DEF ParkFits, Tells, Result, Decided, ApproverAt, wakerVars, approvalVars
<1>5. GateWalkerOK(worker[c])'
  <2>1. CASE WaitingRows = {} /\ worker' = [worker EXCEPT ![c].parked = NoParked, ![c].pc = "close"]
    <3>1. worker'[c].pc = "close" /\ worker'[c].parked.step = NoStep
      BY <1>0, <2>1 DEF Workers, WorkerState, NoParked
    <3>2. QED
      BY <1>0, <3>1 DEF GateWalkerOK
  <2>2. ASSUME NEW p \in WaitingRows,
               worker' = [worker EXCEPT ![c].pc = "close",
                             ![c].parked = [step |-> p[1], result |-> rows[p[1]][p[2]].result]]
        PROVE  GateWalkerOK(worker[c])'
    <3>1. p[2] = 1
      BY <1>0 DEF WaitingRows, OneRow
    <3>2. /\ worker'[c].pc = "close" /\ worker'[c].parked.step = p[1]
          /\ worker'[c].parked.result = rows[p[1]][1].result
      BY <1>0, <2>2, <3>1 DEF Workers, WorkerState
    <3>3. QED
      BY <1>0, <3>2 DEF GateWalkerOK, Result
  <2>3. QED
    BY <2>1, <2>2 DEF FetchParked
<1>6. QED
  BY <1>0, <1>1, <1>3, <1>4, <1>5, ConsumerCarries
-----------------------------------------------------------------------------
\* Work on the row of a running step that is not being parked.
LEMMA WorkAtGate ==
    ASSUME QuietInv, AtGateFits, NEW c \in Consumers, OthersUnchanged(c),
           worker[c].pc \in OnItsStep \ {"park_row", "park_exec"}, NoNewVerdicts,
           UNCHANGED <<exec, task, wakerVars>>,
           worker'[c].pc \notin {"park_exec", "close", "expire", "mark_running"},
           worker'[c].pc = "park_row" => ~IsGate(worker'[c].step)
    PROVE  AtGateFits'
<1>0. RowsInv /\ TokenInv /\ NotOpenedYet /\ ParkIsQuiet
  BY DEF QuietInv, RowsInv, OutcomeInv, AtGateFits
<1>1. /\ Walking(c) /\ exec.status = "running" /\ Carried
  BY <1>0, AtTheCursor DEF Carried, Settling, OnItsStep, AtStep, Terminal
<1>2. NoneWaits
  BY <1>0, <1>1 DEF ParkIsQuiet
<1>3. exec.current \in Steps => NewOrLeft(exec.current)
  BY <1>0, <1>1, <1>2 DEF NotOpenedYet, OnGate, NoneWaits
<1>4. exec.current \in Steps => NewOrLeft(exec.current)'
  <2>1. \A s \in Steps : StaysOpen(s)' <=> StaysOpen(s)
    BY DEF StaysOpen, Decidable, Deciding, Doomed, ApproverAt, wakerVars, approvalVars
  <2>2. QED
    BY <1>3, <2>1 DEF NewOrLeft, LeftOpen, NoNewVerdicts
<1>5. GateWalkerOK(worker[c])'
  BY DEF GateWalkerOK, IsGate
<1>6. QED
  BY <1>0, <1>1, <1>4, <1>5, ConsumerCarries

\* The gate gets its task.
LEMMA OpenAtGate ==
    ASSUME NEW rank, QuietInv, TasksFit(rank), AtGateFits, NEW c \in Consumers, OpenGate(c),
           OthersUnchanged(c), UNCHANGED wakerVars
    PROVE  AtGateFits'
<1>0. /\ RowsInv /\ TokenInv /\ NotOpenedYet /\ worker \in Workers
      /\ VerdictHasTask /\ ReadTasksExist /\ task \in [Steps -> TaskStatuses] /\ OneMessage
  BY GateTasks
     DEF QuietInv, RowsInv, OutcomeInv, TokenInv, TypeInv, ConsumersOK, ExecutorTypeOK, Workers,
         AtGateFits, TasksFit, Owned, SingleToken
<1>1. PICK s \in Steps :
          /\ s = worker[c].step /\ s = exec.current
          /\ exec.status = "running" /\ StepType[s] = "approval" /\ Stat(s) = "running"
          /\ UNCHANGED <<exec, rows, queue>>
          /\ task' = [task EXCEPT ![s] = IF @ = "none" THEN "open" ELSE @]
          /\ Goto(c, "park_row")
  BY <1>0, OpenGateOpens
<1>2. Walking(c) /\ worker[c].pc = "gate" /\ Carried
  BY <1>1 DEF OpenGate, At, Walking, Carried, Settling, Terminal
<1>3. task[s] = "none" \/ LeftOpen(s)
  BY <1>0, <1>1, <1>2 DEF NotOpenedYet, OnGate, NewOrLeft
<1>4. task'[s] = IF task[s] = "none" THEN "open" ELSE task[s]
  BY <1>0, <1>1
<1>5. worker'[c].pc = "park_row" /\ worker'[c].step = s
  BY <1>0, <1>1, GotoFacts DEF Labels, ExecutorLabels
<1>6. LeftOpen(s)'
  <2>1. CASE task[s] = "none"
    <3>1. ~Doomed(s)'
      BY <1>0, <2>1 DEF Doomed, ReadTasksExist, wakerVars, approvalVars
    <3>2. Result(s) \notin Verdicts
      BY <1>0, <2>1 DEF VerdictHasTask
    <3>3. QED
      BY <1>1, <1>4, <2>1, <3>1, <3>2 DEF LeftOpen, StaysOpen, Decidable, Result
  <2>2. CASE task[s] # "none"
    BY <1>1, <1>3, <1>4, <2>2 DEF LeftOpen, StaysOpen, Decidable, Deciding, Doomed, Result, ApproverAt,
                                 wakerVars, approvalVars
  <2>3. QED
    BY <2>1, <2>2
<1>7. GateWalkerOK(worker[c])'
  BY <1>5, <1>6 DEF GateWalkerOK, LeftOpen, StaysOpen, Decidable, Deciding, Doomed, Result, ApproverAt
<1>8. NewOrLeft(exec.current)'
  BY <1>1, <1>6 DEF NewOrLeft
<1>9. QED
  BY <1>0, <1>1, <1>2, <1>5, <1>7, <1>8, ConsumerCarries

\* The first statement of a park.
LEMMA ParkRowAtGate ==
    ASSUME QuietInv, AtGateFits, NEW c \in Consumers, ParkStepRow(c),
           OthersUnchanged(c), UNCHANGED wakerVars
    PROVE  AtGateFits'
<1>0. /\ RowsInv /\ TokenInv /\ rows \in RowTable /\ worker \in Workers /\ OneMessage
  BY DEF QuietInv, RowsInv, OutcomeInv, TokenInv, TypeInv, StoreTypeOK, ConsumersOK, ExecutorTypeOK,
         Workers, RowTable, AtGateFits, Owned, SingleToken
<1>a. OneRow
  BY DEF QuietInv, RowsInv, RowsFit, RowsOK
<1>1. /\ Walking(c) /\ worker[c].pc = "park_row" /\ exec.status = "running"
      /\ UNCHANGED <<exec, task, queue>> /\ Goto(c, "park_exec")
  BY <1>0, AtTheCursor DEF ParkStepRow, At, OnItsStep, AtStep
<1>2. PICK s \in Steps : s = worker[c].step /\ CleanBut(s)
  BY <1>0, <1>1, AtTheCursor DEF OnItsStep, AtStep
<1>b. PICK i \in RowsOf(s) :
          rows' = [rows EXCEPT ![s][i].status = "waiting", ![s][i].due = FALSE]
  BY <1>2 DEF ParkStepRow
<1>3. ResultsKept
  BY <1>0, <1>b, ResultKeptBy DEF RowsOf, RowStatuses
<1>c. OneRow' /\ StatSet(s, "waiting")
  BY <1>0, <1>a, <1>b, RowSet DEF RowStatuses
<1>4. worker'[c].pc = "park_exec" /\ worker'[c].step = s
  BY <1>0, <1>1, <1>2, GotoFacts DEF Labels, ExecutorLabels
<1>5. GateWalkerOK(worker[c])'
  <2>1. IsGate(s) => LeftOpen(s)
    BY <1>1, <1>2 DEF AtGateFits, GateWalkersOK, GateWalkerOK
  <2>2. IsGate(s) => LeftOpen(s)'
    BY <1>1, <1>3, <2>1
       DEF ResultsKept, LeftOpen, StaysOpen, Decidable, Deciding, Doomed, ApproverAt, wakerVars,
           approvalVars
  <2>3. QED
    BY <1>4, <2>2
       DEF GateWalkerOK, IsGate, LeftOpen, StaysOpen, Decidable, Deciding, Doomed, Result, ApproverAt
<1>6. ~(Messages' > 0)
  <2>1. Messages \in Nat /\ Messages' = Messages
    BY <1>0, <1>1 DEF Messages, Topics, TokenInv, TypeInv, StoreTypeOK
  <2>2. Messages <= 1 /\ Messages # 1
    BY <1>0, <1>1 DEF OneMessage
  <2>3. QED
    BY <2>1, <2>2
<1>7. ~ClaimLeft'
  <2>1. \A t \in Steps : Stat(t)' # "running"
    BY <1>2, <1>c DEF CleanBut, StatSet
  <2>2. QED
    BY <1>c, <2>1 DEF ClaimLeft, OneRow, Stat
<1>8. QED
  BY <1>0, <1>1, <1>4, <1>5, <1>6, <1>7, ConsumerCarries DEF Settling

\* The execution is over; nothing is left to decide.
LEMMA EndsAtGate ==
    ASSUME RowsInv, NEW c \in Consumers, Walking(c), OthersUnchanged(c), UNCHANGED wakerVars,
           exec'.status \in Terminal, worker'[c].pc \in {"ack", "orphan"}
    PROVE  AtGateFits'
<1>1. GateWalkerOK(worker[c])'
  BY DEF GateWalkerOK
<1>2. QED
  BY <1>1, ConsumerCarries DEF Terminal

\* The second statement of a park.
LEMMA ParkAtGate ==
    ASSUME NEW rank, Descends(rank), QuietInv, TasksFit(rank), AtGateFits, NEW c \in Consumers,
           ParkExecution(c), OthersUnchanged(c), UNCHANGED wakerVars
    PROVE  AtGateFits'
<1>0. /\ RowsInv /\ TokenInv /\ worker \in Workers /\ exec \in ExecRow
      /\ OneWalker /\ TaskOfGate /\ AheadIsNew(rank) /\ OnTheWay(rank) /\ NoStep \notin Steps
  BY DefinitionAssumption
     DEF QuietInv, RowsInv, OutcomeInv, TokenInv, TypeInv, StoreTypeOK, ConsumersOK, ExecutorTypeOK,
         Workers, AtGateFits, TasksFit, Owned, SingleToken
<1>1. Walking(c) /\ worker[c].pc = "park_exec" /\ UNCHANGED <<rows, task, queue>>
  BY DEF ParkExecution, At, Walking
<1>2. PICK s \in Steps : /\ s = worker[c].step /\ s = exec.current /\ worker[c].mem = exec
                         /\ CleanBut(s) /\ Stat(s) = "waiting" /\ StepType[s] \in ParkingTypes
  BY <1>0, <1>1, AtTheCursor DEF OnItsStep, AtStep, WalkerOK, Walks, LabelFits
<1>3. /\ exec' = ParkedAs(s, exec) /\ worker'[c].pc = "ack"
  <2>1. SaveAs(c, ParkedAs(s, exec), "ack") /\ ParkedAs(s, exec) \in ExecRow
    BY <1>0, <1>2, ParkedType DEF ParkExecution
  <2>2. QED
    BY <1>0, <1>1, <2>1, SavedAsMade DEF Loading, Labels, ExecutorLabels
<1>4. exec'.status = "waiting"
  BY <1>0, ParkParks
<1>5. ~ClaimHeld' /\ \A a \in Approvers : ~ApproverHolds(a)'
  BY <1>0, <1>1, NoClaimWhileWalking DEF ClaimHeld
<1>6. \A k \in Consumers : ~Walking(k)'
  BY <1>0, <1>1, <1>3 DEF OneWalker, OthersUnchanged, Walking
<1>7. HeldAtItsGate' /\ GateWalkersOK'
  BY <1>5, <1>6 DEF HeldAtItsGate, ApproverHolds, ApproverAt, GateWalkersOK
<1>8. CASE StepType[s] = "delay"
  <2>1. exec'.current = Edge[s]["next"] /\ Edge[s]["next"] \in Successors(s)
    <3>1. "next" \in DOMAIN Edge[s]
      BY <1>8, DefinitionAssumption DEF HasDeclaredEdges
    <3>2. QED
      BY <1>0, <1>3, <1>8, <3>1 DEF ParkedAs, ExecRow, Successors
  <2>2. ASSUME exec'.current \in Steps
        PROVE  task'[exec'.current] = "none" /\ ~OnGate'
    <3>1. s \in DOMAIN rank /\ rank[s] \in Nat
      BY <1>0, <1>2 DEF Descends, OnTheWay
    <3>2. PICK t \in Steps : t = exec'.current /\ t \in DOMAIN rank /\ rank[t] < rank[s]
      BY <2>1, <2>2, <3>1 DEF Descends
    <3>3. t # s
      BY <3>1, <3>2
    <3>4. Stat(t) \in {"absent", "complete"}
      BY <1>2, <3>3 DEF CleanBut
    <3>5. task[t] = "none"
      BY <1>0, <1>2, <3>1, <3>2 DEF AheadIsNew, Below
    <3>6. QED
      BY <1>1, <3>2, <3>4, <3>5 DEF OnGate, Stat
  <2>3. NotOpenedYet' /\ ParkFits'
    BY <2>2 DEF NotOpenedYet, NewOrLeft, ParkFits, OnGate
  <2>4. QED
    BY <1>7, <2>3 DEF AtGateFits
<1>9. CASE StepType[s] # "delay"
  <2>1. exec'.current = s
    BY <1>3, <1>9 DEF ParkedAs
  <2>2. OnGate' <=> StepType[s] = "approval"
    BY <1>1, <1>2, <2>1 DEF OnGate, Stat
  <2>3. StepType[s] # "approval" => task[s] = "none"
    BY <1>0 DEF TaskOfGate
  <2>4. NotOpenedYet'
    BY <1>1, <2>1, <2>2, <2>3 DEF NotOpenedYet, NewOrLeft
  <2>5. ASSUME OnGate' PROVE ParkFits'
    <3>1. IsGate(s)
      BY <2>2, <2>5, DefinitionAssumption DEF IsGate
    <3>2. StaysOpen(s) /\ Result(s) \notin Verdicts
      BY <1>1, <1>2, <3>1 DEF AtGateFits, GateWalkersOK, GateWalkerOK, LeftOpen
    <3>3. StaysOpen(s)' /\ Result(s)' \notin Verdicts
      BY <1>1, <3>2 DEF StaysOpen, Decidable, Deciding, Doomed, ApproverAt, Result, wakerVars,
                        approvalVars
    <3>4. Undecided(s)'
      BY <3>3 DEF Undecided
    <3>5. QED
      BY <1>4, <2>1, <3>3, <3>4 DEF ParkFits
  <2>6. QED
    BY <1>7, <2>4, <2>5 DEF AtGateFits, ParkFits
<1>10. QED
  BY <1>8, <1>9

LEMMA NoMessageLeft ==
    ASSUME TokenInv, NEW c \in Consumers, Walking(c), UNCHANGED queue
    PROVE  ~(Messages' > 0)
<1>1. Messages \in Nat /\ Messages' = Messages /\ OneMessage
  BY DEF Messages, Topics, TokenInv, TypeInv, StoreTypeOK, Owned, SingleToken
<1>2. Messages <= 1 /\ Messages # 1
  BY <1>1 DEF OneMessage
<1>3. QED
  BY <1>1, <1>2

\* The resume consumer knows where the execution goes, and the gate's decision is in the row it read.
LEMMA RoutesFromGate ==
    ASSUME NEW rank, Descends(rank), QuietInv, TasksFit(rank), AtGateFits,
           NEW c \in Consumers, worker[c].pc = "close", NEW m, m = Routed(worker[c].parked, exec)
    PROVE  /\ m.current \in Steps => NewOrLeft(m.current)
           /\ exec.status = "running" => m = exec /\ worker[c].parked.step = NoStep
           /\ IsGate(worker[c].parked.step) => Tells(worker[c].parked.result, worker[c].parked.step)
<1>0. /\ RowsInv /\ TokenInv /\ exec \in ExecRow /\ OneWalker /\ TaskOfGate /\ AheadIsNew(rank)
      /\ OnTheWay(rank)
      /\ NotOpenedYet /\ ParkFits /\ PendingRows /\ ParkIsQuiet /\ Settled(c) /\ NoStep \notin Steps
  BY DefinitionAssumption
     DEF QuietInv, RowsInv, RowsFit, OutcomeInv, TokenInv, TypeInv, StoreTypeOK, AtGateFits, TasksFit,
         Owned, SingleToken
<1>1. Walking(c) /\ WalkerOK(worker[c]) /\ GateWalkerOK(worker[c])
  BY <1>0 DEF Walking, RowsInv, RowsFit, WalkersOK, AtGateFits, GateWalkersOK
<1>2. Carried /\ ~OnGate /\ exec.current \in Steps => NewOrLeft(exec.current)
  BY <1>0 DEF NotOpenedYet
<1>3. Carried
  BY <1>0, <1>1 DEF Carried, Settling, Settled, Loading
<1>4. CASE NoneWaits
  <2>1. worker[c].parked.step = NoStep
    BY <1>1, <1>4 DEF WalkerOK, Resumes, NoneWaits
  <2>2. m = exec /\ ~OnGate
    BY <1>4, <2>1 DEF Routed, OnGate, NoneWaits
  <2>3. QED
    BY <1>2, <1>3, <2>1, <2>2 DEF IsGate
<1>5. CASE ~NoneWaits
  <2>1. exec.status = "pending" /\ ~ClaimHeld
    <3>1. exec.status # "running"
      BY <1>0, <1>1, <1>5 DEF ParkIsQuiet
    <3>2. exec.status # "waiting" /\ exec.status \notin Terminal
      BY <1>0, <1>1, WalkedIsNotParked DEF Settled, Loading
    <3>3. ~ClaimHeld
      BY <1>0, <1>1 DEF TokenInv, Owned, SingleToken, ClaimIsExclusive, Idle
    <3>4. QED
      BY <1>0, <3>1, <3>2, <3>3 DEF ExecRow, Statuses
  <2>2. PICK p \in Steps : ParkedOn(p)
    BY <1>0, <1>5, <2>1 DEF PendingRows, New, Woken, Untouched, AllClean, NoneWaits
  <2>3. \A s \in Steps : s # p => Stat(s) \in {"absent", "complete"}
    BY <2>2 DEF ParkedOn, CleanBut
  <2>4. CASE worker[c].parked.step = NoStep
    BY <1>1, <1>5, <2>4 DEF WalkerOK, Resumes
  <2>5. CASE worker[c].parked.step # NoStep
    <3>1. worker[c].parked.step = p
      BY <1>1, <2>3, <2>5 DEF WalkerOK, Resumes
    <3>2. worker[c].parked.result = Result(p)
      BY <1>1, <3>1 DEF GateWalkerOK
    <3>3. CASE StepType[p] \in {"wait", "approval"}
      <4>1. exec.current = p
        BY <2>2, <3>3 DEF ParkedOn
      <4>2. m.current = Edge[p][ResumeEdge(worker[c].parked)]
        BY <1>0, <3>1, <3>3 DEF Routed, ExecRow
      <4>3. ResumeEdge(worker[c].parked) \in DOMAIN Edge[p]
        BY <3>1, <3>3, DefinitionAssumption DEF ResumeEdge, HasDeclaredEdges, IsGate
      <4>4. m.current \in Steps => task[m.current] = "none"
        <5>1. p \in DOMAIN rank
          BY <1>0, <4>1 DEF OnTheWay
        <5>2. m.current \in Successors(p)
          BY <4>2, <4>3 DEF Successors
        <5>3. QED
          BY <1>0, <4>1, <5>1, <5>2 DEF Descends, AheadIsNew, Below
      <4>5. StepType[p] = "approval" => OnGate
        BY <2>2, <4>1 DEF OnGate, ParkedOn
      <4>6. QED
        BY <1>0, <2>1, <3>1, <3>2, <4>1, <4>4, <4>5 DEF ParkFits, IsGate, NewOrLeft
    <3>4. CASE StepType[p] \notin {"wait", "approval"}
      <4>1. m = exec /\ ~IsGate(p)
        BY <3>1, <3>4 DEF Routed, IsGate
      <4>2. StepType[p] = "delay"
        BY <1>0, <2>2, <3>4 DEF RowsInv, RowsFit, RowsOK, ParkedOn, ParkingTypes
      <4>3. exec.current = Edge[p]["next"]
        BY <2>2, <4>2 DEF ParkedOn
      <4>4. exec.current \in Steps => exec.current # p
        <5>0. p \in DOMAIN rank
          BY <1>0, <2>2 DEF ParkedOn, OnTheWay
        <5>1. "next" \in DOMAIN Edge[p]
          BY <4>2, DefinitionAssumption DEF HasDeclaredEdges
        <5>2. exec.current \in Steps => rank[exec.current] < rank[p] /\ rank[p] \in Nat
          BY <1>0, <4>3, <5>1, <5>0 DEF Successors, Descends
        <5>3. QED
          BY <5>2
      <4>5. ~OnGate
        BY <2>3, <4>4 DEF OnGate
      <4>6. QED
        BY <1>2, <1>3, <2>1, <3>1, <4>1, <4>5
    <3>5. QED
      BY <3>3, <3>4
  <2>6. QED
    BY <2>4, <2>5
<1>6. QED
  BY <1>4, <1>5

LEMMA CloseAtGate ==
    ASSUME NEW rank, Descends(rank), QuietInv, TasksFit(rank), AtGateFits, NEW c \in Consumers,
           CloseParkedRows(c), OthersUnchanged(c), UNCHANGED wakerVars
    PROVE  AtGateFits'
<1>0. /\ RowsInv /\ TokenInv /\ worker \in Workers /\ rows \in RowTable /\ OneRow
  BY DEF QuietInv, RowsInv, RowsFit, RowsOK, OutcomeInv, TokenInv, TypeInv, StoreTypeOK, ConsumersOK,
         ExecutorTypeOK, Workers, RowTable
<1>1. Walking(c) /\ worker[c].pc = "close" /\ UNCHANGED <<exec, task, queue>>
  BY DEF CloseParkedRows, At, Walking
<1>2. worker[c].mem = exec /\ exec.status # "waiting"
  BY <1>0, <1>1, WalkedIsNotParked DEF RowsInv, RowsFit, WalkersOK, WalkerOK, Resumes
<1>3. /\ worker'[c].mem = Routed(worker[c].parked, exec)
      /\ worker'[c].parked = worker[c].parked
      /\ worker'[c].pc \in {"expire", "mark_running"}
  BY <1>0, <1>2 DEF CloseParkedRows, Workers, WorkerState
<1>4. ~OnGate'
  <2>1. WaitsClosed
    BY <1>0, WaitingRowsMapped DEF CloseParkedRows, RowStatuses
  <2>2. QED
    BY <1>1, <2>1 DEF WaitsClosed, OnGate, Stat
<1>5. PICK m : m = Routed(worker[c].parked, exec)
  OBVIOUS
<1>6. /\ m.current \in Steps => NewOrLeft(m.current)
      /\ exec.status = "running" => m = exec /\ worker[c].parked.step = NoStep
      /\ IsGate(worker[c].parked.step) => Tells(worker[c].parked.result, worker[c].parked.step)
  BY <1>1, <1>5, RoutesFromGate
<1>7. ResultsKept
  BY <1>0, ResultsMapped DEF CloseParkedRows
<1>8. \A s \in Steps : NewOrLeft(s) => NewOrLeft(s)'
  <2>1. \A s : StaysOpen(s)' <=> StaysOpen(s)
    BY <1>1 DEF StaysOpen, Decidable, Deciding, Doomed, ApproverAt, wakerVars, approvalVars
  <2>2. QED
    BY <1>1, <1>7, <2>1 DEF NewOrLeft, LeftOpen, ResultsKept
<1>9. GateWalkerOK(worker[c])'
  <2>1. \A s : /\ IsGate(s)' <=> IsGate(s)
               /\ \A r : Tells(r, s)' <=> Tells(r, s)
    BY <1>1 DEF IsGate, Tells, Decided, ApproverAt, wakerVars, approvalVars
  <2>2. worker'[c].pc = "expire" => worker[c].parked.step # NoStep
    BY <1>0, <1>1 DEF CloseParkedRows, Workers, WorkerState, IsGate, TypeInv
  <2>3. \A w : w = worker'[c] => GateWalkerOK(w)'
    BY <1>1, <1>3, <1>5, <1>6, <1>8, <2>1, <2>2 DEF GateWalkerOK
  <2>4. QED
    BY <2>3 DEF GateWalkerOK
<1>10. ClaimLeft' /\ exec.status \notin Terminal /\ exec.current \in Steps => NewOrLeft(exec.current)'
  <2>1. ClaimLeft' => ClaimLeft
    <3>1. \A row \in StepRow : [row EXCEPT !.status = "complete"].status = "complete"
      BY DEF StepRow
    <3>2. \A s \in Steps, i \in Slots : rows[s][i] \in StepRow
      BY <1>0, RowType
    <3>3. \A s \in Steps, i \in Slots :
              rows'[s][i] = IF rows[s][i].status = "waiting"
                            THEN [rows[s][i] EXCEPT !.status = "complete"] ELSE rows[s][i]
      BY DEF CloseParkedRows
    <3>4. ASSUME NEW s \in Steps, NEW i \in Slots, rows'[s][i].status = "running"
          PROVE  rows[s][i].status = "running"
      BY <3>1, <3>2, <3>3, <3>4
    <3>5. QED
      BY <3>4 DEF ClaimLeft
  <2>2. ClaimLeft /\ exec.status \notin Terminal => exec.status = "running"
    <3>1. exec \in ExecRow
      BY <1>0 DEF TokenInv, TypeInv, StoreTypeOK
    <3>2. QED
      BY <1>0, <3>1, LeftAtItsStep DEF ExecRow, Statuses
  <2>3. exec.status = "running" /\ exec.current \in Steps => NewOrLeft(exec.current)
    BY <1>6
  <2>4. exec.status = "running" /\ exec.current \in Steps => NewOrLeft(exec.current)'
    BY <1>1, <1>8, <2>3 DEF NewOrLeft
  <2>5. QED
    BY <2>1, <2>2, <2>4
<1>11. QED
  BY <1>0, <1>1, <1>2, <1>3, <1>9, <1>4, <1>10, NoMessageLeft, ConsumerCarries DEF Settling

LEMMA ExpireAtGate ==
    ASSUME QuietInv, AtGateFits, NEW c \in Consumers, ExpireGate(c), OthersUnchanged(c),
           UNCHANGED wakerVars
    PROVE  AtGateFits'
<1>0. /\ RowsInv /\ TokenInv /\ worker \in Workers /\ task \in [Steps -> TaskStatuses]
  BY DEF QuietInv, RowsInv, OutcomeInv, TokenInv, TypeInv, StoreTypeOK, ConsumersOK, ExecutorTypeOK,
         Workers
<1>1. /\ Walking(c) /\ worker[c].pc = "expire" /\ UNCHANGED <<exec, rows, queue>>
      /\ Goto(c, "mark_running")
  BY DEF ExpireGate, At, Walking
<1>2. exec.status # "waiting" /\ NoneWaits /\ GateWalkerOK(worker[c])
  BY <1>0, <1>1, WalkedIsNotParked DEF RowsInv, RowsFit, WalkersOK, WalkerOK, Resumes, AtGateFits,
                                      GateWalkersOK
<1>3. /\ worker'[c].mem = worker[c].mem /\ worker'[c].parked = worker[c].parked
      /\ worker'[c].pc = "mark_running"
  BY <1>0, <1>1 DEF Goto, Workers, WorkerState
<1>4. ~OnGate'
  BY <1>1, <1>2 DEF NoneWaits, OnGate, Stat
<1>5. PICK p \in Steps : p = worker[c].parked.step
  BY <1>1 DEF QuietInv, RowsInv, OutcomeInv, TokenInv, TypeInv, ConsumersOK, CursorOK
<1>6. \A s \in Steps : Closing(s)
  BY <1>0, <1>5 DEF ExpireGate, ExpireTask, Closing
<1>7. \A s \in Steps : \A r : Tells(r, s) => Tells(r, s)'
  <2>1. \A s \in Steps : (Decided(s)' <=> Decided(s)) /\ (task[s] \in Verdicts => task'[s] = task[s])
    BY <1>6 DEF Closing, Decided, Verdicts, ApproverAt, wakerVars, approvalVars
  <2>2. QED
    BY <2>1 DEF Tells
<1>8. \A s \in Steps : task[s] = "none" => task'[s] = "none"
  BY <1>6 DEF Closing
<1>9. GateWalkerOK(worker[c])'
  <2>1. /\ worker[c].mem.current \in Steps => task'[worker[c].mem.current] = "none"
        /\ IsGate(p) => Tells(worker[c].parked.result, p)
    BY <1>1, <1>2, <1>5, <1>8 DEF GateWalkerOK, NewOrLeft
  <2>2. IsGate(p) => Tells(worker[c].parked.result, p)'
    <3>1. PICK r : r = worker[c].parked.result
      OBVIOUS
    <3>2. IsGate(p) => Tells(r, p)'
      BY <1>7, <2>1, <3>1
    <3>3. QED
      BY <1>3, <3>1, <3>2
  <2>3. QED
    BY <1>3, <1>5, <2>1, <2>2 DEF GateWalkerOK, IsGate, NewOrLeft
<1>10. ClaimLeft' => exec.status \in Terminal
  <2>1. exec \in ExecRow /\ exec.status # "running"
    BY <1>0, <1>1, <1>2 DEF TokenInv, TypeInv, StoreTypeOK, GateWalkerOK
  <2>2. ClaimLeft' => ClaimLeft
    BY <1>1 DEF ClaimLeft
  <2>3. QED
    BY <1>0, <2>1, <2>2, LeftAtItsStep DEF ExecRow, Statuses
<1>11. QED
  BY <1>0, <1>1, <1>2, <1>3, <1>4, <1>9, <1>10, NoMessageLeft, ConsumerCarries DEF Settling

LEMMA MarkAtGate ==
    ASSUME QuietInv, AtGateFits, NEW c \in Consumers, MarkRunning(c), OthersUnchanged(c),
           UNCHANGED wakerVars
    PROVE  AtGateFits'
<1>0. /\ RowsInv /\ TokenInv /\ worker \in Workers
  BY DEF QuietInv, RowsInv, OutcomeInv, TokenInv, TypeInv, ConsumersOK, ExecutorTypeOK, Workers
<1>1. /\ Walking(c) /\ worker[c].pc = "mark_running" /\ UNCHANGED <<rows, task, queue>>
  BY DEF MarkRunning, At, Walking
<1>2. NoneWaits /\ GateWalkerOK(worker[c]) /\ worker[c].mem \in ExecRow
  BY <1>0, <1>1 DEF RowsInv, RowsFit, WalkersOK, WalkerOK, Resumes, AtGateFits, GateWalkersOK, Workers,
                    WorkerState
<1>3. exec'.status = "running" /\ exec'.current = worker[c].mem.current /\ worker'[c].pc = "load"
  <2> DEFINE m == [worker[c].mem EXCEPT !.status = "running"]
  <2>1. SaveAs(c, m, "load")
    BY DEF MarkRunning
  <2>2. m \in ExecRow /\ m.status = "running" /\ m.current = worker[c].mem.current
    BY <1>2 DEF ExecRow, Statuses
  <2> HIDE DEF m
  <2>3. exec' = m /\ worker'[c].pc = "load"
    BY <1>0, <1>1, <2>1, <2>2, SavedAsMade DEF Loading, Labels, ExecutorLabels
  <2>4. QED
    BY <2>2, <2>3
<1>4. ~OnGate'
  BY <1>1, <1>2 DEF NoneWaits, OnGate, Stat
<1>5. exec'.current \in Steps => NewOrLeft(exec.current)'
  <2>1. \A s : LeftOpen(s)' <=> LeftOpen(s)
    BY <1>1 DEF LeftOpen, StaysOpen, Decidable, Deciding, Doomed, ApproverAt, Result, wakerVars,
                approvalVars
  <2>2. exec'.current \in Steps => NewOrLeft(exec'.current)
    BY <1>1, <1>2, <1>3 DEF GateWalkerOK
  <2>3. QED
    BY <1>1, <1>3, <2>1, <2>2 DEF NewOrLeft
<1>6. GateWalkerOK(worker[c])'
  BY <1>3 DEF GateWalkerOK
<1>7. QED
  BY <1>0, <1>1, <1>3, <1>4, <1>5, <1>6, ConsumerCarries

\* A consumer's save parks the execution, leaves it running, or ends it.
LEMMA SavesGoOn ==
    ASSUME RowsInv, NEW c \in Consumers, ConsumerMoves(c), Walking(c), worker[c].pc # "park_exec"
    PROVE  exec'.status # "waiting" /\ (exec'.status = "pending" => UNCHANGED exec)
<1>1. Acts(c) /\ exec.status # "waiting"
  BY ConsumerActs, WalkedIsNotParked DEF RowsInv, OutcomeInv
<1>2. UNCHANGED exec \/ exec'.status \in {"running", "skipped", "complete", "failed"}
  BY <1>1 DEF Acts, Looks, WorksOnRow, ClosesRows, SavesRow, SavesSkip, SavesStart, SavesArrival,
              SavesCompletion, SavesFailure, SavesResumption
<1>3. QED
  BY <1>1, <1>2

LEMMA FailAtGate ==
    ASSUME RowsInv, NEW c \in Consumers, FailExecution(c), OthersUnchanged(c), UNCHANGED wakerVars
    PROVE  AtGateFits'
<1> DEFINE m == [worker[c].mem EXCEPT !.status = "failed"]
           label == IF ApprovalsInstalled THEN "orphan" ELSE "ack"
<1>0. TokenInv /\ worker \in Workers /\ Walking(c) /\ worker[c].pc = "fail" /\ UNCHANGED queue
  BY DEF RowsInv, OutcomeInv, TokenInv, TypeInv, ConsumersOK, ExecutorTypeOK, Workers, FailExecution,
         At, Walking
<1>1. SaveAs(c, m, label) /\ label \in Labels /\ label \in {"ack", "orphan"}
  BY DEF FailExecution, Labels, ExecutorLabels
<1>2. m \in ExecRow /\ m.status = "failed"
  BY <1>0 DEF Workers, WorkerState, ExecRow, Statuses, Terminal
<1> HIDE DEF m, label
<1>3. exec' = m /\ worker'[c].pc = label
  BY <1>0, <1>1, <1>2, SavedAsMade DEF Loading
<1>4. exec'.status \in Terminal
  BY <1>2, <1>3 DEF Terminal
<1>5. QED
  BY <1>0, <1>1, <1>3, <1>4, EndsAtGate

LEMMA ConsumerAtGate ==
    ASSUME NoDuplicates, NEW rank, Descends(rank), QuietInv, QuietInv', TasksFit(rank), AtGateFits,
           [Next]_vars, NEW c \in Consumers, ConsumerMoves(c), UNCHANGED wakerVars
    PROVE  AtGateFits'
<1>0. /\ RowsInv /\ TokenInv /\ worker \in Workers /\ OthersUnchanged(c)
      /\ worker[c].pc \in AtStep => worker[c].step \in Steps
  BY MovesAlone
     DEF QuietInv, RowsInv, OutcomeInv, TokenInv, TypeInv, ConsumersOK, ExecutorTypeOK, Workers, CursorOK
<1>1. ASSUME NEW label \in Labels, Goto(c, label)
      PROVE  worker'[c].pc = label /\ worker'[c].step = worker[c].step
  BY <1>0, <1>1, GotoFacts
<1>a. exec' \in ExecRow
  BY DEF OutcomeInv, RowsInv, QuietInv, TokenInv, TypeInv, StoreTypeOK
<1>b. NoNewVerdicts
  BY <1>0, ConsumerResults
<1>2. ASSUME NEW label \in Labels, NEW m, LoadAs(c, m, label) PROVE worker'[c].pc = label
  BY <1>0, <1>2 DEF LoadAs, Workers, WorkerState
<1>3. ASSUME NEW label \in Labels, NEW m, SaveAs(c, m, label) PROVE worker'[c].pc = label
  BY <1>0, <1>3 DEF SaveAs, Workers, WorkerState
<1>4. ASSUME NEW next, Continue(c, next) PROVE worker'[c].pc \in {"complete", "arrive"}
  BY <1>0, <1>4 DEF Continue, Workers, WorkerState
<1>5. \A label \in ExecutorLabels \cup {"fetch"} : label \in Labels
  BY DEF Labels, ResumeLabels
\* The walk goes on, or ends, with a look at the rows or a save of the execution.
<1>6. ASSUME Walking(c), worker[c].pc \notin Settling, UNCHANGED <<rows, task, queue>>,
             worker'[c].pc \in {"ack", "fail", "skip", "enter", "complete", "fetch", "acted",
                                "arrive", "claim"}
      PROVE  AtGateFits'
  BY <1>0, <1>a, <1>6, SavesGoOn, WalkAtGate DEF Settling
<1>7. CASE DropMessage(c) \/ DropResume(c) \/ ExceedIterations(c) \/ PerformAction(c)
  <2>1. /\ worker[c].pc \in {"load", "resume_load", "arrive", "act"}
        /\ UNCHANGED <<rows, task, queue>>
        /\ \E label \in {"ack", "fail", "acted"} : Goto(c, label)
    BY <1>7 DEF DropMessage, DropResume, ExceedIterations, PerformAction, At, storeVars
  <2>2. worker'[c].pc \in {"ack", "fail", "acted"}
    BY <1>1, <1>5, <2>1 DEF ExecutorLabels
  <2>3. QED
    BY <1>6, <2>1, <2>2 DEF Walking, Settling
<1>8. CASE \/ RejectSnapshot(c) \/ SkipByConditions(c) \/ BeginWalk(c) \/ NothingLeftToWalk(c)
           \/ LoadParked(c)
  <2>1. /\ worker[c].pc \in {"load", "resume_load"}
        /\ UNCHANGED <<rows, task, queue>>
        /\ \E label \in {"fail", "skip", "enter", "complete", "fetch"} : \E m : LoadAs(c, m, label)
    BY <1>8 DEF RejectSnapshot, SkipByConditions, BeginWalk, NothingLeftToWalk, LoadParked, Loaded,
                At, storeVars
  <2>2. worker'[c].pc \in {"fail", "skip", "enter", "complete", "fetch"}
    BY <1>2, <1>5, <2>1 DEF ExecutorLabels
  <2>3. QED
    BY <1>6, <2>1, <2>2 DEF Walking, Settling
<1>9. CASE SaveSkipped(c) \/ EnterWalk(c) \/ CompleteExecution(c)
  <2>1. /\ worker[c].pc \in {"skip", "enter", "complete"}
        /\ UNCHANGED <<rows, task, queue>>
        /\ \E label \in {"ack", "arrive"} : \E m : SaveAs(c, m, label)
    BY <1>9 DEF SaveSkipped, EnterWalk, CompleteExecution, At
  <2>2. worker'[c].pc \in {"ack", "arrive"}
    BY <1>3, <1>5, <2>1 DEF ExecutorLabels
  <2>3. QED
    BY <1>6, <2>1, <2>2 DEF Walking, Settling
<1>10. CASE ArriveAtStep(c)
  <2>1. /\ worker[c].pc = "arrive" /\ worker'[c].pc = "claim"
        /\ UNCHANGED <<rows, task, queue>>
    BY <1>0, <1>10 DEF ArriveAtStep, At, Workers, WorkerState
  <2>2. QED
    BY <1>6, <2>1 DEF Walking, Settling
<1>11. CASE Acknowledge(c)
  <2>1. worker'[c].pc = "idle" /\ UNCHANGED <<exec, rows, task, queue>>
    BY <1>0, <1>11, ResetFacts DEF Acknowledge, storeVars
  <2>2. QED
    BY <1>0, <2>1, StopsAtGate DEF Walking
<1>12. CASE ClaimStepRow(c) \/ InsertStepRow(c)
  <2>1. worker[c].pc \in {"claim", "insert"} /\ UNCHANGED <<exec, task>>
    BY <1>12 DEF ClaimStepRow, InsertStepRow, At
  <2>2. PICK s \in Steps : s = worker[c].step
    BY <1>0, <2>1 DEF AtStep
  <2>3. StepLabel(s) \in {"act", "park_row", "gate", "route", "stop"}
        /\ (StepLabel(s) = "park_row" => ~IsGate(s))
    BY DefinitionAssumption DEF StepLabel, StepTypes, IsGate
  <2>4. Goto(c, "insert") \/ Goto(c, StepLabel(s))
    BY <1>12, <2>2 DEF ClaimStepRow, InsertStepRow
  <2>5. /\ worker'[c].pc \in {"insert", "act", "park_row", "gate", "route", "stop"}
        /\ worker'[c].pc = "park_row" => ~IsGate(worker'[c].step)
    <3>1. "insert" \in Labels /\ StepLabel(s) \in Labels
      BY <1>5, <2>3 DEF ExecutorLabels
    <3>2. CASE Goto(c, "insert")
      BY <1>1, <3>1, <3>2
    <3>3. CASE Goto(c, StepLabel(s))
      BY <1>1, <2>2, <2>3, <3>1, <3>3
    <3>4. QED
      BY <2>4, <3>2, <3>3
  <2>6. QED
    BY <1>0, <2>1, <2>5, <1>b, WorkAtGate DEF OnItsStep, AtStep
<1>13. CASE RecordSuccess(c) \/ FollowEdge(c)
  <2>1. worker[c].pc \in {"acted", "route"} /\ UNCHANGED <<exec, task>>
    BY <1>13 DEF RecordSuccess, FollowEdge, At
  <2>2. worker'[c].pc \in {"complete", "arrive"}
    BY <1>4, <1>13 DEF RecordSuccess, FollowEdge
  <2>3. QED
    BY <1>0, <2>1, <2>2, <1>b, WorkAtGate DEF OnItsStep, AtStep
<1>14. CASE ActionToRetry(c)
  <2>1. worker[c].pc = "act" /\ UNCHANGED <<exec, task>> /\ worker'[c].pc = "idle"
    BY <1>0, <1>14, ResetFacts DEF ActionToRetry, At
  <2>2. QED
    BY <1>0, <2>1, <1>b, WorkAtGate DEF OnItsStep, AtStep
<1>15. CASE ActionFails(c) \/ ReachStop(c) \/ GateWithoutModule(c)
  <2>1. /\ worker[c].pc \in {"act", "stop", "gate"} /\ UNCHANGED <<exec, task>>
        /\ \E label \in {"fail", "complete"} : Goto(c, label)
    BY <1>15 DEF ActionFails, ReachStop, GateWithoutModule, At
  <2>2. worker'[c].pc \in {"fail", "complete"}
    BY <1>1, <1>5, <2>1 DEF ExecutorLabels
  <2>3. QED
    BY <1>0, <2>1, <2>2, <1>b, WorkAtGate DEF OnItsStep, AtStep
<1>16. CASE OrphanOpenTasks(c)
  <2>1. worker[c].pc = "orphan" /\ UNCHANGED <<exec, queue>> /\ Goto(c, "ack")
    BY <1>16 DEF OrphanOpenTasks, At
  <2>2. Walking(c) /\ exec.status \in Terminal
    BY <1>0, <2>1 DEF Walking, RowsInv, OutcomeInv, Settled, Loading
  <2>3. worker'[c].pc = "ack"
    BY <1>1, <1>5, <2>1 DEF ExecutorLabels
  <2>4. QED
    BY <1>0, <2>1, <2>2, <2>3, EndsAtGate
<1>17. CASE Receive(c) \/ OpenGate(c) \/ ParkStepRow(c) \/ ParkExecution(c) \/ FailExecution(c)
  BY <1>0, <1>17, ReceiveAtGate, OpenAtGate, ParkRowAtGate, ParkAtGate, FailAtGate
<1>18. CASE FetchParked(c) \/ CloseParkedRows(c) \/ ExpireGate(c) \/ MarkRunning(c)
  BY <1>0, <1>18, FetchAtGate, CloseAtGate, ExpireAtGate, MarkAtGate
<1>19. QED
  BY <1>7, <1>8, <1>9, <1>10, <1>11, <1>12, <1>13, <1>14, <1>15, <1>16, <1>17, <1>18
     DEF ConsumerMoves, ExecutorStep, ResumeStep
-----------------------------------------------------------------------------
LEMMA GatesPreserved ==
    ASSUME NoRedelivery, "waker_crash" \notin FaultKinds, NEW rank, Descends(rank),
           QuietInv, QuietInv', GatesFit(rank), [Next]_vars
    PROVE  GatesFit(rank)'
<1>0. /\ NoDuplicates /\ NoRedelivery
      /\ RowsInv /\ TasksFit(rank) /\ AtGateFits
  BY DEF NoRedelivery, NoDuplicates, QuietInv, GatesFit
<1>1. ASSUME NEW c \in Consumers, ConsumerMoves(c), UNCHANGED wakerVars PROVE GatesFit(rank)'
  BY <1>0, <1>1, TasksByConsumer, ConsumerAtGate DEF GatesFit
<1>2. ASSUME NEW c \in Consumers, ConsumerCrash(c) \/ LostAck(c) \/ LostMessage(c)
      PROVE  GatesFit(rank)'
  <2>1. UNCHANGED <<exec, rows, task, queue, wakerVars>> /\ worker' = [worker EXCEPT ![c] = IdleWorker]
    BY <1>0, <1>2 DEF ConsumerCrash, LostAck, LostMessage, Fault, NoRedelivery, NoDuplicates
  <2>2. /\ UNCHANGED <<approver, reconciler>> /\ TasksClose
        /\ \A s \in Steps : Result(s)' \in {Result(s), "event"}
    BY <2>1 DEF wakerVars, approvalVars, TasksClose, Closing, Result
  <2>3. TasksFit(rank)'
    BY <1>0, <2>2, TasksAside
  <2>4. OthersUnchanged(c) /\ ~Walking(c)'
    <3>1. worker \in Workers
      BY <1>0 DEF RowsInv, OutcomeInv, TokenInv, TypeInv, ConsumersOK, ExecutorTypeOK, Workers
    <3>2. QED
      BY <2>1, <3>1, ResetFacts DEF Walking
  <2>5. AtGateFits'
    BY <1>0, <2>1, <2>4, StopsAtGate
  <2>6. QED
    BY <2>3, <2>5 DEF GatesFit
<1>3. ASSUME Bystanders PROVE GatesFit(rank)'
  <2>1. /\ UNCHANGED <<task, approver, reconciler>> /\ TasksClose
        /\ \A s \in Steps : Result(s)' \in {Result(s), "event"}
    BY <1>3 DEF Bystanders, ResultsKept, TasksClose, Closing
  <2>2. TasksFit(rank)'
    BY <1>0, <2>1, TasksAside
  <2>3. ClaimIsExclusive'
    BY DEF QuietInv, RowsInv, OutcomeInv, TokenInv, Owned, SingleToken
  <2>4. QED
    BY <1>0, <1>3, <2>2, <2>3, StandByAtGate DEF GatesFit
<1>4. ASSUME NEW a \in Approvers, ApproverStep(a) PROVE GatesFit(rank)'
  <2>1. TasksFit(rank)' /\ ClaimedByVerdict /\ OneDecider
    BY <1>0, <1>4, TasksByApprover DEF TasksFit
  <2>2. AtGateFits'
    BY <1>0, <1>4, <2>1, DeciderBesideGate, HolderAtGate DEF ApproverStep
  <2>3. QED
    BY <2>1, <2>2 DEF GatesFit
<1>5. CASE ReconcilerStep
  <2>0. task \in [Steps -> TaskStatuses] /\ reconciler \in ReconcilerState
    BY <1>0, GateTasks
       DEF RowsInv, OutcomeInv, TokenInv, TypeInv, WakersOK, ApprovalTypeOK
  <2>1. UNCHANGED <<rows, approver>>
    BY <1>5 DEF ReconcilerStep, SelectOpenTasks, SelectExecutions, CloseTask, storeVars
  <2>2. TasksClose
    BY <1>5, <2>0, GateTasks DEF ReconcilerStep, SelectOpenTasks, SelectExecutions, CloseTask,
         storeVars, ExpireTask, TasksClose, Closing
  <2>3. \A s \in reconciler'.open : s \in reconciler.open \/ task'[s] = "open"
    <3>1. CASE SelectOpenTasks
      BY <2>0, <3>1 DEF SelectOpenTasks, ReconcilerState, OpenTasks, storeVars
    <3>2. CASE SelectExecutions
      BY <2>0, <3>2 DEF SelectExecutions, ReconcilerState, IdleReconciler
    <3>3. CASE CloseTask
      BY <2>0, <3>3 DEF CloseTask, ReconcilerState, IdleReconciler
    <3>4. QED
      BY <1>5, <3>1, <3>2, <3>3 DEF ReconcilerStep
  <2>4. \A s \in Steps : Result(s)' = Result(s)
    BY <2>1 DEF Result
  <2>5. TasksFit(rank)'
    BY <1>0, <2>1, <2>2, <2>3, <2>4, TasksAside
  <2>6. QED
    BY <1>0, <1>5, <2>5, ReconcilerAtGate DEF GatesFit
<1>6. ASSUME NEW c \in Consumers, ConsumerStep(c) PROVE GatesFit(rank)'
  <2>1. ResumeStep(c) /\ UNCHANGED approvalVars => UNCHANGED wakerVars
    BY DEF ResumeStep, DropResume, LoadParked, FetchParked, CloseParkedRows, ExpireGate, MarkRunning,
           wakerVars
  <2>2. QED
    BY <1>1, <1>6, <2>1 DEF ConsumerStep, ConsumerMoves
<1>7. SweeperStep /\ UNCHANGED approvalVars => GatesFit(rank)'
  BY <1>0, <1>3, SweeperStandsBy
<1>8. \A d \in Deliveries : DeliveryStep(d) /\ UNCHANGED approvalVars => GatesFit(rank)'
  BY <1>0, <1>3, DeliveryStandsBy
<1>9. Time \/ UNCHANGED vars => GatesFit(rank)'
  BY <1>0, <1>3, TimeStandsBy
<1>10. ~WakerCrash
  BY DEF WakerCrash, Fault
<1>11. QED
  BY <1>2, <1>4, <1>5, <1>6, <1>7, <1>8, <1>9, <1>10 DEF Next, Faults, Finished

LEMMA GatesInitially ==
    ASSUME NEW rank, Descends(rank), Init
    PROVE  GatesFit(rank)
<1>1. /\ exec.current = NoStep /\ NoStep \notin Steps
      /\ \A s \in Steps : task[s] = "none" /\ Result(s) = NoResult /\ Stat(s) = "absent"
      /\ reconciler.open = {} /\ reconciler.pc = "idle"
      /\ \A a \in Approvers : approver[a].pc = "idle"
      /\ \A c \in Consumers : ~Walking(c)
  <2>1. \A s \in Steps : rows[s][1] = AbsentRow
    BY FirstSlot DEF Init, StoreInit
  <2>2. AbsentRow.result = NoResult /\ AbsentRow.status = "absent"
    BY DEF AbsentRow
  <2>3. QED
    BY <2>1, <2>2, DefinitionAssumption
       DEF Init, StoreInit, ExecutorInit, ApprovalInit, IdleWorker, IdleApprover, IdleReconciler,
           Walking, Result, Stat
<1>2. TasksFit(rank)
  BY <1>1, DefinitionAssumption
     DEF TasksFit, OnTheWay, Descends, Below, TaskOfGate, VerdictHasTask, AheadIsNew, ReadTasksExist,
              ClaimedByVerdict,
              OneDecider, Deciding, ApproverAt, NoResult, Verdicts
<1>3. AtGateFits
  BY <1>1 DEF AtGateFits, NotOpenedYet, HeldAtItsGate, ParkFits, GateWalkersOK, OnGate, ApproverHolds,
              ApproverAt
<1>4. QED
  BY <1>2, <1>3 DEF GatesFit

LEMMA GatesAlwaysFit ==
    ASSUME NoRedelivery, "waker_crash" \notin FaultKinds, NEW rank, Descends(rank)
    PROVE  Spec => [](QuietInv /\ GatesFit(rank))
<1>1. Init => GatesFit(rank)
  BY GatesInitially
<1>2. QuietInv /\ QuietInv' /\ GatesFit(rank) /\ [Next]_vars => GatesFit(rank)'
  BY GatesPreserved
<1>3. Spec => []QuietInv
  BY ParksAreQuiet DEF NoRedelivery, NoDuplicates
<1>4. QED
  BY <1>1, <1>2, <1>3, PTL DEF Spec

(***************************************************************************)
(* An execution parked at a gate can be decided, whatever the reconciler   *)
(* of tasks, the sweeper and other decisions do in the meantime, and       *)
(* whatever publish, action and approval module fail, as long as no        *)
(* decision dies half way. A consumer may have died with its message after *)
(* it opened the gate's task: the one that takes the step over by zombie   *)
(* recovery finds the task open, or in the hands of a decider.             *)
(***************************************************************************)
THEOREM ParkedGatesAreDecidable ==
    ASSUME NoRedelivery, "waker_crash" \notin FaultKinds, Acyclic
    PROVE  Spec => []GateIsDecidable
<1>1. PICK rank : Descends(rank)
  BY DEF Acyclic
<1>2. ASSUME QuietInv, GatesFit(rank) PROVE GateIsDecidable
  <2> SUFFICES ASSUME exec.status = "waiting", IsGate(exec.current), NEW p \in WaitingRows,
                      exec.current = p[1]
               PROVE  \/ task[exec.current] = "open"
                      \/ \E a \in Approvers : approver[a].gate = exec.current
    BY DEF GateIsDecidable
  <2>1. OnGate
    <3>1. OneRow
      BY <1>2 DEF QuietInv, RowsInv, RowsFit, RowsOK
    <3>2. p[1] \in Steps /\ p[2] = 1
      BY <3>1 DEF WaitingRows, OneRow
    <3>3. QED
      BY <3>2 DEF WaitingRows, OnGate, IsGate, Stat
  <2>2. Decidable(exec.current)
    BY <1>2, <2>1 DEF GatesFit, AtGateFits, ParkFits, StaysOpen
  <2>3. QED
    BY <2>2 DEF Decidable, Deciding
<1>3. QuietInv /\ GatesFit(rank) => GateIsDecidable
  BY <1>2
<1>4. Spec => [](QuietInv /\ GatesFit(rank))
  BY <1>1, GatesAlwaysFit
<1>5. QED
  BY <1>3, <1>4, PTL

\* Only a resume message makes an execution leave its gate, by the edge it has read off the row.
LEMMA GateIsLeft ==
    ASSUME NoDuplicates, QuietInv, GateWalkersOK, [Next]_vars, NEW s \in Steps, IsGate(s),
           exec.current = s, exec'.current # s
    PROVE  \E parked : /\ parked.step = s
                       /\ exec'.current = Edge[s][ResumeEdge(parked)]
                       /\ Tells(parked.result, s)
<1>0. /\ RowsInv /\ exec \in ExecRow /\ PendingRows /\ NoStep \notin Steps
      /\ StepType[s] = "approval"
  BY DefinitionAssumption
     DEF QuietInv, RowsInv, RowsFit, OutcomeInv, TokenInv, TypeInv, StoreTypeOK, IsGate
<1>1. ~(ParkClaimed \/ ClaimPublished \/ ClaimReturned \/ Looks)
  BY <1>0 DEF ParkClaimed, ClaimPublished, ClaimReturned, Looks, ClaimWaiting, RollbackClaim, ExecRow
<1>2. PICK c \in Consumers : Acts(c)
  BY <1>0, <1>1, EveryStepActs
<1>3. SavesRow(c)
  BY <1>2 DEF Acts, Looks, WorksOnRow, ClosesRows
<1>4. ~(exec.status = "pending" /\ Untouched)
  BY <1>0 DEF PendingRows, New, Woken
<1>5. SavesResumption(c)
  BY <1>0, <1>3, <1>4 DEF SavesRow, SavesSkip, SavesStart, SavesArrival, SavesPark, SavesCompletion,
                          SavesFailure, WalksOn
<1>6. worker[c].pc = "mark_running" /\ exec'.current = worker[c].mem.current /\ Walking(c)
  BY <1>5 DEF SavesResumption, Walking
<1>7. WalkerOK(worker[c]) /\ GateWalkerOK(worker[c])
  BY <1>0, <1>6 DEF RowsInv, RowsFit, WalkersOK, GateWalkersOK
<1>8. worker[c].mem = Routed(worker[c].parked, exec) /\ worker[c].parked.step = s
  BY <1>6, <1>7 DEF WalkerOK, Resumes
<1>9. worker[c].mem.current = Edge[s][ResumeEdge(worker[c].parked)]
  BY <1>0, <1>8 DEF Routed, ExecRow
<1>10. Tells(worker[c].parked.result, s)
  BY <1>6, <1>7, <1>8 DEF GateWalkerOK
<1>11. QED
  BY <1>6, <1>8, <1>9, <1>10

(***************************************************************************)
(* The execution leaves a gate by the edge of the decision that was        *)
(* accepted, and by on_timeout if none was: the verdict a caller was told  *)
(* is accepted is the one that is followed, however it races the timeout,  *)
(* the reconciliation and the event deliveries.                            *)
(***************************************************************************)
THEOREM DecisionsAreFollowed ==
    ASSUME NoRedelivery, "waker_crash" \notin FaultKinds, Acyclic
    PROVE  Spec => GateFollowsDecision
<1>0. NoDuplicates
  BY DEF NoRedelivery, NoDuplicates
<1>1. PICK rank : Descends(rank)
  BY DEF Acyclic
<1>2. ASSUME QuietInv, GatesFit(rank), [Next]_vars, NEW s \in Steps, IsGate(s), exec.current = s,
             exec'.current # s
      PROVE  exec'.current = Edge[s][CASE Decided(s) /\ task[s] = "approved" -> "on_approved"
                                       [] Decided(s) /\ task[s] = "rejected" -> "on_rejected"
                                       [] OTHER -> "on_timeout"]
  <2>1. PICK parked : /\ parked.step = s
                      /\ exec'.current = Edge[s][ResumeEdge(parked)]
                      /\ Tells(parked.result, s)
    BY <1>0, <1>2, GateIsLeft DEF GatesFit, AtGateFits
  <2>2. CASE parked.result = "approved"
    BY <1>2, <2>1, <2>2 DEF Tells, Verdicts, ResumeEdge
  <2>3. CASE parked.result = "rejected"
    BY <1>2, <2>1, <2>3 DEF Tells, Verdicts, ResumeEdge
  <2>4. CASE parked.result \notin {"approved", "rejected"}
    BY <1>2, <2>1, <2>4 DEF Tells, Verdicts, ResumeEdge
  <2>5. QED
    BY <2>2, <2>3, <2>4
<1>3. QuietInv /\ GatesFit(rank) /\ [Next]_vars
          => [\A s \in Steps :
                 /\ IsGate(s)
                 /\ exec.current = s /\ exec'.current # s
                 => exec'.current = Edge[s][CASE Decided(s) /\ task[s] = "approved" -> "on_approved"
                                       [] Decided(s) /\ task[s] = "rejected" -> "on_rejected"
                                       [] OTHER -> "on_timeout"]]_vars
  BY <1>2
<1>4. Spec => [](QuietInv /\ GatesFit(rank))
  BY <1>1, GatesAlwaysFit
<1>5. QED
  BY <1>3, <1>4, PTL DEF Spec, GateFollowsDecision
=============================================================================
