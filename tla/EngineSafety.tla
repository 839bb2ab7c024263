---------------------------- MODULE EngineSafety ----------------------------
(***************************************************************************)
(* Type correctness of the engine, and what the steps of a consumer do to  *)
(* its record.  Then one owner at a time: messages, consumers and wakers   *)
(* hand the execution over without ever sharing it, unless a message that  *)
(* was handled is delivered again or a claim is taken from a consumer that *)
(* is still at work.  And how an execution ends: nobody changes it after   *)
(* that, and until then somebody carries it on.  What the sweep recovers   *)
(* is known from the step rows only: EngineRows draws the conclusions.     *)
(***************************************************************************)
EXTENDS Engine, TLAPS

AtStep == {"enter", "arrive", "claim", "insert", "act", "acted", "route", "stop",
           "gate", "park_row", "park_exec"}

Labels == {"idle"} \cup ExecutorLabels \cup ResumeLabels

Workers == [Consumers -> WorkerState]

(***************************************************************************)
(* What TypeOK leaves open and the next step relies on: a process that is  *)
(* about to use a step has one, and only an action step is performed.      *)
(***************************************************************************)
CursorOK(w) ==
    /\ w.pc \in AtStep => w.step \in Steps
    /\ w.pc \in {"act", "acted"} => StepType[w.step] = "action"
    /\ w.pc = "expire" => w.parked.step \in Steps

ConsumersOK == ExecutorTypeOK /\ \A c \in Consumers : CursorOK(worker[c])

WakersOK ==
    /\ ResumeTypeOK
    /\ ApprovalTypeOK
    /\ sweeper.pc = "reclaim" => sweeper.row \in Steps \X Slots
    /\ \A a \in Approvers : approver[a].pc # "idle" => approver[a].gate \in Steps

TypeInv == StoreTypeOK /\ ConsumersOK /\ WakersOK
-----------------------------------------------------------------------------
LEMMA EdgeTarget ==
    ASSUME NEW s \in Steps, NEW name \in DOMAIN Edge[s]
    PROVE  Edge[s][name] \in Targets
BY DefinitionAssumption DEF Targets

\* A save writes fields the consumer has, or leaves those of the row.
LEMMA DirtyType ==
    ASSUME NEW row \in ExecRow, NEW snap \in ExecRow, NEW mem \in ExecRow
    PROVE  DirtyFields(row, snap, mem) \in ExecRow
BY DEF DirtyFields, ExecRow

(***************************************************************************)
(* The record of consumer c after each way a step changes it.              *)
(***************************************************************************)
OthersUnchanged(c) == \A k \in Consumers \ {c} : worker'[k] = worker[k]

LEMMA GotoFacts ==
    ASSUME worker \in Workers, NEW c \in Consumers, NEW label \in Labels, Goto(c, label)
    PROVE  /\ worker' \in Workers
           /\ OthersUnchanged(c)
           /\ worker'[c].pc = label
           /\ worker'[c].topic = worker[c].topic
           /\ worker'[c].step = worker[c].step
           /\ worker'[c].mem = worker[c].mem
           /\ worker'[c].snap = worker[c].snap
           /\ worker'[c].parked = worker[c].parked
BY DEF Goto, WorkerState, Labels, Workers, OthersUnchanged

LEMMA SaveFacts ==
    ASSUME worker \in Workers, exec \in ExecRow, NEW c \in Consumers, NEW label \in Labels,
           NEW m \in ExecRow, SaveAs(c, m, label)
    PROVE  /\ worker' \in Workers
           /\ OthersUnchanged(c)
           /\ worker'[c].pc = label
           /\ worker'[c].topic = worker[c].topic
           /\ worker'[c].step = worker[c].step
           /\ worker'[c].mem = m
           /\ worker'[c].snap = m
           /\ worker'[c].parked = worker[c].parked
           /\ exec' \in ExecRow
           /\ exec' = DirtyFields(exec, worker[c].snap, m)
<1>1. worker[c].snap \in ExecRow
  BY DEF WorkerState, Workers
<1>2. exec' \in ExecRow /\ exec' = DirtyFields(exec, worker[c].snap, m)
  BY <1>1, DirtyType DEF SaveAs
<1> DEFINE w == [worker[c] EXCEPT !.mem = m, !.snap = m, !.pc = label]
<1>w. w \in WorkerState
  BY DEF WorkerState, Labels, Workers
<1>x. worker' = [worker EXCEPT ![c] = w]
  BY DEF SaveAs
<1>3. worker' \in Workers
  BY <1>w, <1>x DEF Workers
<1>4. OthersUnchanged(c)
  BY <1>x DEF Workers, OthersUnchanged
<1>5. /\ worker'[c].pc = label
      /\ worker'[c].topic = worker[c].topic
      /\ worker'[c].step = worker[c].step
      /\ worker'[c].mem = m
      /\ worker'[c].snap = m
      /\ worker'[c].parked = worker[c].parked
  BY <1>x DEF WorkerState, Workers
<1>6. QED
  BY <1>2, <1>3, <1>4, <1>5

LEMMA LoadFacts ==
    ASSUME worker \in Workers, exec \in ExecRow, NEW c \in Consumers, NEW label \in Labels,
           NEW m \in ExecRow, LoadAs(c, m, label)
    PROVE  /\ worker' \in Workers
           /\ OthersUnchanged(c)
           /\ worker'[c].pc = label
           /\ worker'[c].topic = worker[c].topic
           /\ worker'[c].step = m.current
           /\ worker'[c].mem = m
           /\ worker'[c].snap = exec
           /\ worker'[c].parked = NoParked
<1>1. m.current \in Targets /\ NoParked \in [step: Targets, result: Resolutions \cup {NoResult, "output"}]
  BY DEF ExecRow, NoParked, Targets
<1> DEFINE w == [worker[c] EXCEPT !.snap = exec, !.mem = m, !.step = m.current,
                           !.iterations = 0, !.parked = NoParked, !.pc = label]
<1>w. w \in WorkerState
  BY <1>1 DEF WorkerState, Labels, Workers
<1>x. worker' = [worker EXCEPT ![c] = w]
  BY DEF LoadAs
<1>2. worker' \in Workers
  BY <1>w, <1>x DEF Workers
<1>3. OthersUnchanged(c)
  BY DEF LoadAs, Workers, OthersUnchanged
<1>4. /\ worker'[c].pc = label
      /\ worker'[c].topic = worker[c].topic
      /\ worker'[c].step = m.current
      /\ worker'[c].mem = m
      /\ worker'[c].snap = exec
      /\ worker'[c].parked = NoParked
  BY DEF LoadAs, WorkerState, Workers
<1>5. QED
  BY <1>2, <1>3, <1>4

LEMMA ContinueFacts ==
    ASSUME worker \in Workers, NEW c \in Consumers, NEW next \in Targets, Continue(c, next)
    PROVE  /\ worker' \in Workers
           /\ OthersUnchanged(c)
           /\ worker'[c].pc = IF next = NoStep THEN "complete" ELSE "arrive"
           /\ worker'[c].topic = worker[c].topic
           /\ worker'[c].step = next
           /\ worker'[c].mem = worker[c].mem
           /\ worker'[c].snap = worker[c].snap
<1> DEFINE label == IF next = NoStep THEN "complete" ELSE "arrive"
<1>1. label \in ExecutorLabels
  BY DEF ExecutorLabels
<1>2. worker' = [worker EXCEPT ![c].step = next, ![c].pc = label]
  BY DEF Continue
<1> HIDE DEF label
<1> DEFINE w == [worker[c] EXCEPT !.step = next, !.pc = label]
<1>w. w \in WorkerState
  BY <1>1 DEF WorkerState, Labels, Workers
<1>x. worker' = [worker EXCEPT ![c] = w]
  BY <1>2
<1>3. worker' \in Workers
  BY <1>w, <1>x DEF Workers
<1>4. OthersUnchanged(c)
  BY <1>x DEF Workers, OthersUnchanged
<1>5. /\ worker'[c].pc = label
      /\ worker'[c].topic = worker[c].topic
      /\ worker'[c].step = next
      /\ worker'[c].mem = worker[c].mem
      /\ worker'[c].snap = worker[c].snap
  BY <1>x DEF WorkerState, Workers
<1>6. QED
  BY <1>3, <1>4, <1>5 DEF label

LEMMA ResetFacts ==
    ASSUME worker \in Workers, NEW c \in Consumers,
           worker' = [worker EXCEPT ![c] = IdleWorker]
    PROVE  /\ worker' \in Workers
           /\ OthersUnchanged(c)
           /\ worker'[c].pc = "idle"
BY DEF IdleWorker, NoParked, NullRow, WorkerState, ExecRow, Workers, OthersUnchanged, Targets,
       Statuses, Topics

LEMMA OneConsumer ==
    ASSUME ConsumersOK, NEW c \in Consumers, worker' \in Workers, OthersUnchanged(c),
           CursorOK(worker'[c]), effects' \in [Steps -> Nat]
    PROVE  ConsumersOK'
BY DEF ConsumersOK, ExecutorTypeOK, OthersUnchanged, CursorOK, Workers

LEMMA ReceiveFacts ==
    ASSUME worker \in Workers, NEW c \in Consumers, Receive(c)
    PROVE  /\ worker' \in Workers
           /\ OthersUnchanged(c)
           /\ worker'[c].pc \in {"load", "resume_load"}
<1>1. PICK topic \in Topics :
          worker' = [worker EXCEPT ![c].topic = topic,
                        ![c].pc = IF topic = "execute" THEN "load" ELSE "resume_load"]
  BY DEF Receive
<1> DEFINE label == IF topic = "execute" THEN "load" ELSE "resume_load"
<1>2. label \in {"load", "resume_load"}
  OBVIOUS
<1>3. worker' = [worker EXCEPT ![c].topic = topic, ![c].pc = label]
  BY <1>1
<1> HIDE DEF label
<1>4. worker' \in Workers
  <2>1. label \in ExecutorLabels \cup ResumeLabels
    BY <1>2 DEF ExecutorLabels, ResumeLabels
  <2>2. [worker[c] EXCEPT !.topic = topic, !.pc = label] \in WorkerState
    BY <2>1 DEF Workers, WorkerState
  <2>3. QED
    BY <1>3, <2>2 DEF Workers
<1>5. OthersUnchanged(c)
  BY <1>3 DEF Workers, OthersUnchanged
<1>6. worker'[c].pc = label
  BY <1>3 DEF Workers, WorkerState
<1>7. QED
  BY <1>2, <1>4, <1>5, <1>6
-----------------------------------------------------------------------------
(***************************************************************************)
(* Updates of the step rows.                                               *)
(***************************************************************************)
RowTable == [Steps -> [Slots -> StepRow]]

LEMMA RowUpdate ==
    ASSUME rows \in RowTable, NEW s \in Steps, NEW i \in Slots, NEW row \in StepRow
    PROVE  [rows EXCEPT ![s][i] = row] \in RowTable
BY DEF RowTable

LEMMA RowType ==
    ASSUME rows \in RowTable, NEW s \in Steps, NEW i \in Slots
    PROVE  rows[s][i] \in StepRow
BY DEF RowTable

LEMMA SetFlag ==
    ASSUME rows \in RowTable, NEW s \in Steps, NEW i \in Slots, NEW flag \in BOOLEAN
    PROVE  /\ [rows EXCEPT ![s][i].due = flag] \in RowTable
           /\ [rows EXCEPT ![s][i].stale = flag] \in RowTable
<1>1. /\ [rows[s][i] EXCEPT !.due = flag] \in StepRow
      /\ [rows[s][i] EXCEPT !.stale = flag] \in StepRow
  BY RowType DEF StepRow
<1>2. /\ [rows EXCEPT ![s][i].due = flag]
           = [rows EXCEPT ![s][i] = [rows[s][i] EXCEPT !.due = flag]]
      /\ [rows EXCEPT ![s][i].stale = flag]
           = [rows EXCEPT ![s][i] = [rows[s][i] EXCEPT !.stale = flag]]
  OBVIOUS
<1>3. QED
  BY <1>1, <1>2, RowUpdate

LEMMA RunningRow == [AbsentRow EXCEPT !.status = "running"] \in StepRow
BY DEF AbsentRow, StepRow, RowStatuses

LEMMA SetStatus ==
    ASSUME rows \in RowTable, NEW s \in Steps, NEW i \in Slots, NEW status \in RowStatuses
    PROVE  [rows EXCEPT ![s][i].status = status] \in RowTable
<1>1. [rows[s][i] EXCEPT !.status = status] \in StepRow
  BY RowType DEF StepRow
<1>2. [rows EXCEPT ![s][i].status = status]
        = [rows EXCEPT ![s][i] = [rows[s][i] EXCEPT !.status = status]]
  OBVIOUS
<1>3. QED
  BY <1>1, <1>2, RowUpdate

LEMMA SetStatusAndResult ==
    ASSUME rows \in RowTable, NEW s \in Steps, NEW i \in Slots, NEW status \in RowStatuses,
           NEW result \in Resolutions \cup {NoResult, "output"}
    PROVE  [rows EXCEPT ![s][i].status = status, ![s][i].result = result] \in RowTable
<1>1. [rows[s][i] EXCEPT !.status = status, !.result = result] \in StepRow
  BY RowType DEF StepRow
<1>2. [rows EXCEPT ![s][i].status = status, ![s][i].result = result]
        = [rows EXCEPT ![s][i] = [rows[s][i] EXCEPT !.status = status, !.result = result]]
  BY DEF RowTable
<1>3. QED
  BY <1>1, <1>2, RowUpdate

LEMMA SetStatusAndDue ==
    ASSUME rows \in RowTable, NEW s \in Steps, NEW i \in Slots, NEW status \in RowStatuses,
           NEW due \in BOOLEAN
    PROVE  [rows EXCEPT ![s][i].status = status, ![s][i].due = due] \in RowTable
<1>1. [rows[s][i] EXCEPT !.status = status, !.due = due] \in StepRow
  BY RowType DEF StepRow
<1>2. [rows EXCEPT ![s][i].status = status, ![s][i].due = due]
        = [rows EXCEPT ![s][i] = [rows[s][i] EXCEPT !.status = status, !.due = due]]
  BY DEF RowTable
<1>3. QED
  BY <1>1, <1>2, RowUpdate

LEMMA SetStatusAndStale ==
    ASSUME rows \in RowTable, NEW s \in Steps, NEW i \in Slots, NEW status \in RowStatuses,
           NEW stale \in BOOLEAN
    PROVE  [rows EXCEPT ![s][i].status = status, ![s][i].stale = stale] \in RowTable
<1>1. [rows[s][i] EXCEPT !.status = status, !.stale = stale] \in StepRow
  BY RowType DEF StepRow
<1>2. [rows EXCEPT ![s][i].status = status, ![s][i].stale = stale]
        = [rows EXCEPT ![s][i] = [rows[s][i] EXCEPT !.status = status, !.stale = stale]]
  BY DEF RowTable
<1>3. QED
  BY <1>1, <1>2, RowUpdate

-----------------------------------------------------------------------------
(***************************************************************************)
(* The steps of a consumer.                                                *)
(***************************************************************************)
LEMMA StoreUnchanged ==
    ASSUME StoreTypeOK, UNCHANGED <<exec, snapshotOk, rows, task, queue, faults>>
    PROVE  StoreTypeOK'
BY DEF StoreTypeOK

LEMMA SetStepRowType ==
    ASSUME rows \in RowTable, NEW s \in Steps, NEW status \in RowStatuses,
           NEW result \in Resolutions \cup {NoResult, "output"}, SetStepRow(s, status, result)
    PROVE  rows' \in RowTable
<1>1. PICK i \in Slots :
          rows' = [rows EXCEPT ![s][i].status = status, ![s][i].result = result]
  BY DEF SetStepRow, RowsOf
<1>2. QED
  BY <1>1, SetStatusAndResult

LEMMA ParkedType ==
    ASSUME NEW s \in Steps, NEW m \in ExecRow
    PROVE  ParkedAs(s, m) \in ExecRow
<1>1. CASE StepType[s] = "delay"
  <2>1. Edge[s]["next"] \in Targets
    BY <1>1, DefinitionAssumption, EdgeTarget DEF HasDeclaredEdges
  <2>2. QED
    BY <1>1, <2>1 DEF ParkedAs, ExecRow, Statuses
<1>2. CASE StepType[s] = "wait"
  BY <1>2, DefinitionAssumption DEF ParkedAs, ExecRow, Statuses, Targets
<1>3. CASE StepType[s] \notin {"delay", "wait"}
  BY <1>3 DEF ParkedAs, ExecRow, Statuses, Targets
<1>4. QED
  BY <1>1, <1>2, <1>3

\* The consumer goes to the label of its step's type, or to the insert before it.
LEMMA GoesToStep ==
    ASSUME ConsumersOK, NEW c \in Consumers, worker[c].step \in Steps, effects' = effects,
           Goto(c, "insert") \/ Goto(c, StepLabel(worker[c].step))
    PROVE  ConsumersOK'
<1> DEFINE label == StepLabel(worker[c].step)
<1>1. StepType[worker[c].step] \in StepTypes
  BY DefinitionAssumption
<1>2. /\ label \in Labels
      /\ label \notin {"expire", "acted"}
      /\ label = "act" => StepType[worker[c].step] = "action"
  BY <1>1 DEF StepTypes, StepLabel, Labels, ExecutorLabels
<1>3. worker \in Workers /\ effects \in [Steps -> Nat]
  BY DEF ConsumersOK, ExecutorTypeOK, Workers
<1> HIDE DEF label
<1>4. CASE Goto(c, "insert")
  BY <1>3, <1>4, GotoFacts, OneConsumer DEF CursorOK, Labels, ExecutorLabels
<1>5. CASE Goto(c, label)
  BY <1>2, <1>3, <1>5, GotoFacts, OneConsumer DEF CursorOK
<1>6. QED
  BY <1>4, <1>5 DEF label

LEMMA ContinueOK ==
    ASSUME ConsumersOK, NEW c \in Consumers, NEW next \in Targets, effects' = effects,
           Continue(c, next)
    PROVE  ConsumersOK'
<1>1. worker \in Workers /\ effects \in [Steps -> Nat]
  BY DEF ConsumersOK, ExecutorTypeOK, Workers
<1>2. QED
  BY <1>1, ContinueFacts, OneConsumer DEF CursorOK, AtStep, Targets

LEMMA ExecutorTypes ==
    ASSUME StoreTypeOK, ConsumersOK, NEW c \in Consumers, ExecutorStep(c)
    PROVE  StoreTypeOK' /\ ConsumersOK'
<1> DEFINE s == worker[c].step
<1>0. /\ worker \in Workers
      /\ worker[c] \in WorkerState
      /\ CursorOK(worker[c])
      /\ effects \in [Steps -> Nat]
      /\ exec \in ExecRow
      /\ rows \in RowTable
      /\ exec.current \in Targets
  BY DEF ConsumersOK, ExecutorTypeOK, Workers, StoreTypeOK, RowTable, ExecRow
<1>1. CASE Acknowledge(c)
  <2>1. StoreTypeOK'
    BY <1>1, StoreUnchanged DEF Acknowledge, storeVars
  <2>2. ConsumersOK'
    BY <1>0, <1>1, ResetFacts, OneConsumer DEF Acknowledge, CursorOK, AtStep
  <2>3. QED
    BY <2>1, <2>2
<1>2. CASE DropMessage(c)
  <2>1. StoreTypeOK'
    BY <1>2, StoreUnchanged DEF DropMessage, storeVars
  <2>2. ConsumersOK'
    BY <1>0, <1>2, GotoFacts, OneConsumer
       DEF DropMessage, CursorOK, AtStep, Labels, ExecutorLabels
  <2>3. QED
    BY <2>1, <2>2
<1>3. CASE RejectSnapshot(c)
  <2>1. StoreTypeOK'
    BY <1>3, StoreUnchanged DEF RejectSnapshot, storeVars
  <2>2. ConsumersOK'
    BY <1>0, <1>3, LoadFacts, OneConsumer
       DEF RejectSnapshot, CursorOK, AtStep, Labels, ExecutorLabels
  <2>3. QED
    BY <2>1, <2>2
<1>4. CASE SkipByConditions(c)
  <2>1. StoreTypeOK'
    BY <1>4, StoreUnchanged DEF SkipByConditions, storeVars
  <2>2. [exec EXCEPT !.status = "skipped"] \in ExecRow
    BY <1>0 DEF ExecRow, Statuses, Terminal
  <2>3. ConsumersOK'
    BY <1>0, <1>4, <2>2, LoadFacts, OneConsumer
       DEF SkipByConditions, CursorOK, AtStep, Labels, ExecutorLabels
  <2>4. QED
    BY <2>1, <2>3
<1>5. CASE SaveSkipped(c)
  <2>1. worker[c].mem \in ExecRow
    BY <1>0 DEF WorkerState
  <2>2. StoreTypeOK'
    BY <1>0, <1>5, <2>1, SaveFacts DEF SaveSkipped, StoreTypeOK, Labels, ExecutorLabels
  <2>3. ConsumersOK'
    BY <1>0, <1>5, <2>1, SaveFacts, OneConsumer
       DEF SaveSkipped, CursorOK, AtStep, Labels, ExecutorLabels
  <2>4. QED
    BY <2>2, <2>3
<1>6. CASE BeginWalk(c)
  <2>1. StoreTypeOK'
    BY <1>6, StoreUnchanged DEF BeginWalk, storeVars
  <2> DEFINE m == [exec EXCEPT !.status = "running", !.current = StartStep]
  <2>2. StartStep \in Steps
    BY <1>0, <1>6, DefinitionAssumption DEF BeginWalk, StartStep, Targets
  <2>3. m \in ExecRow /\ m.current = StartStep
    BY <1>0, <2>2 DEF ExecRow, Statuses, Targets
  <2>4. LoadAs(c, m, "enter") /\ effects' = effects
    BY <1>6 DEF BeginWalk
  <2> HIDE DEF m
  <2>5. ConsumersOK'
    BY <1>0, <2>2, <2>3, <2>4, LoadFacts, OneConsumer
       DEF CursorOK, AtStep, Labels, ExecutorLabels
  <2>6. QED
    BY <2>1, <2>5
<1>7. CASE NothingLeftToWalk(c)
  <2>1. StoreTypeOK'
    BY <1>7, StoreUnchanged DEF NothingLeftToWalk, storeVars
  <2>2. ConsumersOK'
    BY <1>0, <1>7, LoadFacts, OneConsumer
       DEF NothingLeftToWalk, CursorOK, AtStep, Labels, ExecutorLabels
  <2>3. QED
    BY <2>1, <2>2
<1>8. CASE EnterWalk(c)
  <2>1. worker[c].mem \in ExecRow
    BY <1>0 DEF WorkerState
  <2>2. StoreTypeOK'
    BY <1>0, <1>8, <2>1, SaveFacts DEF EnterWalk, StoreTypeOK, Labels, ExecutorLabels
  <2>3. ConsumersOK'
    BY <1>0, <1>8, <2>1, SaveFacts, OneConsumer
       DEF EnterWalk, CursorOK, AtStep, Labels, ExecutorLabels, At
  <2>4. QED
    BY <2>2, <2>3
<1>9. CASE ExceedIterations(c)
  <2>1. StoreTypeOK'
    BY <1>9, StoreUnchanged DEF ExceedIterations, storeVars
  <2>2. ConsumersOK'
    BY <1>0, <1>9, GotoFacts, OneConsumer
       DEF ExceedIterations, CursorOK, AtStep, Labels, ExecutorLabels
  <2>3. QED
    BY <2>1, <2>2
<1>10. CASE ArriveAtStep(c)
  <2> DEFINE m == [worker[c].mem EXCEPT !.current = s]
  <2>1. s \in Steps /\ worker[c].snap \in ExecRow /\ worker[c].mem \in ExecRow
    BY <1>0, <1>10 DEF ArriveAtStep, At, CursorOK, AtStep, WorkerState
  <2>2. m \in ExecRow
    BY <2>1 DEF ExecRow, Targets
  <2>3. /\ exec' = DirtyFields(exec, worker[c].snap, m)
        /\ worker' = [worker EXCEPT ![c].mem = m, ![c].snap = m, ![c].pc = "claim",
                                    ![c].iterations = @ + 1]
        /\ UNCHANGED <<snapshotOk, rows, task, queue, faults, effects>>
    BY <1>10 DEF ArriveAtStep
  <2> HIDE DEF m
  <2>4. StoreTypeOK'
    BY <1>0, <2>1, <2>2, <2>3, DirtyType DEF StoreTypeOK
  <2> DEFINE n == worker[c].iterations + 1
             w == [worker[c] EXCEPT !.mem = m, !.snap = m, !.pc = "claim", !.iterations = n]
  <2>5. n \in Nat
    BY <1>0 DEF WorkerState
  <2>6. worker' = [worker EXCEPT ![c] = w]
    BY <1>0, <2>3 DEF Workers
  <2> HIDE DEF n
  <2>7. w \in WorkerState
    BY <1>0, <2>2, <2>5 DEF WorkerState, ExecutorLabels
  <2>8. w.pc = "claim" /\ w.step = s
    BY <1>0 DEF WorkerState
  <2> HIDE DEF w
  <2>9. worker' \in Workers /\ OthersUnchanged(c) /\ worker'[c] = w
    BY <1>0, <2>6, <2>7 DEF Workers, OthersUnchanged
  <2>10. ConsumersOK'
    BY <1>0, <2>1, <2>3, <2>8, <2>9, OneConsumer DEF CursorOK, AtStep
  <2>11. QED
    BY <2>4, <2>10
<1>11. CASE ClaimStepRow(c)
  <2>1. s \in Steps
    BY <1>0, <1>11 DEF ClaimStepRow, At, CursorOK, AtStep
  <2>2. rows' \in RowTable
    <3>1. CASE UNCHANGED rows
      BY <1>0, <3>1
    <3>2. CASE \E i \in RowsOf(s) :
                 rows' = [rows EXCEPT ![s][i].status = "running", ![s][i].stale = FALSE]
      <4>1. PICK i \in Slots :
                rows' = [rows EXCEPT ![s][i].status = "running", ![s][i].stale = FALSE]
        BY <3>2 DEF RowsOf
      <4>2. QED
        BY <1>0, <2>1, <4>1, SetStatusAndStale DEF RowStatuses
    <3>3. QED
      BY <1>11, <3>1, <3>2 DEF ClaimStepRow
  <2>3. StoreTypeOK'
    BY <1>11, <2>2 DEF ClaimStepRow, StoreTypeOK, RowTable
  <2>4. effects' = effects /\ (Goto(c, "insert") \/ Goto(c, StepLabel(s)))
    BY <1>11 DEF ClaimStepRow
  <2>5. ConsumersOK'
    BY <1>0, <2>1, <2>4, GoesToStep DEF Labels, ExecutorLabels, AtStep
  <2>6. QED
    BY <2>3, <2>5
<1>12. CASE InsertStepRow(c)
  <2>1. s \in Steps
    BY <1>0, <1>12 DEF InsertStepRow, At, CursorOK, AtStep
  <2>2. rows' \in RowTable
    <3>1. PICK i \in Slots : rows' = [rows EXCEPT ![s][i] = [AbsentRow EXCEPT !.status = "running"]]
      BY <1>12 DEF InsertStepRow, RowsOf
    <3>2. QED
      BY <1>0, <2>1, <3>1, RowUpdate, RunningRow
  <2>3. StoreTypeOK'
    BY <1>12, <2>2 DEF InsertStepRow, StoreTypeOK, RowTable
  <2>4. effects' = effects /\ Goto(c, StepLabel(s))
    BY <1>12 DEF InsertStepRow
  <2>5. ConsumersOK'
    BY <1>0, <2>1, <2>4, GoesToStep
  <2>6. QED
    BY <2>3, <2>5
<1>13. CASE PerformAction(c)
  <2>1. s \in Steps /\ StepType[s] = "action"
    BY <1>0, <1>13 DEF PerformAction, At, CursorOK, AtStep
  <2>2. StoreTypeOK'
    BY <1>13, StoreUnchanged DEF PerformAction, storeVars
  <2>3. effects' \in [Steps -> Nat] /\ Goto(c, "acted")
    BY <1>0, <1>13, <2>1 DEF PerformAction
  <2>4. ConsumersOK'
    BY <1>0, <2>1, <2>3, GotoFacts, OneConsumer DEF CursorOK, Labels, ExecutorLabels
  <2>5. QED
    BY <2>2, <2>4
<1>14. CASE RecordSuccess(c)
  <2>1. s \in Steps /\ StepType[s] = "action"
    BY <1>0, <1>14 DEF RecordSuccess, At, CursorOK, AtStep
  <2>2. rows' \in RowTable
    BY <1>0, <1>14, <2>1, SetStepRowType DEF RecordSuccess, RowStatuses
  <2>3. StoreTypeOK'
    BY <1>14, <2>2 DEF RecordSuccess, StoreTypeOK, RowTable
  <2>4. Edge[s]["next"] \in Targets
    BY <2>1, DefinitionAssumption, EdgeTarget DEF HasDeclaredEdges
  <2>5. ConsumersOK'
    BY <1>0, <1>14, <2>4, ContinueOK DEF RecordSuccess
  <2>6. QED
    BY <2>3, <2>5
<1>15. CASE ActionToRetry(c)
  <2>1. s \in Steps /\ worker[c].topic \in Topics
    BY <1>0, <1>15 DEF ActionToRetry, At, CursorOK, AtStep, WorkerState
  <2>2. rows' \in RowTable
    <3>1. PICK i \in Slots : rows' = [rows EXCEPT ![s][i].status = "pending"]
      BY <1>15 DEF ActionToRetry, RowsOf
    <3>2. QED
      BY <1>0, <2>1, <3>1, SetStatus DEF RowStatuses
  <2>3. StoreTypeOK'
    BY <1>15, <2>1, <2>2 DEF ActionToRetry, StoreTypeOK, RowTable, Fault, Publish
  <2>4. ConsumersOK'
    BY <1>0, <1>15, ResetFacts, OneConsumer DEF ActionToRetry, CursorOK, AtStep
  <2>5. QED
    BY <2>3, <2>4
<1>16. CASE ActionFails(c)
  <2>1. s \in Steps
    BY <1>0, <1>16 DEF ActionFails, At, CursorOK, AtStep
  <2>2. rows' \in RowTable
    BY <1>0, <1>16, <2>1, SetStepRowType DEF ActionFails, RowStatuses
  <2>3. StoreTypeOK'
    BY <1>16, <2>2 DEF ActionFails, StoreTypeOK, RowTable
  <2>4. ConsumersOK'
    BY <1>0, <1>16, GotoFacts, OneConsumer
       DEF ActionFails, CursorOK, AtStep, Labels, ExecutorLabels
  <2>5. QED
    BY <2>3, <2>4
<1>17. CASE FollowEdge(c)
  <2>1. s \in Steps
    BY <1>0, <1>17 DEF FollowEdge, At, CursorOK, AtStep
  <2>2. rows' \in RowTable
    BY <1>0, <1>17, <2>1, SetStepRowType DEF FollowEdge, RowStatuses
  <2>3. StoreTypeOK'
    BY <1>17, <2>2 DEF FollowEdge, StoreTypeOK, RowTable
  <2>4. PICK next \in Successors(s) : Continue(c, next)
    BY <1>17 DEF FollowEdge
  <2>5. next \in Targets
    BY <2>1, <2>4, EdgeTarget DEF Successors
  <2>6. ConsumersOK'
    BY <1>0, <1>17, <2>4, <2>5, ContinueOK DEF FollowEdge
  <2>7. QED
    BY <2>3, <2>6
<1>18. CASE ReachStop(c)
  <2>1. s \in Steps
    BY <1>0, <1>18 DEF ReachStop, At, CursorOK, AtStep
  <2>2. rows' \in RowTable
    <3>1. PICK i \in Slots : rows' = [rows EXCEPT ![s][i].status = "complete"]
      BY <1>18 DEF ReachStop, RowsOf
    <3>2. QED
      BY <1>0, <2>1, <3>1, SetStatus DEF RowStatuses
  <2>3. StoreTypeOK'
    BY <1>18, <2>2 DEF ReachStop, StoreTypeOK, RowTable
  <2>4. ConsumersOK'
    BY <1>0, <1>18, GotoFacts, OneConsumer
       DEF ReachStop, CursorOK, AtStep, Labels, ExecutorLabels
  <2>5. QED
    BY <2>3, <2>4
<1>19. CASE OpenGate(c)
  <2>1. s \in Steps
    BY <1>0, <1>19 DEF OpenGate, At, CursorOK, AtStep
  <2>2. StoreTypeOK'
    BY <1>19, <2>1 DEF OpenGate, StoreTypeOK, CreateTask, TaskStatuses
  <2>3. ConsumersOK'
    BY <1>0, <1>19, <2>1, GotoFacts, OneConsumer
       DEF OpenGate, CursorOK, Labels, ExecutorLabels
  <2>4. QED
    BY <2>2, <2>3
<1>20. CASE GateWithoutModule(c)
  <2>1. s \in Steps
    BY <1>0, <1>20 DEF GateWithoutModule, At, CursorOK, AtStep
  <2>2. rows' \in RowTable
    BY <1>0, <1>20, <2>1, SetStepRowType DEF GateWithoutModule, RowStatuses
  <2>3. StoreTypeOK'
    BY <1>20, <2>2 DEF GateWithoutModule, StoreTypeOK, RowTable
  <2>4. ConsumersOK'
    BY <1>0, <1>20, GotoFacts, OneConsumer
       DEF GateWithoutModule, CursorOK, AtStep, Labels, ExecutorLabels
  <2>5. QED
    BY <2>3, <2>4
<1>21. CASE ParkStepRow(c)
  <2>1. s \in Steps
    BY <1>0, <1>21 DEF ParkStepRow, At, CursorOK, AtStep
  <2>2. rows' \in RowTable
    <3>1. PICK i \in Slots : rows' = [rows EXCEPT ![s][i].status = "waiting", ![s][i].due = FALSE]
      BY <1>21 DEF ParkStepRow, RowsOf
    <3>2. QED
      BY <1>0, <2>1, <3>1, SetStatusAndDue DEF RowStatuses
  <2>3. StoreTypeOK'
    BY <1>21, <2>2 DEF ParkStepRow, StoreTypeOK, RowTable
  <2>4. ConsumersOK'
    BY <1>0, <1>21, <2>1, GotoFacts, OneConsumer
       DEF ParkStepRow, CursorOK, Labels, ExecutorLabels
  <2>5. QED
    BY <2>3, <2>4
<1>22. CASE ParkExecution(c)
  <2>1. s \in Steps /\ worker[c].mem \in ExecRow
    BY <1>0, <1>22 DEF ParkExecution, At, CursorOK, AtStep, WorkerState
  <2>2. ParkedAs(s, worker[c].mem) \in ExecRow
    BY <2>1, ParkedType
  <2>3. StoreTypeOK'
    BY <1>0, <1>22, <2>2, SaveFacts DEF ParkExecution, StoreTypeOK, Labels, ExecutorLabels
  <2>4. ConsumersOK'
    BY <1>0, <1>22, <2>2, SaveFacts, OneConsumer
       DEF ParkExecution, CursorOK, AtStep, Labels, ExecutorLabels
  <2>5. QED
    BY <2>3, <2>4
<1>23. CASE CompleteExecution(c)
  <2> DEFINE m == [worker[c].mem EXCEPT !.status = "complete", !.current = NoStep]
  <2>1. m \in ExecRow
    BY <1>0 DEF WorkerState, ExecRow, Statuses, Terminal, Targets
  <2>2. SaveAs(c, m, "ack") /\ UNCHANGED <<snapshotOk, rows, task, queue, faults, effects>>
    BY <1>23 DEF CompleteExecution
  <2> HIDE DEF m
  <2>3. StoreTypeOK'
    BY <1>0, <2>1, <2>2, SaveFacts DEF StoreTypeOK, Labels, ExecutorLabels
  <2>4. ConsumersOK'
    BY <1>0, <2>1, <2>2, SaveFacts, OneConsumer DEF CursorOK, AtStep, Labels, ExecutorLabels
  <2>5. QED
    BY <2>3, <2>4
<1>24. CASE FailExecution(c)
  <2> DEFINE m == [worker[c].mem EXCEPT !.status = "failed"]
             label == IF ApprovalsInstalled THEN "orphan" ELSE "ack"
  <2>1. m \in ExecRow
    BY <1>0 DEF WorkerState, ExecRow, Statuses, Terminal
  <2>2. label \in Labels /\ label \notin AtStep /\ label # "expire"
    BY DEF Labels, ExecutorLabels, AtStep
  <2>3. SaveAs(c, m, label) /\ UNCHANGED <<snapshotOk, rows, task, queue, faults, effects>>
    BY <1>24 DEF FailExecution
  <2> HIDE DEF m, label
  <2>4. StoreTypeOK'
    BY <1>0, <2>1, <2>2, <2>3, SaveFacts DEF StoreTypeOK
  <2>5. ConsumersOK'
    BY <1>0, <2>1, <2>2, <2>3, SaveFacts, OneConsumer DEF CursorOK, AtStep
  <2>6. QED
    BY <2>4, <2>5
<1>25. CASE OrphanOpenTasks(c)
  <2>1. StoreTypeOK'
    BY <1>25 DEF OrphanOpenTasks, StoreTypeOK, OrphanTasks, TaskStatuses, Fault
  <2>2. ConsumersOK'
    BY <1>0, <1>25, GotoFacts, OneConsumer
       DEF OrphanOpenTasks, CursorOK, AtStep, Labels, ExecutorLabels
  <2>3. QED
    BY <2>1, <2>2
<1>26. QED
  BY <1>1, <1>2, <1>3, <1>4, <1>5, <1>6, <1>7, <1>8, <1>9, <1>10, <1>11, <1>12, <1>13,
     <1>14, <1>15, <1>16, <1>17, <1>18, <1>19, <1>20, <1>21, <1>22, <1>23, <1>24, <1>25
     DEF ExecutorStep

LEMMA ReceiveTypes ==
    ASSUME StoreTypeOK, ConsumersOK, NEW c \in Consumers, Receive(c)
    PROVE  StoreTypeOK' /\ ConsumersOK'
<1>1. worker \in Workers /\ effects \in [Steps -> Nat]
  BY DEF ConsumersOK, ExecutorTypeOK, Workers
<1>2. StoreTypeOK'
  BY DEF Receive, StoreTypeOK
<1>3. ConsumersOK'
  BY <1>1, ReceiveFacts, OneConsumer DEF Receive, CursorOK, AtStep
<1>4. QED
  BY <1>2, <1>3

ParkedState == [step: Targets, result: Resolutions \cup {NoResult, "output"}]

LEMMA RoutedType ==
    ASSUME NEW parked \in ParkedState, NEW m \in ExecRow
    PROVE  Routed(parked, m) \in ExecRow
<1> DEFINE p == parked.step
<1>1. CASE p = NoStep \/ StepType[p] \notin {"wait", "approval"}
  BY <1>1 DEF Routed
<1>2. CASE p # NoStep /\ StepType[p] \in {"wait", "approval"}
  <2>1. p \in Steps
    BY <1>2 DEF ParkedState, Targets
  <2>2. ResumeEdge(parked) \in DOMAIN Edge[p]
    BY <1>2, <2>1, DefinitionAssumption DEF HasDeclaredEdges, ResumeEdge, IsGate
  <2>3. Edge[p][ResumeEdge(parked)] \in Targets
    BY <2>1, <2>2, EdgeTarget
  <2>4. Routed(parked, m)
          = [m EXCEPT !.current = Edge[p][ResumeEdge(parked)], !.event = NoEvent]
    BY <1>2 DEF Routed
  <2>5. QED
    BY <2>3, <2>4 DEF ExecRow
<1>3. QED
  BY <1>1, <1>2

\* Rows that wait get another status or result.
LEMMA MappedRows ==
    ASSUME rows \in RowTable, NEW status \in RowStatuses,
           NEW result \in Resolutions \cup {NoResult, "output"}
    PROVE  /\ [s \in Steps |-> [i \in Slots |->
                 IF rows[s][i].status = "waiting"
                 THEN [rows[s][i] EXCEPT !.status = status] ELSE rows[s][i]]] \in RowTable
           /\ [s \in Steps |-> [i \in Slots |->
                 IF rows[s][i].status = "waiting"
                 THEN [rows[s][i] EXCEPT !.result = result] ELSE rows[s][i]]] \in RowTable
<1>1. \A s \in Steps, i \in Slots :
          /\ rows[s][i] \in StepRow
          /\ [rows[s][i] EXCEPT !.status = status] \in StepRow
          /\ [rows[s][i] EXCEPT !.result = result] \in StepRow
  <2> TAKE s \in Steps, i \in Slots
  <2>1. rows[s][i] \in StepRow
    BY RowType
  <2>2. QED
    BY <2>1 DEF StepRow
<1>2. QED
  BY <1>1 DEF RowTable

LEMMA GateRows ==
    ASSUME rows \in RowTable, NEW s \in Steps,
           NEW result \in Resolutions \cup {NoResult, "output"}
    PROVE  [rows EXCEPT ![s] = [i \in Slots |->
              IF rows[s][i].status = "waiting"
              THEN [rows[s][i] EXCEPT !.result = result] ELSE rows[s][i]]] \in RowTable
<1>1. \A i \in Slots : rows[s][i] \in StepRow
  BY RowType
<1>2. \A i \in Slots : [rows[s][i] EXCEPT !.result = result] \in StepRow
  BY <1>1 DEF StepRow
<1>3. QED
  BY <1>1, <1>2 DEF RowTable

LEMMA ResumeTypes ==
    ASSUME StoreTypeOK, ConsumersOK, NEW c \in Consumers, ResumeStep(c)
    PROVE  StoreTypeOK' /\ ConsumersOK'
<1>0. /\ worker \in Workers
      /\ worker[c] \in WorkerState
      /\ CursorOK(worker[c])
      /\ effects \in [Steps -> Nat]
      /\ exec \in ExecRow
      /\ rows \in RowTable
  BY DEF ConsumersOK, ExecutorTypeOK, Workers, StoreTypeOK, RowTable
<1>1. CASE DropResume(c)
  <2>1. StoreTypeOK'
    BY <1>1, StoreUnchanged DEF DropResume, storeVars
  <2>2. ConsumersOK'
    BY <1>0, <1>1, GotoFacts, OneConsumer
       DEF DropResume, CursorOK, AtStep, Labels, ExecutorLabels
  <2>3. QED
    BY <2>1, <2>2
<1>2. CASE LoadParked(c)
  <2>1. StoreTypeOK'
    BY <1>2, StoreUnchanged DEF LoadParked, storeVars
  <2>2. ConsumersOK'
    BY <1>0, <1>2, LoadFacts, OneConsumer
       DEF LoadParked, CursorOK, AtStep, Labels, ResumeLabels
  <2>3. QED
    BY <2>1, <2>2
<1>3. CASE FetchParked(c)
  <2>1. StoreTypeOK'
    BY <1>3, StoreUnchanged DEF FetchParked, storeVars
  <2>2. PICK parked \in ParkedState :
            worker' = [worker EXCEPT ![c].parked = parked, ![c].pc = "close"]
    <3>1. CASE worker' = [worker EXCEPT ![c].parked = NoParked, ![c].pc = "close"]
      BY <3>1 DEF NoParked, ParkedState, Targets
    <3>2. CASE \E p \in WaitingRows :
                  worker' = [worker EXCEPT ![c].pc = "close",
                     ![c].parked = [step |-> p[1], result |-> rows[p[1]][p[2]].result]]
      <4>1. PICK p \in WaitingRows :
                worker' = [worker EXCEPT ![c].pc = "close",
                   ![c].parked = [step |-> p[1], result |-> rows[p[1]][p[2]].result]]
        BY <3>2
      <4>2. p[1] \in Steps /\ p[2] \in Slots
        BY DEF WaitingRows
      <4> DEFINE q == [step |-> p[1], result |-> rows[p[1]][p[2]].result]
      <4>3. q \in ParkedState
        BY <1>0, <4>2, RowType DEF ParkedState, Targets, StepRow
      <4>4. worker' = [worker EXCEPT ![c].pc = "close", ![c].parked = q]
        BY <4>1
      <4> HIDE DEF q
      <4>5. worker' = [worker EXCEPT ![c].parked = q, ![c].pc = "close"]
        BY <1>0, <4>4 DEF Workers, WorkerState
      <4>6. QED
        BY <4>3, <4>5
    <3>3. QED
      BY <1>3, <3>1, <3>2 DEF FetchParked
  <2> DEFINE w == [worker[c] EXCEPT !.parked = parked, !.pc = "close"]
  <2>3. worker' = [worker EXCEPT ![c] = w]
    BY <2>2
  <2>4. w \in WorkerState /\ w.pc = "close"
    BY <1>0, <2>2 DEF WorkerState, ParkedState, ResumeLabels
  <2> HIDE DEF w
  <2>5. worker' \in Workers /\ OthersUnchanged(c) /\ worker'[c] = w
    BY <1>0, <2>3, <2>4 DEF Workers, OthersUnchanged
  <2>6. ConsumersOK'
    BY <1>0, <1>3, <2>4, <2>5, OneConsumer DEF FetchParked, CursorOK, AtStep
  <2>7. QED
    BY <2>1, <2>6
<1>4. CASE CloseParkedRows(c)
  <2> DEFINE parked == worker[c].parked
             label == IF ApprovalsInstalled /\ IsGate(parked.step) /\ parked.result \notin Verdicts
                      THEN "expire" ELSE "mark_running"
             m == Routed(parked, worker[c].mem)
             w == [worker[c] EXCEPT !.mem = m, !.pc = label]
  <2>1. parked \in ParkedState /\ worker[c].mem \in ExecRow
    BY <1>0 DEF WorkerState, ParkedState
  <2>2. StoreTypeOK'
    BY <1>0, <1>4, MappedRows DEF CloseParkedRows, StoreTypeOK, RowTable, RowStatuses
  <2>3. m \in ExecRow
    BY <2>1, RoutedType
  <2>4. /\ label \in {"expire", "mark_running"}
        /\ label = "expire" => parked.step \in Steps
    BY <2>1 DEF IsGate, ParkedState, Targets
  <2>5. worker' = [worker EXCEPT ![c].mem = m, ![c].pc = label] /\ effects' = effects
    BY <1>4 DEF CloseParkedRows
  <2> HIDE DEF label, m
  <2>6. worker' = [worker EXCEPT ![c] = w]
    BY <1>0, <2>5
  <2>7. w \in WorkerState /\ w.pc = label /\ w.parked = parked
    BY <1>0, <2>3, <2>4 DEF WorkerState, ResumeLabels
  <2> HIDE DEF w
  <2>8. worker' \in Workers /\ OthersUnchanged(c) /\ worker'[c] = w
    BY <1>0, <2>6, <2>7 DEF Workers, OthersUnchanged
  <2>9. ConsumersOK'
    BY <1>0, <2>4, <2>5, <2>7, <2>8, OneConsumer DEF CursorOK, AtStep
  <2>10. QED
    BY <2>2, <2>9
<1>5. CASE ExpireGate(c)
  <2>1. worker[c].parked.step \in Steps
    BY <1>0, <1>5 DEF ExpireGate, At, CursorOK
  <2>2. StoreTypeOK'
    BY <1>5, <2>1 DEF ExpireGate, StoreTypeOK, ExpireTask, TaskStatuses, Fault
  <2>3. ConsumersOK'
    BY <1>0, <1>5, GotoFacts, OneConsumer
       DEF ExpireGate, CursorOK, AtStep, Labels, ResumeLabels
  <2>4. QED
    BY <2>2, <2>3
<1>6. CASE MarkRunning(c)
  <2> DEFINE m == [worker[c].mem EXCEPT !.status = "running"]
  <2>1. m \in ExecRow
    BY <1>0 DEF WorkerState, ExecRow, Statuses
  <2>2. SaveAs(c, m, "load") /\ UNCHANGED <<snapshotOk, rows, task, queue, faults, effects>>
    BY <1>6 DEF MarkRunning
  <2> HIDE DEF m
  <2>3. StoreTypeOK'
    BY <1>0, <2>1, <2>2, SaveFacts DEF StoreTypeOK, Labels, ExecutorLabels
  <2>4. ConsumersOK'
    BY <1>0, <2>1, <2>2, SaveFacts, OneConsumer DEF CursorOK, AtStep, Labels, ExecutorLabels
  <2>5. QED
    BY <2>3, <2>4
<1>7. QED
  BY <1>1, <1>2, <1>3, <1>4, <1>5, <1>6 DEF ResumeStep
-----------------------------------------------------------------------------
(***************************************************************************)
(* The steps of the wakers.                                                *)
(***************************************************************************)
LEMMA ClaimTypes ==
    ASSUME StoreTypeOK, ClaimWaiting \/ RollbackClaim \/ UNCHANGED exec,
           UNCHANGED <<snapshotOk, rows, task, queue, faults>>
    PROVE  StoreTypeOK'
<1>1. \A status \in Statuses : [exec EXCEPT !.status = status] \in ExecRow
  BY DEF StoreTypeOK, ExecRow
<1>2. exec' \in ExecRow
  BY <1>1 DEF ClaimWaiting, RollbackClaim, StoreTypeOK, Statuses
<1>3. QED
  BY <1>2 DEF StoreTypeOK

LEMMA SweeperTypes ==
    ASSUME StoreTypeOK, WakersOK, SweeperStep, UNCHANGED approvalVars
    PROVE  StoreTypeOK' /\ WakersOK'
<1>0. /\ rows \in RowTable
      /\ sweeper \in SweeperState
      /\ sweeper.pc = "reclaim" => sweeper.row \in Steps \X Slots
      /\ delivery \in [Deliveries -> DeliveryState]
      /\ IdleSweep \in SweeperState /\ IdleSweep.pc = "idle"
  BY DEF StoreTypeOK, RowTable, WakersOK, ResumeTypeOK, IdleSweep, SweeperState
<1>1. ASSUME sweeper' \in SweeperState, delivery' = delivery,
             sweeper'.pc = "reclaim" => sweeper'.row \in Steps \X Slots
      PROVE  WakersOK'
  BY <1>0, <1>1 DEF WakersOK, ResumeTypeOK, ApprovalTypeOK, approvalVars
<1>2. CASE SelectDue
  <2>1. StoreTypeOK'
    BY <1>2, StoreUnchanged DEF SelectDue, storeVars
  <2>2. WakersOK'
    BY <1>0, <1>1, <1>2 DEF SelectDue, SweeperState
  <2>3. QED
    BY <2>1, <2>2
<1>3. CASE ClaimDue
  <2>1. StoreTypeOK'
    BY <1>3, ClaimTypes DEF ClaimDue
  <2>2. WakersOK'
    BY <1>0, <1>1, <1>3 DEF ClaimDue, SweeperState
  <2>3. QED
    BY <2>1, <2>2
<1>4. CASE PublishDue
  <2>1. StoreTypeOK'
    BY <1>4 DEF PublishDue, StoreTypeOK, Publish, Fault, Topics
  <2>2. WakersOK'
    BY <1>0, <1>1, <1>4 DEF PublishDue, SweeperState
  <2>3. QED
    BY <2>1, <2>2
<1>5. CASE RollbackDue
  <2>1. StoreTypeOK'
    BY <1>5, ClaimTypes DEF RollbackDue
  <2>2. WakersOK'
    BY <1>0, <1>1, <1>5 DEF RollbackDue
  <2>3. QED
    BY <2>1, <2>2
<1>6. CASE SelectZombie
  <2>1. StoreTypeOK'
    BY <1>6, StoreUnchanged DEF SelectZombie, storeVars
  <2>2. WakersOK'
    BY <1>0, <1>1, <1>6 DEF SelectZombie, SweeperState
  <2>3. QED
    BY <2>1, <2>2
<1>7. CASE ReclaimZombie
  <2> DEFINE p == sweeper.row
  <2>1. p[1] \in Steps /\ p[2] \in Slots
    BY <1>0, <1>7 DEF ReclaimZombie
  <2>2. rows' \in RowTable
    <3>1. rows \in RowTable
      BY <1>0
    <3>2. [rows EXCEPT ![p[1]][p[2]].stale = FALSE] \in RowTable
      BY <3>1, <2>1, SetFlag
    <3>3. rows' = [rows EXCEPT ![p[1]][p[2]].stale = FALSE] \/ rows' = rows
      BY <1>7 DEF ReclaimZombie
    <3>4. QED
      BY <3>1, <3>2, <3>3
  <2>3. StoreTypeOK'
    BY <1>7, <2>2 DEF ReclaimZombie, StoreTypeOK, RowTable
  <2>4. [pc |-> "republish", row |-> NoRow] \in SweeperState
    BY DEF SweeperState
  <2>5. WakersOK'
    BY <1>0, <1>1, <1>7, <2>4 DEF ReclaimZombie
  <2>6. QED
    BY <2>3, <2>5
<1>8. CASE RepublishZombie
  <2>1. StoreTypeOK'
    BY <1>8 DEF RepublishZombie, StoreTypeOK, Publish, Fault, Topics
  <2>2. WakersOK'
    BY <1>0, <1>1, <1>8 DEF RepublishZombie
  <2>3. QED
    BY <2>1, <2>2
<1>9. QED
  BY <1>2, <1>3, <1>4, <1>5, <1>6, <1>7, <1>8 DEF SweeperStep

LEMMA DeliveryTypes ==
    ASSUME StoreTypeOK, WakersOK, NEW d \in Deliveries, DeliveryStep(d), UNCHANGED approvalVars
    PROVE  StoreTypeOK' /\ WakersOK'
<1>0. /\ rows \in RowTable
      /\ exec \in ExecRow
      /\ delivery \in [Deliveries -> DeliveryState]
  BY DEF StoreTypeOK, RowTable, WakersOK, ResumeTypeOK
<1>1. ASSUME delivery' \in [Deliveries -> DeliveryState], sweeper' = sweeper
      PROVE  WakersOK'
  BY <1>1 DEF WakersOK, ResumeTypeOK, ApprovalTypeOK, approvalVars
<1>2. IdleDelivery \in DeliveryState
  BY DEF IdleDelivery, DeliveryState
<1>3. CASE SelectParkedOn(d)
  <2>1. StoreTypeOK'
    BY <1>3, StoreUnchanged DEF SelectParkedOn, storeVars
  <2>2. [pc |-> "claim", event |-> exec.event] \in DeliveryState
    BY <1>0 DEF ExecRow, DeliveryState
  <2>3. WakersOK'
    BY <1>0, <1>1, <1>3, <2>2 DEF SelectParkedOn
  <2>4. QED
    BY <2>1, <2>3
<1>4. CASE ClaimForEvent(d)
  <2>1. StoreTypeOK'
    BY <1>4, ClaimTypes DEF ClaimForEvent
  <2>2. WakersOK'
    BY <1>0, <1>1, <1>2, <1>4 DEF ClaimForEvent, DeliveryState
  <2>3. QED
    BY <2>1, <2>2
<1>5. CASE WriteResolution(d)
  <2>1. StoreTypeOK'
    BY <1>0, <1>5, MappedRows DEF WriteResolution, StoreTypeOK, RowTable, Resolutions, RowStatuses
  <2>2. WakersOK'
    BY <1>0, <1>1, <1>5 DEF WriteResolution, DeliveryState
  <2>3. QED
    BY <2>1, <2>2
<1>6. CASE PublishEvent(d)
  <2>1. StoreTypeOK'
    BY <1>6 DEF PublishEvent, StoreTypeOK, Publish, Fault, Topics
  <2>2. WakersOK'
    BY <1>0, <1>1, <1>2, <1>6 DEF PublishEvent, DeliveryState
  <2>3. QED
    BY <2>1, <2>2
<1>7. CASE RollbackEvent(d)
  <2>1. StoreTypeOK'
    BY <1>7, ClaimTypes DEF RollbackEvent
  <2>2. WakersOK'
    BY <1>0, <1>1, <1>2, <1>7 DEF RollbackEvent
  <2>3. QED
    BY <2>1, <2>2
<1>8. QED
  BY <1>3, <1>4, <1>5, <1>6, <1>7 DEF DeliveryStep

LEMMA OneApprover ==
    ASSUME WakersOK, NEW a \in Approvers, NEW w \in ApproverState,
           w.pc # "idle" => w.gate \in Steps,
           approver' = [approver EXCEPT ![a] = w],
           UNCHANGED <<resumeVars, reconciler>>
    PROVE  WakersOK'
BY DEF WakersOK, ResumeTypeOK, ApprovalTypeOK, resumeVars

LEMMA ApproverTypes ==
    ASSUME StoreTypeOK, WakersOK, NEW a \in Approvers, ApproverStep(a)
    PROVE  StoreTypeOK' /\ WakersOK'
<1>0. /\ rows \in RowTable
      /\ approver[a] \in ApproverState
      /\ approver \in [Approvers -> ApproverState]
      /\ approver[a].pc # "idle" => approver[a].gate \in Steps
      /\ approver[a].verdict \in Verdicts
  BY DEF StoreTypeOK, RowTable, WakersOK, ApprovalTypeOK, ApproverState
<1>1. ASSUME NEW label \in {"claim", "write", "publish", "clear", "unpark", "reopen"},
             approver[a].pc # "idle", ApproverGoto(a, label),
             UNCHANGED <<resumeVars, reconciler>>
      PROVE  WakersOK'
  <2> DEFINE w == [approver[a] EXCEPT !.pc = label]
  <2>1. w \in ApproverState /\ w.gate = approver[a].gate
    BY <1>0 DEF ApproverState
  <2>2. approver' = [approver EXCEPT ![a] = w]
    BY <1>1 DEF ApproverGoto
  <2> HIDE DEF w
  <2>3. QED
    BY <1>0, <1>1, <2>1, <2>2, OneApprover
<1>2. ASSUME ApproverDone(a), UNCHANGED <<resumeVars, reconciler>>
      PROVE  WakersOK'
  <2>1. IdleApprover \in ApproverState /\ IdleApprover.pc = "idle"
    BY DEF IdleApprover, ApproverState, Verdicts, Targets
  <2>2. QED
    BY <1>2, <2>1, OneApprover DEF ApproverDone
<1>3. ASSUME NEW s \in Steps, NEW result \in Resolutions \cup {NoResult}, SetGateResult(s, result)
      PROVE  rows' \in RowTable
  BY <1>0, <1>3, GateRows DEF SetGateResult
<1>4. CASE ClaimTask(a)
  <2>1. PICK s \in Steps, verdict \in Verdicts :
            /\ task' = [task EXCEPT ![s] = verdict]
            /\ approver' = [approver EXCEPT ![a] =
                              [pc |-> "claim", gate |-> s, verdict |-> verdict]]
    BY <1>4 DEF ClaimTask
  <2>2. StoreTypeOK'
    BY <1>4, <2>1 DEF ClaimTask, StoreTypeOK, TaskStatuses, Verdicts
  <2> DEFINE w == [pc |-> "claim", gate |-> s, verdict |-> verdict]
  <2>3. w \in ApproverState /\ w.gate \in Steps
    BY DEF ApproverState, Targets
  <2>4. approver' = [approver EXCEPT ![a] = w] /\ UNCHANGED <<resumeVars, reconciler>>
    BY <1>4, <2>1 DEF ClaimTask
  <2> HIDE DEF w
  <2>5. WakersOK'
    BY <2>3, <2>4, OneApprover
  <2>6. QED
    BY <2>2, <2>5
<1>5. CASE ClaimGate(a)
  <2>1. StoreTypeOK'
    BY <1>5, ClaimTypes DEF ClaimGate
  <2>2. WakersOK'
    BY <1>1, <1>5 DEF ClaimGate, ApproverAt
  <2>3. QED
    BY <2>1, <2>2
<1>6. CASE WriteVerdict(a)
  <2>1. approver[a].gate \in Steps /\ approver[a].verdict \in Resolutions
    BY <1>0, <1>6 DEF WriteVerdict, ApproverAt, Verdicts, Resolutions
  <2>2. StoreTypeOK'
    BY <1>3, <1>6, <2>1 DEF WriteVerdict, StoreTypeOK, RowTable
  <2>3. WakersOK'
    BY <1>1, <1>6 DEF WriteVerdict, ApproverAt
  <2>4. QED
    BY <2>2, <2>3
<1>7. CASE PublishVerdict(a)
  <2>1. StoreTypeOK'
    BY <1>7 DEF PublishVerdict, StoreTypeOK, Publish, Fault, Topics
  <2>2. WakersOK'
    BY <1>1, <1>2, <1>7 DEF PublishVerdict, ApproverAt
  <2>3. QED
    BY <2>1, <2>2
<1>8. CASE ClearVerdict(a)
  <2>1. approver[a].gate \in Steps
    BY <1>0, <1>8 DEF ClearVerdict, ApproverAt
  <2>2. StoreTypeOK'
    BY <1>3, <1>8, <2>1 DEF ClearVerdict, StoreTypeOK, RowTable
  <2>3. WakersOK'
    BY <1>1, <1>8 DEF ClearVerdict, ApproverAt
  <2>4. QED
    BY <2>2, <2>3
<1>9. CASE RollbackGate(a)
  <2>1. StoreTypeOK'
    BY <1>9, ClaimTypes DEF RollbackGate
  <2>2. WakersOK'
    BY <1>1, <1>9 DEF RollbackGate, ApproverAt
  <2>3. QED
    BY <2>1, <2>2
<1>10. CASE ReopenTask(a)
  <2>1. StoreTypeOK'
    BY <1>10 DEF ReopenTask, StoreTypeOK, TaskStatuses
  <2>2. WakersOK'
    BY <1>2, <1>10 DEF ReopenTask
  <2>3. QED
    BY <2>1, <2>2
<1>11. QED
  BY <1>4, <1>5, <1>6, <1>7, <1>8, <1>9, <1>10 DEF ApproverStep

LEMMA ReconcilerTypes ==
    ASSUME StoreTypeOK, WakersOK, ReconcilerStep
    PROVE  StoreTypeOK' /\ WakersOK'
<1>0. /\ exec \in ExecRow
      /\ reconciler \in ReconcilerState
      /\ IdleReconciler \in ReconcilerState
  BY DEF StoreTypeOK, WakersOK, ApprovalTypeOK, IdleReconciler, ReconcilerState, NullRow, ExecRow,
         Statuses, Targets
<1>1. ASSUME reconciler' \in ReconcilerState, UNCHANGED <<resumeVars, approver>>
      PROVE  WakersOK'
  BY <1>1 DEF WakersOK, ResumeTypeOK, ApprovalTypeOK, resumeVars
<1>2. CASE SelectOpenTasks
  <2>1. StoreTypeOK'
    BY <1>2, StoreUnchanged DEF SelectOpenTasks, storeVars
  <2>2. OpenTasks \in SUBSET Steps
    BY DEF OpenTasks
  <2>3. WakersOK'
    BY <1>0, <1>1, <1>2, <2>2 DEF SelectOpenTasks, ReconcilerState
  <2>4. QED
    BY <2>1, <2>3
<1>3. CASE SelectExecutions
  <2>1. StoreTypeOK'
    BY <1>3, StoreUnchanged DEF SelectExecutions, storeVars
  <2> DEFINE left == IF exec.status \in Terminal THEN reconciler.open
                     ELSE reconciler.open \ {exec.current}
  <2>2. left \in SUBSET Steps
    BY <1>0 DEF ReconcilerState
  <2>3. /\ UNCHANGED <<resumeVars, approver>>
        /\ reconciler' = IF left = {} THEN IdleReconciler
                         ELSE [pc |-> "close", open |-> left, seen |-> exec]
    BY <1>3 DEF SelectExecutions
  <2> HIDE DEF left
  <2>4. [pc |-> "close", open |-> left, seen |-> exec] \in ReconcilerState
    BY <1>0, <2>2 DEF ReconcilerState
  <2>5. WakersOK'
    BY <1>0, <1>1, <2>3, <2>4
  <2>6. QED
    BY <2>1, <2>5
<1>4. CASE CloseTask
  <2>1. PICK s \in reconciler.open :
            /\ IF reconciler.seen.status \in Terminal
               THEN task' = [task EXCEPT ![s] = IF @ = "open" THEN "orphaned" ELSE @]
               ELSE ExpireTask(s)
            /\ reconciler' = IF reconciler.open = {s} THEN IdleReconciler
                             ELSE [reconciler EXCEPT !.open = @ \ {s}]
    BY <1>4 DEF CloseTask
  <2>2. StoreTypeOK'
    BY <1>4, <2>1 DEF CloseTask, StoreTypeOK, ExpireTask, TaskStatuses
  <2>3. [reconciler EXCEPT !.open = @ \ {s}] \in ReconcilerState
    BY <1>0 DEF ReconcilerState
  <2>4. WakersOK'
    BY <1>0, <1>1, <1>4, <2>1, <2>3 DEF CloseTask
  <2>5. QED
    BY <2>2, <2>4
<1>5. QED
  BY <1>2, <1>3, <1>4 DEF ReconcilerStep
-----------------------------------------------------------------------------
(***************************************************************************)
(* The whole engine.                                                       *)
(***************************************************************************)
LEMMA ResetWorker ==
    ASSUME ConsumersOK, NEW c \in Consumers, worker' = [worker EXCEPT ![c] = IdleWorker],
           UNCHANGED effects
    PROVE  ConsumersOK'
<1>1. worker \in Workers /\ effects \in [Steps -> Nat]
  BY DEF ConsumersOK, ExecutorTypeOK, Workers
<1>2. QED
  BY <1>1, ResetFacts, OneConsumer DEF CursorOK, AtStep

LEMMA FaultTypes ==
    ASSUME TypeInv, Faults
    PROVE  TypeInv'
<1>0. StoreTypeOK /\ ConsumersOK /\ WakersOK
  BY DEF TypeInv
<1>1. \A c \in Consumers : worker[c].topic \in Topics
  BY <1>0 DEF ConsumersOK, ExecutorTypeOK, WorkerState
<1>2. ASSUME UNCHANGED wakerVars PROVE WakersOK'
  BY <1>0, <1>2 DEF WakersOK, ResumeTypeOK, ApprovalTypeOK, wakerVars, resumeVars, approvalVars
<1>3. ASSUME NEW c \in Consumers, ConsumerCrash(c) PROVE TypeInv'
  <2>1. StoreTypeOK'
    BY <1>0, <1>1, <1>3 DEF ConsumerCrash, StoreTypeOK, Publish, Fault
  <2>2. ConsumersOK' /\ WakersOK'
    BY <1>0, <1>2, <1>3, ResetWorker DEF ConsumerCrash
  <2>3. QED
    BY <2>1, <2>2 DEF TypeInv
<1>4. ASSUME NEW c \in Consumers, LostAck(c) PROVE TypeInv'
  <2>1. StoreTypeOK'
    BY <1>0, <1>1, <1>4 DEF LostAck, StoreTypeOK, Publish, Fault
  <2>2. ConsumersOK' /\ WakersOK'
    BY <1>0, <1>2, <1>4, ResetWorker DEF LostAck
  <2>3. QED
    BY <2>1, <2>2 DEF TypeInv
<1>5. ASSUME NEW c \in Consumers, LostMessage(c) PROVE TypeInv'
  <2>1. StoreTypeOK'
    BY <1>0, <1>5 DEF LostMessage, StoreTypeOK, Fault
  <2>2. ConsumersOK' /\ WakersOK'
    BY <1>0, <1>2, <1>5, ResetWorker DEF LostMessage
  <2>3. QED
    BY <2>1, <2>2 DEF TypeInv
<1>6. ASSUME WakerCrash PROVE TypeInv'
  <2>1. StoreTypeOK' /\ ConsumersOK'
    BY <1>0, <1>6 DEF WakerCrash, StoreTypeOK, ConsumersOK, ExecutorTypeOK, CursorOK, Fault,
                      executorVars
  <2>2. ASSUME SweeperCrash PROVE WakersOK'
    BY <1>0, <2>2 DEF SweeperCrash, WakersOK, ResumeTypeOK, ApprovalTypeOK, approvalVars,
                      IdleSweep, SweeperState
  <2>3. ASSUME NEW d \in Deliveries, DeliveryCrash(d) PROVE WakersOK'
    BY <1>0, <2>3 DEF DeliveryCrash, WakersOK, ResumeTypeOK, ApprovalTypeOK, approvalVars,
                      IdleDelivery, DeliveryState
  <2>4. ASSUME NEW a \in Approvers, ApproverCrash(a) PROVE WakersOK'
    <3>1. IdleApprover \in ApproverState /\ IdleApprover.pc = "idle"
      BY DEF IdleApprover, ApproverState, Verdicts, Targets
    <3>2. QED
      BY <1>0, <2>4, <3>1, OneApprover DEF ApproverCrash, ApproverDone
  <2>5. ASSUME ReconcilerCrash PROVE WakersOK'
    <3>1. IdleReconciler \in ReconcilerState
      BY DEF IdleReconciler, ReconcilerState, NullRow, ExecRow, Statuses, Targets
    <3>2. QED
      BY <1>0, <2>5, <3>1 DEF ReconcilerCrash, WakersOK, ResumeTypeOK, ApprovalTypeOK, resumeVars
  <2>6. QED
    BY <1>6, <2>1, <2>2, <2>3, <2>4, <2>5 DEF WakerCrash, TypeInv
<1>7. QED
  BY <1>3, <1>4, <1>5, <1>6 DEF Faults

LEMMA TimeTypes ==
    ASSUME TypeInv, Time
    PROVE  TypeInv'
<1>1. PICK s \in Steps, i \in Slots : TimeoutDue(s, i) \/ ClaimAges(s, i)
  BY DEF Time
<1>2. rows \in RowTable /\ StoreTypeOK
  BY DEF TypeInv, StoreTypeOK, RowTable
<1>3. UNCHANGED <<exec, snapshotOk, task, queue, executorVars, wakerVars>>
  BY <1>1 DEF TimeoutDue, ClaimAges
<1>4. rows' \in RowTable
  <2>1. /\ [rows EXCEPT ![s][i].due = TRUE] \in RowTable
        /\ [rows EXCEPT ![s][i].stale = TRUE] \in RowTable
    BY <1>2, SetFlag
  <2>2. CASE TimeoutDue(s, i)
    BY <2>1, <2>2 DEF TimeoutDue
  <2>3. CASE ClaimAges(s, i)
    BY <2>1, <2>3 DEF ClaimAges
  <2>4. QED
    BY <1>1, <2>2, <2>3
<1>5. StoreTypeOK'
  BY <1>1, <1>2, <1>3, <1>4 DEF StoreTypeOK, RowTable, TimeoutDue, ClaimAges, Fault
<1>6. ConsumersOK' /\ WakersOK'
  BY <1>3 DEF TypeInv, ConsumersOK, ExecutorTypeOK, CursorOK, WakersOK, ResumeTypeOK, ApprovalTypeOK,
              executorVars, wakerVars, resumeVars, approvalVars
<1>7. QED
  BY <1>5, <1>6 DEF TypeInv

LEMMA TypesInitially == Init => TypeInv
<1> SUFFICES ASSUME Init PROVE TypeInv
  OBVIOUS
<1>1. AbsentRow \in StepRow /\ NullRow \in ExecRow
  BY DEF AbsentRow, StepRow, RowStatuses, NullRow, ExecRow, Statuses, Targets
<1>2. StoreTypeOK
  BY <1>1 DEF Init, StoreInit, StoreTypeOK, Topics, TaskStatuses, NullRow
<1>3. IdleWorker \in WorkerState /\ IdleWorker.pc = "idle"
  BY <1>1 DEF IdleWorker, NoParked, WorkerState, Topics, Targets
<1>4. ConsumersOK
  BY <1>3 DEF Init, ExecutorInit, ConsumersOK, ExecutorTypeOK, CursorOK, AtStep
<1>5. /\ IdleSweep \in SweeperState /\ IdleSweep.pc = "idle"
      /\ IdleDelivery \in DeliveryState
      /\ IdleApprover \in ApproverState /\ IdleApprover.pc = "idle"
      /\ IdleReconciler \in ReconcilerState
  BY <1>1 DEF IdleSweep, SweeperState, IdleDelivery, DeliveryState, IdleApprover, ApproverState,
              Verdicts, Targets, IdleReconciler, ReconcilerState
<1>6. WakersOK
  BY <1>5 DEF Init, ResumeInit, ApprovalInit, WakersOK, ResumeTypeOK, ApprovalTypeOK
<1>7. QED
  BY <1>2, <1>4, <1>6 DEF TypeInv

LEMMA TypesPreserved == TypeInv /\ [Next]_vars => TypeInv'
<1> SUFFICES ASSUME TypeInv, [Next]_vars PROVE TypeInv'
  OBVIOUS
<1>0. StoreTypeOK /\ ConsumersOK /\ WakersOK
  BY DEF TypeInv
<1>1. ASSUME UNCHANGED wakerVars PROVE WakersOK'
  BY <1>0, <1>1 DEF WakersOK, ResumeTypeOK, ApprovalTypeOK, wakerVars, resumeVars, approvalVars
<1>2. ASSUME UNCHANGED executorVars PROVE ConsumersOK'
  BY <1>0, <1>2 DEF ConsumersOK, ExecutorTypeOK, CursorOK, executorVars
<1>3. ASSUME NEW c \in Consumers, ConsumerStep(c) PROVE TypeInv'
  <2>1. CASE (Receive(c) \/ ExecutorStep(c)) /\ UNCHANGED wakerVars
    BY <1>0, <1>1, <2>1, ReceiveTypes, ExecutorTypes DEF TypeInv
  <2>2. CASE ResumeStep(c) /\ UNCHANGED approvalVars
    <3>1. UNCHANGED resumeVars
      BY <2>2 DEF ResumeStep, DropResume, LoadParked, FetchParked, CloseParkedRows, ExpireGate,
                  MarkRunning
    <3>2. QED
      BY <1>0, <1>1, <2>2, <3>1, ResumeTypes DEF TypeInv, wakerVars
  <2>3. QED
    BY <1>3, <2>1, <2>2 DEF ConsumerStep
<1>4. ASSUME SweeperStep, UNCHANGED approvalVars PROVE TypeInv'
  <2>1. UNCHANGED executorVars
    BY <1>4 DEF SweeperStep, SelectDue, ClaimDue, PublishDue, RollbackDue, SelectZombie,
                ReclaimZombie, RepublishZombie
  <2>2. QED
    BY <1>0, <1>2, <1>4, <2>1, SweeperTypes DEF TypeInv
<1>5. ASSUME NEW d \in Deliveries, DeliveryStep(d), UNCHANGED approvalVars PROVE TypeInv'
  <2>1. UNCHANGED executorVars
    BY <1>5 DEF DeliveryStep, SelectParkedOn, ClaimForEvent, WriteResolution, PublishEvent,
                RollbackEvent
  <2>2. QED
    BY <1>0, <1>2, <1>5, <2>1, DeliveryTypes DEF TypeInv
<1>6. ASSUME NEW a \in Approvers, ApproverStep(a) PROVE TypeInv'
  <2>1. UNCHANGED executorVars
    BY <1>6 DEF ApproverStep, ClaimTask, ClaimGate, WriteVerdict, PublishVerdict, ClearVerdict,
                RollbackGate, ReopenTask
  <2>2. QED
    BY <1>0, <1>2, <1>6, <2>1, ApproverTypes DEF TypeInv
<1>7. ASSUME ReconcilerStep PROVE TypeInv'
  <2>1. UNCHANGED executorVars
    BY <1>7 DEF ReconcilerStep, SelectOpenTasks, SelectExecutions, CloseTask
  <2>2. QED
    BY <1>0, <1>2, <1>7, <2>1, ReconcilerTypes DEF TypeInv
<1>8. ASSUME UNCHANGED vars PROVE TypeInv'
  BY <1>0, <1>1, <1>2, <1>8, StoreUnchanged DEF TypeInv, vars, storeVars, wakerVars
<1>9. QED
  BY <1>3, <1>4, <1>5, <1>6, <1>7, <1>8, FaultTypes, TimeTypes DEF Next, Finished

(***************************************************************************)
(* The inductive invariant holds in every state, whatever the definition,  *)
(* the processes and the faults.                                           *)
(***************************************************************************)
THEOREM TypesAndCursors == Spec => []TypeInv
<1>1. Init => TypeInv
  BY TypesInitially
<1>2. TypeInv /\ [Next]_vars => TypeInv'
  BY TypesPreserved
<1>3. QED
  BY <1>1, <1>2, PTL DEF Spec

(***************************************************************************)
(* Every variable keeps its type: in particular no topic is received from  *)
(* when it is empty, and no step is entered that the definition lacks.     *)
(***************************************************************************)
THEOREM TypeCorrect == Spec => []TypeOK
<1>1. TypeInv => TypeOK
  BY DEF TypeInv, TypeOK, ConsumersOK, WakersOK
<1>2. QED
  BY <1>1, TypesAndCursors, PTL
-----------------------------------------------------------------------------

(***************************************************************************)
(* The faults the engine is written to survive: consumers and wakers that  *)
(* die, messages that are lost, executions that are left to the recovery   *)
(* of zombies, actions that are retried, queue and task manager errors.    *)
(***************************************************************************)
NoDuplicates == FaultKinds \cap {"lost_ack", "slow_claim"} = {}

Young(table) == \A s \in Steps, i \in Slots : ~table[s][i].stale

\* The sweep has renewed a zombie's claim and is about to publish it again.
Republishing == sweeper.pc = "republish"

NothingStale == Young(rows) /\ ~Republishing

OneStale ==
    \E s \in Steps, i \in Slots :
        /\ rows[s][i].status = "running" /\ rows[s][i].stale
        /\ \A t \in Steps, j \in Slots : rows[t][j].stale => t = s /\ j = i

\* A step was claimed by a consumer that is gone.
ClaimLeft == \E s \in Steps, i \in Slots : rows[s][i].status = "running"

(***************************************************************************)
(* Nobody works on an execution that was walked, and one claim of it is    *)
(* old, or was until the sweep took it up.                                 *)
(***************************************************************************)
Stranded ==
    /\ "claim_ages" \in FaultKinds
    /\ Idle
    /\ exec.status \notin {"pending", "waiting"}
    /\ IF Republishing THEN Young(rows) /\ ClaimLeft ELSE OneStale

StaleFits == NothingStale \/ Stranded

\* What the sweep relies on: an execution runs one step at a time, and none
\* before it is walked or while it is parked.
RunsOneStep ==
    \A s \in Steps, i \in Slots :
        rows[s][i].status = "running" =>
            /\ exec.status \notin {"pending", "waiting"}
            /\ \A t \in Steps, j \in Slots :
                  rows[t][j].status = "running" => t = s /\ j = i

\* What a consumer that walks the graph has made of the status.
StatusOK(w) ==
    /\ w.pc \in AtStep => w.mem.status = "running"
    /\ w.pc = "skip" => w.mem.status = "skipped"

StatusesOK == \A c \in Consumers : StatusOK(worker[c])

Owned == SingleToken /\ WalkerViewIsFresh /\ StatusesOK /\ StaleFits

TokenInv == TypeInv /\ Owned

Loading == {"load", "resume_load"}

ViewIsFresh(c) ==
    Walking(c) /\ worker[c].pc \notin {"load", "resume_load"} => worker[c].snap = exec
-----------------------------------------------------------------------------
\* A save from a fresh copy writes the copy.
LEMMA FreshSave ==
    ASSUME NEW row \in ExecRow, NEW m \in ExecRow
    PROVE  DirtyFields(row, row, m) = m
<1>1. /\ DirtyFields(row, row, m).status = m.status
      /\ DirtyFields(row, row, m).current = m.current
      /\ DirtyFields(row, row, m).event = m.event
  BY DEF DirtyFields
<1>2. m = [status |-> m.status, current |-> m.current, event |-> m.event]
  BY DEF ExecRow
<1>3. QED
  BY <1>2 DEF DirtyFields

LEMMA PublishCounts ==
    ASSUME queue \in [Topics -> Nat], NEW topic \in Topics, Publish(topic)
    PROVE  Messages' = Messages + 1
BY DEF Publish, Messages, Topics

LEMMA StaleAfterUpdate ==
    ASSUME rows \in RowTable, \A s \in Steps, i \in Slots : ~rows[s][i].stale,
           NEW s \in Steps, NEW i \in Slots, NEW row \in StepRow, ~row.stale,
           rows' = [rows EXCEPT ![s][i] = row]
    PROVE  \A t \in Steps, j \in Slots : ~rows'[t][j].stale
BY DEF RowTable

LEMMA WalkedIsNotParked ==
    ASSUME TokenInv, NEW c \in Consumers, Walking(c)
    PROVE  exec.status # "waiting"
BY DEF TokenInv, Owned, SingleToken, ParkIsUnowned, Idle

\* Only an execution that is left alone has an old claim.
LEMMA WorkIsYoung ==
    ASSUME TokenInv, ~Idle \/ exec.status \in {"pending", "waiting"}
    PROVE  NothingStale
BY DEF TokenInv, Owned, StaleFits, Stranded

LEMMA WalkedIsYoung ==
    ASSUME TokenInv, NEW c \in Consumers, Walking(c)
    PROVE  NothingStale /\ Young(rows)
BY WorkIsYoung DEF Idle, NothingStale

LEMMA StaleKept ==
    ASSUME TokenInv, UNCHANGED <<exec, rows>>, Idle => Idle', Republishing' = Republishing
    PROVE  StaleFits'
BY DEF TokenInv, Owned, StaleFits, NothingStale, Stranded, Young, OneStale, ClaimLeft

LEMMA WalkerMoves ==
    ASSUME TokenInv, NEW c \in Consumers, Walking(c), OthersUnchanged(c),
           UNCHANGED <<queue, wakerVars>>,
           Walking(c)' => exec'.status # "waiting",
           Young(rows'),
           ViewIsFresh(c)', StatusOK(worker'[c])
    PROVE  Owned'
<1>1. SingleToken /\ StatusesOK /\ NothingStale
  BY WalkedIsYoung DEF TokenInv, Owned
<1>2. \A k \in Consumers \ {c} : ~Walking(k) /\ ~Walking(k)'
  BY <1>1 DEF SingleToken, OneWalker, OthersUnchanged, Walking
<1>3. Messages = 0 /\ Messages' = 0
  <2>1. Messages \in Nat
    BY DEF TokenInv, TypeInv, StoreTypeOK, Topics, Messages
  <2>2. Messages <= 1 /\ Messages # 1
    BY <1>1 DEF SingleToken, OneMessage
  <2>3. QED
    BY <2>1, <2>2 DEF Messages
<1>4. ~ClaimHeld /\ ~ClaimHeld'
  BY <1>1 DEF SingleToken, ClaimIsExclusive, Idle, ClaimHeld, SweepHolds, DeliveryHolds,
              ApproverHolds, wakerVars, resumeVars, approvalVars
<1>5. OneMessage' /\ OneWalker'
  BY <1>2, <1>3 DEF OneMessage, OneWalker
<1>6. OneClaim' /\ ClaimIsExclusive'
  BY <1>4 DEF OneClaim, ClaimIsExclusive, ClaimHeld
<1>7. ParkIsUnowned'
  <2>1. CASE Walking(c)'
    BY <2>1 DEF ParkIsUnowned
  <2>2. CASE ~Walking(c)'
    BY <1>2, <1>3, <1>4, <2>2 DEF ParkIsUnowned, Idle, Messages
  <2>3. QED
    BY <2>1, <2>2
<1>8. WalkerViewIsFresh'
  BY <1>2 DEF WalkerViewIsFresh, ViewIsFresh
<1>9. StatusesOK'
  BY <1>1 DEF StatusesOK, StatusOK, OthersUnchanged
<1>10. StaleFits'
  BY <1>1 DEF StaleFits, NothingStale, Republishing, Young, wakerVars, resumeVars
<1>11. QED
  BY <1>5, <1>6, <1>7, <1>8, <1>9, <1>10 DEF Owned, SingleToken

LEMMA GotoMoves ==
    ASSUME TokenInv, NEW c \in Consumers, Walking(c), NEW label \in Labels, Goto(c, label),
           UNCHANGED <<exec, queue, wakerVars>>,
           label \in AtStep => worker[c].pc \in AtStep,
           label # "skip",
           worker[c].pc \in Loading => label = "ack",
           Young(rows')
    PROVE  Owned'
<1>0. worker \in Workers
  BY DEF TokenInv, TypeInv, ConsumersOK, ExecutorTypeOK, Workers
<1>1. /\ OthersUnchanged(c)
      /\ worker'[c].pc = label
      /\ worker'[c].mem = worker[c].mem
      /\ worker'[c].snap = worker[c].snap
  BY <1>0, GotoFacts
<1>2. exec.status # "waiting"
  BY WalkedIsNotParked
<1>3. ViewIsFresh(c)'
  BY <1>1 DEF TokenInv, Owned, WalkerViewIsFresh, ViewIsFresh, Walking, Loading
<1>4. StatusOK(worker'[c])
  BY <1>1 DEF TokenInv, Owned, StatusesOK, StatusOK
<1>5. QED
  BY <1>1, <1>2, <1>3, <1>4, WalkerMoves

LEMMA LoadMoves ==
    ASSUME TokenInv, NEW c \in Consumers, Walking(c), NEW label \in Labels, NEW m \in ExecRow,
           LoadAs(c, m, label),
           UNCHANGED <<exec, rows, queue, wakerVars>>,
           label \in AtStep => m.status = "running",
           label = "skip" => m.status = "skipped"
    PROVE  Owned'
<1>0. worker \in Workers /\ exec \in ExecRow
  BY DEF TokenInv, TypeInv, StoreTypeOK, ConsumersOK, ExecutorTypeOK, Workers
<1>1. /\ OthersUnchanged(c)
      /\ worker'[c].pc = label
      /\ worker'[c].mem = m
      /\ worker'[c].snap = exec
  BY <1>0, LoadFacts
<1>2. exec.status # "waiting"
  BY WalkedIsNotParked
<1>3. ViewIsFresh(c)' /\ StatusOK(worker'[c])
  BY <1>1 DEF ViewIsFresh, StatusOK
<1>4. Young(rows')
  BY WalkedIsYoung DEF Young
<1>5. QED
  BY <1>1, <1>2, <1>3, <1>4, WalkerMoves

LEMMA SaveMoves ==
    ASSUME TokenInv, NEW c \in Consumers, Walking(c), worker[c].pc \notin Loading,
           NEW label \in Labels, NEW m \in ExecRow, SaveAs(c, m, label),
           UNCHANGED <<rows, queue, wakerVars>>,
           m.status # "waiting" \/ label = "ack",
           label \in AtStep => m.status = "running",
           label # "skip"
    PROVE  Owned' /\ exec' = m
<1>0. worker \in Workers /\ exec \in ExecRow
  BY DEF TokenInv, TypeInv, StoreTypeOK, ConsumersOK, ExecutorTypeOK, Workers
<1>1. /\ OthersUnchanged(c)
      /\ worker'[c].pc = label
      /\ worker'[c].mem = m
      /\ worker'[c].snap = m
      /\ exec' = DirtyFields(exec, worker[c].snap, m)
  BY <1>0, SaveFacts
<1>2. worker[c].snap = exec
  BY DEF TokenInv, Owned, WalkerViewIsFresh, Loading
<1>3. exec' = m
  BY <1>0, <1>1, <1>2, FreshSave
<1>4. ViewIsFresh(c)' /\ StatusOK(worker'[c])
  BY <1>1, <1>3 DEF ViewIsFresh, StatusOK
<1>5. Young(rows')
  BY WalkedIsYoung DEF Young
<1>6. Walking(c)' => exec'.status # "waiting"
  BY <1>1, <1>3 DEF Walking
<1>7. QED
  BY <1>1, <1>3, <1>4, <1>5, <1>6, WalkerMoves

LEMMA ContinueMoves ==
    ASSUME TokenInv, NEW c \in Consumers, worker[c].pc \in AtStep,
           NEW next \in Targets, Continue(c, next),
           UNCHANGED <<exec, queue, wakerVars>>,
           Young(rows')
    PROVE  Owned'
<1>0. worker \in Workers /\ Walking(c) /\ worker[c].pc \notin Loading
  BY DEF TokenInv, TypeInv, ConsumersOK, ExecutorTypeOK, Workers, Walking, AtStep, Loading
<1>1. /\ OthersUnchanged(c)
      /\ worker'[c].pc \in {"complete", "arrive"}
      /\ worker'[c].mem = worker[c].mem
      /\ worker'[c].snap = worker[c].snap
  BY <1>0, ContinueFacts
<1>2. exec.status # "waiting"
  BY <1>0, WalkedIsNotParked
<1>3. ViewIsFresh(c)'
  BY <1>0, <1>1 DEF TokenInv, Owned, WalkerViewIsFresh, ViewIsFresh, Walking, Loading
<1>4. StatusOK(worker'[c])
  BY <1>1 DEF TokenInv, Owned, StatusesOK, StatusOK
<1>5. QED
  BY <1>0, <1>1, <1>2, <1>3, <1>4, WalkerMoves

\* A consumer lets go of its message, and gives it back to the queue or not.
LEMMA ConsumerStops ==
    ASSUME TokenInv, NEW c \in Consumers, worker' = [worker EXCEPT ![c] = IdleWorker],
           UNCHANGED <<exec, wakerVars>>,
           \/ UNCHANGED queue
           \/ Walking(c) /\ \E topic \in Topics : Publish(topic),
           IF Walking(c) THEN Young(rows') ELSE UNCHANGED rows
    PROVE  Owned'
<1>0. /\ worker \in Workers
      /\ queue \in [Topics -> Nat]
      /\ SingleToken /\ WalkerViewIsFresh /\ StatusesOK
  BY DEF TokenInv, TypeInv, StoreTypeOK, ConsumersOK, ExecutorTypeOK, Workers, Owned
<1>1. OthersUnchanged(c) /\ worker'[c].pc = "idle"
  BY <1>0, ResetFacts
<1>2. ~Walking(c)' /\ \A k \in Consumers : Walking(k)' => k # c /\ Walking(k)
  BY <1>1 DEF Walking, OthersUnchanged
<1>3. Messages \in Nat
  BY <1>0 DEF Topics, Messages
<1>4. /\ ClaimHeld' = ClaimHeld
      /\ OneClaim'
  BY <1>0 DEF SingleToken, OneClaim, ClaimHeld, SweepHolds, DeliveryHolds, ApproverHolds,
              wakerVars, resumeVars, approvalVars
<1>a. WalkerViewIsFresh' /\ StatusesOK'
  BY <1>0, <1>1, <1>2 DEF WalkerViewIsFresh, StatusesOK, StatusOK, OthersUnchanged, AtStep, Walking
<1>b. StaleFits'
  <2>1. Republishing' = Republishing
    BY DEF Republishing, wakerVars, resumeVars
  <2>2. CASE Walking(c)
    BY <2>1, <2>2, WalkedIsYoung DEF StaleFits, NothingStale, Young
  <2>3. CASE ~Walking(c)
    <3>1. Idle => Idle'
      BY <1>2, <2>3 DEF Idle
    <3>2. QED
      BY <2>1, <2>3, <3>1, StaleKept
  <2>4. QED
    BY <2>2, <2>3
<1>5. WalkerViewIsFresh' /\ StatusesOK' /\ StaleFits'
  BY <1>a, <1>b
<1>6. CASE UNCHANGED queue
  <2>1. Messages' = Messages
    BY <1>6 DEF Messages
  <2>2. OneMessage' /\ OneWalker'
    BY <1>0, <1>2, <2>1 DEF SingleToken, OneMessage, OneWalker
  <2>3. Idle => Idle'
    BY <1>2, <2>1 DEF Idle, Messages
  <2>4. ClaimIsExclusive' /\ ParkIsUnowned'
    BY <1>0, <1>4, <2>3 DEF SingleToken, ClaimIsExclusive, ParkIsUnowned
  <2>5. QED
    BY <1>4, <1>5, <2>2, <2>4 DEF Owned, SingleToken
<1>7. CASE Walking(c) /\ \E topic \in Topics : Publish(topic)
  <2>1. Messages' = Messages + 1
    BY <1>0, <1>7, PublishCounts
  <2>2. Messages = 0
    BY <1>0, <1>3, <1>7 DEF SingleToken, OneMessage
  <2>3. \A k \in Consumers : ~Walking(k)'
    BY <1>0, <1>2, <1>7 DEF SingleToken, OneWalker
  <2>4. OneMessage' /\ OneWalker'
    BY <2>1, <2>2, <2>3 DEF OneMessage, OneWalker
  <2>5. ~Idle
    BY <1>7 DEF Idle
  <2>6. ClaimIsExclusive' /\ ParkIsUnowned'
    BY <1>0, <1>4, <2>5 DEF SingleToken, ClaimIsExclusive, ParkIsUnowned
  <2>7. QED
    BY <1>4, <1>5, <2>4, <2>6 DEF Owned, SingleToken
<1>8. QED
  BY <1>6, <1>7

LEMMA ReceiveMoves ==
    ASSUME TokenInv, NEW c \in Consumers, Receive(c), UNCHANGED wakerVars
    PROVE  Owned'
<1>0. /\ worker \in Workers
      /\ queue \in [Topics -> Nat]
      /\ SingleToken /\ WalkerViewIsFresh /\ StatusesOK
  BY DEF TokenInv, TypeInv, StoreTypeOK, ConsumersOK, ExecutorTypeOK, Workers, Owned
<1>1. OthersUnchanged(c) /\ worker'[c].pc \in Loading
  BY <1>0, ReceiveFacts DEF Loading
<1>2. Messages \in Nat /\ Messages > 0 /\ Messages' = Messages - 1
  BY <1>0 DEF Receive, Messages, Topics
<1>3. Messages = 1 /\ Messages' = 0
  BY <1>0, <1>2 DEF SingleToken, OneMessage
<1>4. \A k \in Consumers : ~Walking(k) /\ (Walking(k)' => k = c)
  BY <1>0, <1>1, <1>3 DEF SingleToken, OneMessage, OthersUnchanged, Walking
<1>5. ~Idle /\ ~ClaimHeld /\ exec.status # "waiting"
  BY <1>0, <1>3 DEF Idle, Messages, SingleToken, ClaimIsExclusive, ParkIsUnowned
<1>6. ~ClaimHeld' /\ OneClaim' /\ exec' = exec
  BY <1>0, <1>5 DEF Receive, SingleToken, OneClaim, ClaimHeld, SweepHolds, DeliveryHolds,
              ApproverHolds, wakerVars, resumeVars, approvalVars
<1>7. OneMessage' /\ OneWalker' /\ ClaimIsExclusive' /\ ParkIsUnowned'
  BY <1>3, <1>4, <1>5, <1>6 DEF OneMessage, OneWalker, ClaimIsExclusive, ParkIsUnowned
<1>8. WalkerViewIsFresh'
  BY <1>1, <1>4 DEF WalkerViewIsFresh, Loading
<1>9. StatusesOK' /\ StaleFits'
  <2>1. NothingStale /\ UNCHANGED rows
    BY <1>5, WorkIsYoung DEF Receive
  <2>2. QED
    BY <1>0, <1>1, <2>1 DEF StatusesOK, StatusOK, StaleFits, NothingStale, Republishing, Young,
                            OthersUnchanged, Loading, AtStep, wakerVars, resumeVars
<1>10. QED
  BY <1>6, <1>7, <1>8, <1>9 DEF Owned, SingleToken
-----------------------------------------------------------------------------
(***************************************************************************)
(* No statement but the clock makes a claim old.                           *)
(***************************************************************************)
LEMMA YoungUpdate ==
    ASSUME rows \in RowTable, Young(rows), NEW s \in Steps, NEW i \in Slots,
           NEW status \in RowStatuses, NEW result \in Resolutions \cup {NoResult, "output"},
           \/ rows' = [rows EXCEPT ![s][i].status = status]
           \/ rows' = [rows EXCEPT ![s][i].status = status, ![s][i].result = result]
           \/ rows' = [rows EXCEPT ![s][i].status = status, ![s][i].due = FALSE]
           \/ rows' = [rows EXCEPT ![s][i].status = status, ![s][i].stale = FALSE]
           \/ rows' = [rows EXCEPT ![s][i].due = TRUE]
           \/ rows' = [rows EXCEPT ![s][i] = [AbsentRow EXCEPT !.status = status]]
    PROVE  Young(rows')
<1> DEFINE row == rows[s][i]
<1>1. row \in StepRow /\ ~row.stale
  BY RowType DEF Young
<1>2. /\ [row EXCEPT !.status = status] \in StepRow
      /\ ~[row EXCEPT !.status = status].stale
      /\ [row EXCEPT !.status = status, !.result = result] \in StepRow
      /\ ~[row EXCEPT !.status = status, !.result = result].stale
      /\ [row EXCEPT !.status = status, !.due = FALSE] \in StepRow
      /\ ~[row EXCEPT !.status = status, !.due = FALSE].stale
      /\ [row EXCEPT !.status = status, !.stale = FALSE] \in StepRow
      /\ ~[row EXCEPT !.status = status, !.stale = FALSE].stale
      /\ [row EXCEPT !.due = TRUE] \in StepRow
      /\ ~[row EXCEPT !.due = TRUE].stale
  <2> HIDE DEF row
  <2>1. QED
    BY <1>1 DEF StepRow
<1>3. /\ [AbsentRow EXCEPT !.status = status] \in StepRow
      /\ ~[AbsentRow EXCEPT !.status = status].stale
  BY DEF AbsentRow, StepRow
<1>4. PICK new \in StepRow : ~new.stale /\ rows' = [rows EXCEPT ![s][i] = new]
  <2>1. CASE rows' = [rows EXCEPT ![s][i].status = status]
    BY <1>2, <2>1
  <2>2. CASE rows' = [rows EXCEPT ![s][i].status = status, ![s][i].result = result]
    <3>1. rows' = [rows EXCEPT ![s][i] = [row EXCEPT !.status = status, !.result = result]]
      BY <2>2 DEF RowTable
    <3>2. QED
      BY <1>2, <3>1
  <2>3. CASE rows' = [rows EXCEPT ![s][i].status = status, ![s][i].due = FALSE]
    <3>1. rows' = [rows EXCEPT ![s][i] = [row EXCEPT !.status = status, !.due = FALSE]]
      BY <2>3 DEF RowTable
    <3>2. QED
      BY <1>2, <3>1
  <2>4. CASE rows' = [rows EXCEPT ![s][i].status = status, ![s][i].stale = FALSE]
    <3>1. rows' = [rows EXCEPT ![s][i] = [row EXCEPT !.status = status, !.stale = FALSE]]
      BY <2>4 DEF RowTable
    <3>2. QED
      BY <1>2, <3>1
  <2>5. CASE rows' = [rows EXCEPT ![s][i].due = TRUE]
    BY <1>2, <2>5
  <2>6. CASE rows' = [rows EXCEPT ![s][i] = [AbsentRow EXCEPT !.status = status]]
    BY <1>3, <2>6
  <2>7. QED
    BY <2>1, <2>2, <2>3, <2>4, <2>5, <2>6
<1>5. QED
  BY <1>4, StaleAfterUpdate DEF Young

LEMMA YoungSetStepRow ==
    ASSUME rows \in RowTable, Young(rows), NEW s \in Steps, NEW status \in RowStatuses,
           NEW result \in Resolutions \cup {NoResult, "output"}, SetStepRow(s, status, result)
    PROVE  Young(rows')
<1>1. PICK i \in Slots :
          rows' = [rows EXCEPT ![s][i].status = status, ![s][i].result = result]
  BY DEF SetStepRow, RowsOf
<1>2. QED
  BY <1>1, YoungUpdate

LEMMA YoungMap ==
    ASSUME rows \in RowTable, Young(rows), NEW status \in RowStatuses,
           NEW result \in Resolutions \cup {NoResult, "output"},
           \/ rows' = [s \in Steps |-> [i \in Slots |->
                 IF rows[s][i].status = "waiting"
                 THEN [rows[s][i] EXCEPT !.status = status] ELSE rows[s][i]]]
           \/ rows' = [s \in Steps |-> [i \in Slots |->
                 IF rows[s][i].status = "waiting"
                 THEN [rows[s][i] EXCEPT !.result = result] ELSE rows[s][i]]]
    PROVE  Young(rows')
<1>1. \A s \in Steps, i \in Slots :
          /\ ~rows[s][i].stale
          /\ ~[rows[s][i] EXCEPT !.status = status].stale
          /\ ~[rows[s][i] EXCEPT !.result = result].stale
  <2> TAKE s \in Steps, i \in Slots
  <2>1. rows[s][i] \in StepRow /\ ~rows[s][i].stale
    BY RowType DEF Young
  <2>2. QED
    BY <2>1 DEF StepRow
<1>2. ASSUME NEW s \in Steps, NEW i \in Slots
      PROVE  ~rows'[s][i].stale
  <2>1. CASE rows' = [t \in Steps |-> [j \in Slots |->
                        IF rows[t][j].status = "waiting"
                        THEN [rows[t][j] EXCEPT !.status = status] ELSE rows[t][j]]]
    <3>1. rows'[s][i] = IF rows[s][i].status = "waiting"
                        THEN [rows[s][i] EXCEPT !.status = status] ELSE rows[s][i]
      BY <2>1
    <3>2. QED
      BY <1>1, <3>1
  <2>2. CASE rows' = [t \in Steps |-> [j \in Slots |->
                        IF rows[t][j].status = "waiting"
                        THEN [rows[t][j] EXCEPT !.result = result] ELSE rows[t][j]]]
    <3>1. rows'[s][i] = IF rows[s][i].status = "waiting"
                        THEN [rows[s][i] EXCEPT !.result = result] ELSE rows[s][i]
      BY <2>2
    <3>2. QED
      BY <1>1, <3>1
  <2>3. QED
    BY <2>1, <2>2
<1>3. QED
  BY <1>2 DEF Young

LEMMA YoungGate ==
    ASSUME rows \in RowTable, Young(rows), NEW s \in Steps,
           NEW result \in Resolutions \cup {NoResult, "output"}, SetGateResult(s, result)
    PROVE  Young(rows')
<1>1. \A i \in Slots : rows[s][i] \in StepRow
  BY RowType
<1>2. \A i \in Slots : ~rows[s][i].stale /\ ~[rows[s][i] EXCEPT !.result = result].stale
  BY <1>1 DEF Young, StepRow
<1>3. QED
  BY <1>2 DEF Young, SetGateResult, RowTable
\* The one old claim, renewed.
LEMMA StaleCleared ==
    ASSUME rows \in RowTable, OneStale, NEW s \in Steps, NEW i \in Slots, rows[s][i].stale,
           rows[s][i].status = "running",
           rows' = [rows EXCEPT ![s][i].stale = FALSE]
    PROVE  Young(rows') /\ ClaimLeft'
<1>1. rows[s][i] \in StepRow
  BY RowType
<1>2. /\ ~[rows[s][i] EXCEPT !.stale = FALSE].stale
      /\ [rows[s][i] EXCEPT !.stale = FALSE].status = "running"
  BY <1>1 DEF StepRow
<1>3. rows' = [rows EXCEPT ![s][i] = [rows[s][i] EXCEPT !.stale = FALSE]]
  OBVIOUS
<1>4. \A t \in Steps, j \in Slots : t # s \/ j # i => ~rows[t][j].stale
  BY DEF OneStale
<1>5. Young(rows')
  BY <1>2, <1>3, <1>4 DEF Young, RowTable
<1>6. rows'[s][i].status = "running"
  BY <1>2, <1>3 DEF RowTable
<1>7. QED
  BY <1>5, <1>6 DEF ClaimLeft

\* A claim gets old among young ones.
LEMMA StaleSet ==
    ASSUME rows \in RowTable, Young(rows), NEW s \in Steps, NEW i \in Slots,
           rows[s][i].status = "running",
           rows' = [rows EXCEPT ![s][i].stale = TRUE]
    PROVE  OneStale'
<1>1. rows[s][i] \in StepRow
  BY RowType
<1>2. /\ [rows[s][i] EXCEPT !.stale = TRUE].stale
      /\ [rows[s][i] EXCEPT !.stale = TRUE].status = "running"
  BY <1>1 DEF StepRow
<1>3. rows' = [rows EXCEPT ![s][i] = [rows[s][i] EXCEPT !.stale = TRUE]]
  OBVIOUS
<1>4. /\ rows'[s][i].stale /\ rows'[s][i].status = "running"
      /\ \A t \in Steps, j \in Slots : t # s \/ j # i => ~rows'[t][j].stale
  BY <1>2, <1>3 DEF Young, RowTable
<1>5. QED
  BY <1>4 DEF OneStale

\* That a timeout falls due makes no claim older or younger.
LEMMA DueKeepsStale ==
    ASSUME rows \in RowTable, NEW s \in Steps, NEW i \in Slots,
           rows' = [rows EXCEPT ![s][i].due = TRUE]
    PROVE  /\ Young(rows) => Young(rows')
           /\ OneStale => OneStale'
           /\ ClaimLeft => ClaimLeft'
<1>1. rows[s][i] \in StepRow
  BY RowType
<1>2. /\ [rows[s][i] EXCEPT !.due = TRUE].stale = rows[s][i].stale
      /\ [rows[s][i] EXCEPT !.due = TRUE].status = rows[s][i].status
  BY <1>1 DEF StepRow
<1>3. rows' = [rows EXCEPT ![s][i] = [rows[s][i] EXCEPT !.due = TRUE]]
  OBVIOUS
<1>4. \A t \in Steps, j \in Slots : /\ rows'[t][j].stale = rows[t][j].stale
                                    /\ rows'[t][j].status = rows[t][j].status
  BY <1>2, <1>3 DEF RowTable
<1>5. QED
  BY <1>4 DEF Young, OneStale, ClaimLeft
-----------------------------------------------------------------------------
(***************************************************************************)
(* The steps of a consumer.                                                *)
(***************************************************************************)
LEMMA StepLabelType ==
    ASSUME NEW s \in Steps
    PROVE  StepLabel(s) \in Labels /\ StepLabel(s) # "skip"
<1>1. StepType[s] \in StepTypes
  BY DefinitionAssumption
<1>2. QED
  BY <1>1 DEF StepTypes, StepLabel, Labels, ExecutorLabels

LEMMA ExecutorMoves ==
    ASSUME TokenInv, NEW c \in Consumers, Walking(c), ExecutorStep(c), UNCHANGED wakerVars
    PROVE  Owned'
<1> DEFINE s == worker[c].step
<1>0. /\ worker \in Workers /\ worker[c] \in WorkerState
      /\ worker[c].pc \in AtStep => s \in Steps
      /\ worker[c].mem \in ExecRow
      /\ exec \in ExecRow
      /\ rows \in RowTable /\ Young(rows)
      /\ StatusOK(worker[c])
  BY WalkedIsYoung
     DEF TokenInv, TypeInv, StoreTypeOK, ConsumersOK, ExecutorTypeOK, Workers, WorkerState, RowTable,
         CursorOK, Owned, StatusesOK
<1>1. ~Acknowledge(c)
  BY DEF Acknowledge, At, Walking
<1>2. CASE DropMessage(c)
  BY <1>0, <1>2, GotoMoves
     DEF DropMessage, At, Walking, storeVars, Young, Labels, ExecutorLabels, AtStep
<1>3. CASE RejectSnapshot(c)
  BY <1>0, <1>3, LoadMoves
     DEF RejectSnapshot, Loaded, At, Walking, storeVars, Labels, ExecutorLabels, AtStep
<1>4. CASE SkipByConditions(c)
  <2> DEFINE m == [exec EXCEPT !.status = "skipped"]
  <2>1. m \in ExecRow /\ m.status = "skipped"
    BY <1>0 DEF ExecRow, Statuses, Terminal
  <2>2. LoadAs(c, m, "skip")
    BY <1>4 DEF SkipByConditions
  <2> HIDE DEF m
  <2>3. QED
    BY <1>0, <1>4, <2>1, <2>2, LoadMoves
       DEF SkipByConditions, Loaded, At, Walking, storeVars, Labels, ExecutorLabels, AtStep
<1>5. CASE SaveSkipped(c)
  BY <1>0, <1>5, SaveMoves
     DEF SaveSkipped, At, Walking, Loading, Labels, ExecutorLabels, AtStep
<1>6. CASE BeginWalk(c)
  <2> DEFINE m == [exec EXCEPT !.status = "running", !.current = StartStep]
  <2>1. StartStep \in Targets
    BY <1>0, DefinitionAssumption DEF ExecRow, StartStep, Targets
  <2>2. m \in ExecRow /\ m.status = "running"
    BY <1>0, <2>1 DEF ExecRow, Statuses
  <2>3. LoadAs(c, m, "enter")
    BY <1>6 DEF BeginWalk
  <2> HIDE DEF m
  <2>4. QED
    BY <1>0, <1>6, <2>2, <2>3, LoadMoves
       DEF BeginWalk, Loaded, At, Walking, storeVars, Labels, ExecutorLabels, AtStep
<1>7. CASE NothingLeftToWalk(c)
  BY <1>0, <1>7, LoadMoves
     DEF NothingLeftToWalk, Loaded, At, Walking, storeVars, Labels, ExecutorLabels, AtStep
<1>8. CASE EnterWalk(c)
  BY <1>0, <1>8, SaveMoves
     DEF EnterWalk, At, Walking, Loading, Labels, ExecutorLabels, AtStep, StatusOK
<1>9. CASE ExceedIterations(c)
  BY <1>0, <1>9, GotoMoves
     DEF ExceedIterations, At, Walking, storeVars, Young, Labels, ExecutorLabels, AtStep, Loading
<1>10. CASE ArriveAtStep(c)
  <2> DEFINE m == [worker[c].mem EXCEPT !.current = s]
             w == [worker[c] EXCEPT !.mem = m, !.snap = m, !.pc = "claim",
                                    !.iterations = @ + 1]
  <2>1. worker[c].pc = "arrive" /\ UNCHANGED <<rows, queue, wakerVars>>
    BY <1>10 DEF ArriveAtStep, At
  <2>2. s \in Steps /\ worker[c].mem.status = "running"
    BY <1>0, <2>1 DEF AtStep, StatusOK
  <2>3. m \in ExecRow /\ m.status = "running"
    BY <1>0, <2>2 DEF ExecRow, Targets
  <2>4. exec' = DirtyFields(exec, worker[c].snap, m)
    BY <1>10 DEF ArriveAtStep
  <2>5. worker[c].snap = exec
    BY <2>1 DEF TokenInv, Owned, WalkerViewIsFresh, Walking
  <2>6. worker' = [worker EXCEPT ![c] = w]
    BY <1>0, <1>10 DEF ArriveAtStep, Workers
  <2> HIDE DEF m
  <2>7. exec' = m
    BY <1>0, <2>3, <2>4, <2>5, FreshSave
  <2>8. w.pc = "claim" /\ w.mem = m /\ w.snap = m
    BY <1>0 DEF WorkerState
  <2> HIDE DEF w
  <2>9. worker'[c] = w /\ OthersUnchanged(c)
    BY <1>0, <2>6 DEF Workers, OthersUnchanged
  <2>10. ViewIsFresh(c)' /\ StatusOK(worker'[c])
    BY <2>3, <2>7, <2>8, <2>9 DEF ViewIsFresh, StatusOK
  <2>11. QED
    BY <1>0, <2>1, <2>3, <2>7, <2>9, <2>10, WalkerMoves DEF Walking, Young
<1>11. CASE ClaimStepRow(c)
  <2>1. worker[c].pc = "claim" /\ s \in Steps
    BY <1>0, <1>11 DEF ClaimStepRow, At, AtStep
  <2>2. Young(rows')
    <3>1. CASE UNCHANGED rows
      BY <1>0, <3>1 DEF Young
    <3>2. CASE \E i \in RowsOf(s) :
                 rows' = [rows EXCEPT ![s][i].status = "running", ![s][i].stale = FALSE]
      <4>1. PICK i \in Slots :
                rows' = [rows EXCEPT ![s][i].status = "running", ![s][i].stale = FALSE]
        BY <3>2 DEF RowsOf
      <4>2. QED
        BY <1>0, <2>1, <4>1, YoungUpdate DEF RowStatuses
    <3>3. QED
      BY <1>11, <3>1, <3>2 DEF ClaimStepRow
  <2>3. PICK label \in {"insert", StepLabel(s)} : Goto(c, label)
    BY <1>11 DEF ClaimStepRow
  <2>4. label \in Labels /\ label # "skip"
    BY <2>1, <2>3, StepLabelType DEF Labels, ExecutorLabels
  <2>5. QED
    BY <1>11, <2>1, <2>2, <2>3, <2>4, GotoMoves
       DEF ClaimStepRow, Walking, Young, Loading, AtStep
<1>12. CASE InsertStepRow(c)
  <2>1. worker[c].pc = "insert" /\ s \in Steps
    BY <1>0, <1>12 DEF InsertStepRow, At, AtStep
  <2>2. Young(rows')
    <3>1. PICK i \in Slots : rows' = [rows EXCEPT ![s][i] = [AbsentRow EXCEPT !.status = "running"]]
      BY <1>12 DEF InsertStepRow
    <3>2. QED
      BY <1>0, <2>1, <3>1, YoungUpdate DEF RowStatuses
  <2>3. StepLabel(s) \in Labels /\ StepLabel(s) # "skip"
    BY <2>1, StepLabelType
  <2>4. QED
    BY <1>12, <2>1, <2>2, <2>3, GotoMoves DEF InsertStepRow, Walking, Young, Loading, AtStep
<1>13. CASE PerformAction(c)
  BY <1>0, <1>13, GotoMoves
     DEF PerformAction, At, Walking, storeVars, Young, Labels, ExecutorLabels, AtStep, Loading
<1>14. CASE RecordSuccess(c)
  <2>1. worker[c].pc = "acted" /\ s \in Steps /\ StepType[s] = "action"
    BY <1>0, <1>14 DEF RecordSuccess, At, AtStep, TokenInv, TypeInv, ConsumersOK, CursorOK
  <2>2. Edge[s]["next"] \in Targets
    BY <2>1, DefinitionAssumption, EdgeTarget DEF HasDeclaredEdges
  <2>3. Young(rows')
    BY <1>0, <1>14, <2>1, YoungSetStepRow DEF RecordSuccess, RowStatuses
  <2>4. QED
    BY <1>14, <2>1, <2>2, <2>3, ContinueMoves DEF RecordSuccess, Young, AtStep
<1>15. CASE ActionToRetry(c)
  <2>1. worker[c].pc = "act" /\ s \in Steps /\ worker[c].topic \in Topics
    BY <1>0, <1>15 DEF ActionToRetry, At, AtStep, WorkerState
  <2>2. Young(rows')
    <3>1. PICK i \in Slots : rows' = [rows EXCEPT ![s][i].status = "pending"]
      BY <1>15 DEF ActionToRetry, RowsOf
    <3>2. QED
      BY <1>0, <2>1, <3>1, YoungUpdate DEF RowStatuses
  <2>3. QED
    BY <1>15, <2>1, <2>2, ConsumerStops DEF ActionToRetry, Walking, Young
<1>16. CASE ActionFails(c)
  <2>1. worker[c].pc = "act" /\ s \in Steps
    BY <1>0, <1>16 DEF ActionFails, At, AtStep
  <2>2. Young(rows')
    BY <1>0, <1>16, <2>1, YoungSetStepRow DEF ActionFails, RowStatuses
  <2>3. QED
    BY <1>16, <2>1, <2>2, GotoMoves
       DEF ActionFails, Walking, Young, Labels, ExecutorLabels, AtStep, Loading
<1>17. CASE FollowEdge(c)
  <2>1. worker[c].pc = "route" /\ s \in Steps
    BY <1>0, <1>17 DEF FollowEdge, At, AtStep
  <2>2. Young(rows')
    BY <1>0, <1>17, <2>1, YoungSetStepRow DEF FollowEdge, RowStatuses
  <2>3. PICK next \in Successors(s) : Continue(c, next)
    BY <1>17 DEF FollowEdge
  <2>4. next \in Targets
    BY <2>1, <2>3, EdgeTarget DEF Successors
  <2>5. QED
    BY <1>17, <2>1, <2>2, <2>3, <2>4, ContinueMoves DEF FollowEdge, Young, AtStep
<1>18. CASE ReachStop(c)
  <2>1. worker[c].pc = "stop" /\ s \in Steps
    BY <1>0, <1>18 DEF ReachStop, At, AtStep
  <2>2. Young(rows')
    <3>1. PICK i \in Slots : rows' = [rows EXCEPT ![s][i].status = "complete"]
      BY <1>18 DEF ReachStop, RowsOf
    <3>2. QED
      BY <1>0, <2>1, <3>1, YoungUpdate DEF RowStatuses
  <2>3. QED
    BY <1>18, <2>1, <2>2, GotoMoves
       DEF ReachStop, Walking, Young, Labels, ExecutorLabels, AtStep, Loading
<1>19. CASE OpenGate(c)
  BY <1>0, <1>19, GotoMoves
     DEF OpenGate, At, Walking, Young, Labels, ExecutorLabels, AtStep, Loading
<1>20. CASE GateWithoutModule(c)
  <2>1. worker[c].pc = "gate" /\ s \in Steps
    BY <1>0, <1>20 DEF GateWithoutModule, At, AtStep
  <2>2. Young(rows')
    BY <1>0, <1>20, <2>1, YoungSetStepRow DEF GateWithoutModule, RowStatuses
  <2>3. QED
    BY <1>20, <2>1, <2>2, GotoMoves
       DEF GateWithoutModule, Walking, Young, Labels, ExecutorLabels, AtStep, Loading
<1>21. CASE ParkStepRow(c)
  <2>1. worker[c].pc = "park_row" /\ s \in Steps
    BY <1>0, <1>21 DEF ParkStepRow, At, AtStep
  <2>2. Young(rows')
    <3>1. PICK i \in Slots :
              rows' = [rows EXCEPT ![s][i].status = "waiting", ![s][i].due = FALSE]
      BY <1>21 DEF ParkStepRow, RowsOf
    <3>2. QED
      BY <1>0, <2>1, <3>1, YoungUpdate DEF RowStatuses
  <2>3. QED
    BY <1>21, <2>1, <2>2, GotoMoves
       DEF ParkStepRow, Walking, Young, Labels, ExecutorLabels, AtStep, Loading
<1>22. CASE ParkExecution(c)
  <2>1. worker[c].pc = "park_exec" /\ s \in Steps
    BY <1>0, <1>22 DEF ParkExecution, At, AtStep
  <2>2. ParkedAs(s, worker[c].mem) \in ExecRow
    BY <1>0, <2>1, ParkedType
  <2>3. QED
    BY <1>22, <2>1, <2>2, SaveMoves
       DEF ParkExecution, Walking, Loading, Labels, ExecutorLabels, AtStep
<1>23. CASE CompleteExecution(c)
  <2> DEFINE m == [worker[c].mem EXCEPT !.status = "complete", !.current = NoStep]
  <2>1. m \in ExecRow
    BY <1>0 DEF ExecRow, Statuses, Terminal, Targets
  <2>2. SaveAs(c, m, "ack") /\ At(c, "complete") /\ UNCHANGED <<rows, queue>>
    BY <1>23 DEF CompleteExecution
  <2> HIDE DEF m
  <2>3. QED
    BY <2>1, <2>2, SaveMoves DEF At, Walking, Loading, Labels, ExecutorLabels, AtStep
<1>24. CASE FailExecution(c)
  <2> DEFINE m == [worker[c].mem EXCEPT !.status = "failed"]
             label == IF ApprovalsInstalled THEN "orphan" ELSE "ack"
  <2>1. m \in ExecRow /\ m.status = "failed"
    BY <1>0 DEF ExecRow, Statuses, Terminal
  <2>2. label \in Labels /\ label \notin AtStep /\ label # "skip"
    BY DEF Labels, ExecutorLabels, AtStep
  <2>3. SaveAs(c, m, label) /\ At(c, "fail") /\ UNCHANGED <<rows, queue>>
    BY <1>24 DEF FailExecution
  <2> HIDE DEF m, label
  <2>4. QED
    BY <2>1, <2>2, <2>3, SaveMoves DEF At, Walking, Loading
<1>25. CASE OrphanOpenTasks(c)
  BY <1>0, <1>25, GotoMoves
     DEF OrphanOpenTasks, At, Walking, Young, Labels, ExecutorLabels, AtStep, Loading
<1>26. QED
  BY <1>1, <1>2, <1>3, <1>4, <1>5, <1>6, <1>7, <1>8, <1>9, <1>10, <1>11, <1>12, <1>13,
     <1>14, <1>15, <1>16, <1>17, <1>18, <1>19, <1>20, <1>21, <1>22, <1>23, <1>24, <1>25
     DEF ExecutorStep

LEMMA AcknowledgeMoves ==
    ASSUME TokenInv, NEW c \in Consumers, Acknowledge(c), UNCHANGED wakerVars
    PROVE  Owned'
BY ConsumerStops DEF Acknowledge, storeVars, At, Walking

\* A consumer that is not walking has only its message to acknowledge.
LEMMA OnlyAcknowledges ==
    ASSUME NEW c \in Consumers, ExecutorStep(c), ~Walking(c)
    PROVE  Acknowledge(c)
<1>1. worker[c].pc \in {"idle", "ack"}
  BY DEF Walking
<1>2. ~(DropMessage(c) \/ RejectSnapshot(c) \/ SkipByConditions(c) \/ SaveSkipped(c))
  BY <1>1 DEF DropMessage, RejectSnapshot, SkipByConditions, SaveSkipped, Loaded, At
<1>3. ~(BeginWalk(c) \/ NothingLeftToWalk(c) \/ EnterWalk(c))
  BY <1>1 DEF BeginWalk, NothingLeftToWalk, EnterWalk, Loaded, At
<1>4. ~(ExceedIterations(c) \/ ArriveAtStep(c) \/ ClaimStepRow(c) \/ InsertStepRow(c))
  BY <1>1 DEF ExceedIterations, ArriveAtStep, ClaimStepRow, InsertStepRow, At
<1>5. ~(PerformAction(c) \/ RecordSuccess(c) \/ ActionToRetry(c) \/ ActionFails(c))
  BY <1>1 DEF PerformAction, RecordSuccess, ActionToRetry, ActionFails, At
<1>6. ~(FollowEdge(c) \/ ReachStop(c))
  BY <1>1 DEF FollowEdge, ReachStop, At
<1>7. ~(OpenGate(c) \/ GateWithoutModule(c) \/ ParkStepRow(c) \/ ParkExecution(c))
  BY <1>1 DEF OpenGate, GateWithoutModule, ParkStepRow, ParkExecution, At
<1>8. ~(CompleteExecution(c) \/ FailExecution(c) \/ OrphanOpenTasks(c))
  BY <1>1 DEF CompleteExecution, FailExecution, OrphanOpenTasks, At
<1>9. QED
  BY <1>2, <1>3, <1>4, <1>5, <1>6, <1>7, <1>8 DEF ExecutorStep

LEMMA ResumeMoves ==
    ASSUME TokenInv, NEW c \in Consumers, ResumeStep(c), UNCHANGED wakerVars
    PROVE  Owned'
<1>0. /\ worker \in Workers /\ worker[c] \in WorkerState
      /\ worker[c].mem \in ExecRow
      /\ worker[c].parked \in ParkedState
      /\ exec \in ExecRow
      /\ rows \in RowTable /\ Young(rows)
  <2>1. Walking(c)
    BY DEF ResumeStep, DropResume, LoadParked, FetchParked, CloseParkedRows, ExpireGate, MarkRunning,
           At, Walking
  <2>2. QED
    BY <2>1, WalkedIsYoung
       DEF TokenInv, TypeInv, StoreTypeOK, ConsumersOK, ExecutorTypeOK, Workers, WorkerState,
           RowTable, ParkedState, Owned
\* A step between loading the row and saving it.
<1>a. ASSUME worker[c].pc \notin Loading, Walking(c), UNCHANGED <<exec, queue>>, Young(rows'),
             NEW label \in {"close", "expire", "mark_running"}, NEW w,
             w.pc = label, w.snap = worker[c].snap,
             worker' = [worker EXCEPT ![c] = w]
      PROVE  Owned'
  <2>1. worker'[c] = w /\ OthersUnchanged(c)
    BY <1>0, <1>a DEF Workers, OthersUnchanged
  <2>2. ViewIsFresh(c)'
    BY <1>a, <2>1 DEF TokenInv, Owned, WalkerViewIsFresh, ViewIsFresh, Walking, Loading
  <2>3. StatusOK(worker'[c])
    BY <1>a, <2>1 DEF StatusOK, AtStep
  <2>4. QED
    BY <1>a, <2>1, <2>2, <2>3, WalkerMoves, WalkedIsNotParked DEF Young
<1>1. CASE DropResume(c)
  BY <1>0, <1>1, GotoMoves
     DEF DropResume, At, Walking, storeVars, Young, Labels, ExecutorLabels, AtStep
<1>2. CASE LoadParked(c)
  BY <1>0, <1>2, LoadMoves
     DEF LoadParked, At, Walking, storeVars, Labels, ResumeLabels, AtStep
<1>3. CASE FetchParked(c)
  <2>1. PICK parked :
            \/ worker' = [worker EXCEPT ![c].parked = parked, ![c].pc = "close"]
            \/ worker' = [worker EXCEPT ![c].pc = "close", ![c].parked = parked]
    BY <1>3 DEF FetchParked
  <2>2. /\ [worker[c] EXCEPT !.parked = parked, !.pc = "close"].pc = "close"
        /\ [worker[c] EXCEPT !.parked = parked, !.pc = "close"].snap = worker[c].snap
        /\ [worker[c] EXCEPT !.pc = "close", !.parked = parked].pc = "close"
        /\ [worker[c] EXCEPT !.pc = "close", !.parked = parked].snap = worker[c].snap
    BY <1>0 DEF WorkerState
  <2>3. PICK w : /\ w.pc = "close" /\ w.snap = worker[c].snap
                 /\ worker' = [worker EXCEPT ![c] = w]
    <3>1. CASE worker' = [worker EXCEPT ![c].parked = parked, ![c].pc = "close"]
      BY <2>2, <3>1
    <3>2. CASE worker' = [worker EXCEPT ![c].pc = "close", ![c].parked = parked]
      BY <2>2, <3>2
    <3>3. QED
      BY <2>1, <3>1, <3>2
  <2>4. worker[c].pc = "fetch" /\ UNCHANGED <<exec, rows, queue>>
    BY <1>3 DEF FetchParked, At, storeVars
  <2>5. QED
    BY <1>0, <1>a, <2>3, <2>4 DEF Walking, Loading, Young
<1>4. CASE CloseParkedRows(c)
  <2> DEFINE parked == worker[c].parked
             label == IF ApprovalsInstalled /\ IsGate(parked.step) /\ parked.result \notin Verdicts
                      THEN "expire" ELSE "mark_running"
             m == Routed(parked, worker[c].mem)
             w == [worker[c] EXCEPT !.mem = m, !.pc = label]
  <2>1. worker[c].pc = "close" /\ UNCHANGED <<exec, queue>>
    BY <1>4 DEF CloseParkedRows, At
  <2>2. Young(rows')
    BY <1>0, <1>4, YoungMap DEF CloseParkedRows, RowStatuses
  <2>3. worker' = [worker EXCEPT ![c].mem = m, ![c].pc = label]
    BY <1>4 DEF CloseParkedRows
  <2>4. label \in {"expire", "mark_running"}
    OBVIOUS
  <2> HIDE DEF label, m
  <2>5. worker' = [worker EXCEPT ![c] = w]
    BY <2>3
  <2>6. w.pc = label /\ w.snap = worker[c].snap
    BY <1>0 DEF WorkerState
  <2> HIDE DEF w
  <2>7. QED
    BY <1>a, <2>1, <2>2, <2>4, <2>5, <2>6 DEF Walking, Loading
<1>5. CASE ExpireGate(c)
  BY <1>0, <1>5, GotoMoves
     DEF ExpireGate, At, Walking, Young, Labels, ResumeLabels, AtStep, Loading
<1>6. CASE MarkRunning(c)
  <2> DEFINE m == [worker[c].mem EXCEPT !.status = "running"]
  <2>1. m \in ExecRow /\ m.status = "running"
    BY <1>0 DEF ExecRow, Statuses
  <2>2. SaveAs(c, m, "load") /\ At(c, "mark_running") /\ UNCHANGED <<rows, queue>>
    BY <1>6 DEF MarkRunning
  <2> HIDE DEF m
  <2>3. QED
    BY <2>1, <2>2, SaveMoves DEF At, Walking, Loading, Labels, ExecutorLabels, AtStep
<1>7. QED
  BY <1>1, <1>2, <1>3, <1>4, <1>5, <1>6 DEF ResumeStep
-----------------------------------------------------------------------------
(***************************************************************************)
(* The steps of the wakers.  Each is a claim, a publish, a rollback, or    *)
(* changes nothing the ownership depends on.                               *)
(***************************************************************************)
\* No waker gets a claim; the others keep theirs.
NoNewHolder ==
    /\ SweepHolds' => SweepHolds
    /\ \A d \in Deliveries : DeliveryHolds(d)' => DeliveryHolds(d)
    /\ \A a \in Approvers : ApproverHolds(a)' => ApproverHolds(a)

LEMMA WakerKeeps ==
    ASSUME TokenInv, NoNewHolder, UNCHANGED <<exec, queue, executorVars>>, StaleFits'
    PROVE  Owned'
<1>1. SingleToken /\ WalkerViewIsFresh /\ StatusesOK
  BY DEF TokenInv, Owned
<1>2. (ClaimHeld' => ClaimHeld) /\ OneClaim'
  BY <1>1 DEF NoNewHolder, SingleToken, OneClaim, ClaimHeld
<1>3. Idle' = Idle /\ Messages' = Messages
  BY DEF Idle, Messages, Walking, executorVars
<1>4. OneMessage' /\ OneWalker'
  BY <1>1, <1>3 DEF SingleToken, OneMessage, OneWalker, Walking, executorVars
<1>5. ClaimIsExclusive' /\ ParkIsUnowned'
  BY <1>1, <1>2, <1>3 DEF SingleToken, ClaimIsExclusive, ParkIsUnowned
<1>6. WalkerViewIsFresh' /\ StatusesOK'
  BY <1>1 DEF WalkerViewIsFresh, StatusesOK, StatusOK, Walking, executorVars
<1>7. QED
  BY <1>2, <1>4, <1>5, <1>6 DEF Owned, SingleToken

\* One waker gets the claim of a parked execution.
LEMMA WakerClaims ==
    ASSUME TokenInv, ClaimWaiting, UNCHANGED <<queue, executorVars>>, StaleFits', OneClaim'
    PROVE  Owned'
<1>0. exec \in ExecRow
  BY DEF TokenInv, TypeInv, StoreTypeOK
<1>1. SingleToken /\ WalkerViewIsFresh /\ StatusesOK
  BY DEF TokenInv, Owned
<1>2. Idle /\ exec'.status = "pending"
  BY <1>0, <1>1 DEF ClaimWaiting, SingleToken, ParkIsUnowned, ExecRow
<1>3. Idle' = Idle /\ Messages' = Messages
  BY DEF Idle, Messages, Walking, executorVars
<1>4. OneMessage' /\ OneWalker'
  BY <1>1, <1>3 DEF SingleToken, OneMessage, OneWalker, Walking, executorVars
<1>5. ClaimIsExclusive' /\ ParkIsUnowned'
  BY <1>2, <1>3 DEF ClaimIsExclusive, ParkIsUnowned
<1>6. WalkerViewIsFresh' /\ StatusesOK'
  BY <1>1, <1>2, <1>3 DEF WalkerViewIsFresh, StatusesOK, StatusOK, Idle, executorVars
<1>7. QED
  BY <1>4, <1>5, <1>6 DEF Owned, SingleToken

\* The holder turns its claim into a message, or the sweep gives one to a zombie.
LEMMA WakerPublishes ==
    ASSUME TokenInv, Idle, exec.status # "waiting", ~ClaimHeld', NEW topic \in Topics, Publish(topic),
           UNCHANGED <<exec, executorVars>>, StaleFits'
    PROVE  Owned'
<1>0. queue \in [Topics -> Nat]
  BY DEF TokenInv, TypeInv, StoreTypeOK
<1>1. SingleToken /\ WalkerViewIsFresh /\ StatusesOK
  BY DEF TokenInv, Owned
<1>3. Messages' = 1 /\ \A c \in Consumers : ~Walking(c)'
  BY <1>0, PublishCounts DEF Idle, Messages, Walking, executorVars
<1>4. OneMessage' /\ OneWalker'
  BY <1>3 DEF OneMessage, OneWalker
<1>5. OneClaim' /\ ClaimIsExclusive' /\ ParkIsUnowned'
  BY DEF OneClaim, ClaimIsExclusive, ParkIsUnowned, ClaimHeld
<1>6. WalkerViewIsFresh' /\ StatusesOK'
  BY <1>1, <1>3 DEF WalkerViewIsFresh, StatusesOK, StatusOK, executorVars
<1>7. QED
  BY <1>4, <1>5, <1>6 DEF Owned, SingleToken

\* The holder gives its claim up, and the execution back to the park.
LEMMA WakerRollsBack ==
    ASSUME TokenInv, ClaimHeld, ~ClaimHeld', RollbackClaim, UNCHANGED <<queue, executorVars>>,
           StaleFits'
    PROVE  Owned'
<1>1. SingleToken /\ WalkerViewIsFresh /\ StatusesOK
  BY DEF TokenInv, Owned
<1>2. Idle
  BY <1>1 DEF SingleToken, ClaimIsExclusive
<1>3. Idle' = Idle /\ Messages' = Messages
  BY DEF Idle, Messages, Walking, executorVars
<1>4. OneMessage' /\ OneWalker'
  BY <1>1, <1>3 DEF SingleToken, OneMessage, OneWalker, Walking, executorVars
<1>5. OneClaim' /\ ClaimIsExclusive' /\ ParkIsUnowned'
  BY <1>2, <1>3 DEF OneClaim, ClaimIsExclusive, ParkIsUnowned, ClaimHeld
<1>6. WalkerViewIsFresh' /\ StatusesOK'
  BY <1>1, <1>2, <1>3 DEF WalkerViewIsFresh, StatusesOK, StatusOK, Idle, executorVars
<1>7. QED
  BY <1>4, <1>5, <1>6 DEF Owned, SingleToken

\* A claim is held of a pending execution nobody else works on.
LEMMA HeldIsPending ==
    ASSUME TokenInv, ClaimHeld
    PROVE  Idle /\ exec.status = "pending" /\ NothingStale
<1>1. Idle /\ exec.status = "pending"
  BY DEF TokenInv, Owned, SingleToken, ClaimIsExclusive
<1>2. QED
  BY <1>1, WorkIsYoung

LEMMA SweeperMoves ==
    ASSUME TokenInv, SweeperStep, UNCHANGED approvalVars
    PROVE  Owned'
<1>0. /\ SingleToken /\ StaleFits
      /\ sweeper \in SweeperState
      /\ rows \in RowTable
      /\ Topics = {"execute", "resume"}
      /\ IdleSweep.pc = "idle"
  BY DEF TokenInv, Owned, TypeInv, StoreTypeOK, RowTable, WakersOK, ResumeTypeOK, Topics, IdleSweep
<1>1. ASSUME NothingStale, UNCHANGED rows, sweeper'.pc # "republish"
      PROVE  StaleFits'
  BY <1>1 DEF StaleFits, NothingStale, Republishing, Young
<1>2. \A a \in Approvers : ApproverHolds(a)' = ApproverHolds(a)
  BY DEF ApproverHolds, approvalVars
<1>3. ASSUME SweepHolds PROVE /\ ClaimHeld
                              /\ \A d \in Deliveries : ~DeliveryHolds(d)
                              /\ \A a \in Approvers : ~ApproverHolds(a)
  BY <1>0, <1>3 DEF ClaimHeld, SingleToken, OneClaim
<1>4. UNCHANGED delivery /\ \A d \in Deliveries : DeliveryHolds(d)' = DeliveryHolds(d)
  BY DEF SweeperStep, SelectDue, ClaimDue, PublishDue, RollbackDue, SelectZombie, ReclaimZombie,
         RepublishZombie, DeliveryHolds
<1>5. ASSUME SweepHolds' => SweepHolds PROVE NoNewHolder
  BY <1>2, <1>4, <1>5 DEF NoNewHolder
<1>6. ASSUME UNCHANGED <<exec, rows, queue, executorVars>>,
             sweeper.pc # "republish", sweeper'.pc # "republish"
      PROVE  StaleFits'
  BY <1>6, StaleKept DEF Republishing, Idle, Walking, executorVars
<1>7. CASE SelectDue \/ SelectZombie
  <2>1. /\ sweeper.pc = "idle" /\ sweeper'.pc \in {"claim", "reclaim"}
        /\ UNCHANGED <<exec, rows, queue, executorVars>>
    BY <1>0, <1>7 DEF SelectDue, SelectZombie, SweeperState, storeVars
  <2>2. QED
    BY <1>5, <1>6, <2>1, WakerKeeps DEF SweepHolds
<1>8. CASE ClaimDue
  <2>0. sweeper.pc = "claim" /\ UNCHANGED <<rows, queue, executorVars>>
    BY <1>8 DEF ClaimDue
  <2>1. CASE ClaimWaiting /\ sweeper' = [sweeper EXCEPT !.pc = "publish"]
    <3>1. sweeper'.pc = "publish"
      BY <1>0, <2>1 DEF SweeperState
    <3>2. ~ClaimHeld /\ NothingStale
      BY <1>0, <2>1, WorkIsYoung DEF SingleToken, ParkIsUnowned, ClaimWaiting
    <3>3. OneClaim'
      BY <1>2, <1>4, <3>2 DEF OneClaim, ClaimHeld
    <3>4. QED
      BY <1>1, <2>0, <2>1, <3>1, <3>2, <3>3, WakerClaims
  <2>2. CASE sweeper' = IdleSweep /\ UNCHANGED exec
    BY <1>0, <1>5, <1>6, <2>0, <2>2, WakerKeeps DEF SweepHolds
  <2>3. QED
    BY <1>8, <2>1, <2>2 DEF ClaimDue
<1>9. CASE PublishDue
  <2>0. SweepHolds /\ UNCHANGED <<exec, rows, executorVars>>
    BY <1>9 DEF PublishDue, SweepHolds
  <2>1. Idle /\ exec.status = "pending" /\ NothingStale
    BY <1>3, <2>0, HeldIsPending
  <2>2. CASE Publish("resume") /\ sweeper' = IdleSweep
    <3>1. ~ClaimHeld'
      BY <1>0, <1>2, <1>3, <1>4, <2>0, <2>2 DEF ClaimHeld, SweepHolds
    <3>2. QED
      BY <1>0, <1>1, <2>0, <2>1, <2>2, <3>1, WakerPublishes
  <2>3. CASE sweeper' = [sweeper EXCEPT !.pc = "rollback"] /\ UNCHANGED queue
    <3>1. sweeper'.pc = "rollback"
      BY <1>0, <2>3 DEF SweeperState
    <3>2. QED
      BY <1>1, <1>5, <2>0, <2>1, <2>3, <3>1, WakerKeeps
  <2>4. QED
    BY <1>9, <2>2, <2>3 DEF PublishDue
<1>10. CASE RollbackDue
  <2>0. SweepHolds /\ sweeper' = IdleSweep /\ UNCHANGED <<rows, queue, executorVars>>
    BY <1>10 DEF RollbackDue, SweepHolds
  <2>1. ~ClaimHeld'
    BY <1>0, <1>2, <1>3, <1>4, <2>0 DEF ClaimHeld, SweepHolds
  <2>2. QED
    BY <1>0, <1>1, <1>3, <1>10, <2>0, <2>1, HeldIsPending, WakerRollsBack DEF RollbackDue
<1>11. CASE ReclaimZombie
  <2> DEFINE p == sweeper.row
  <2>0. sweeper.pc = "reclaim" /\ p[1] \in Steps /\ p[2] \in Slots
        /\ UNCHANGED <<exec, queue, executorVars>>
    BY <1>11 DEF ReclaimZombie, TokenInv, TypeInv, WakersOK
  <2>1. CASE /\ IsZombie(p)
             /\ rows' = [rows EXCEPT ![p[1]][p[2]].stale = FALSE]
             /\ sweeper' = [pc |-> "republish", row |-> NoRow]
    <3>1. ~NothingStale
      BY <2>0, <2>1 DEF IsZombie, NothingStale, Young
    <3>2. /\ "claim_ages" \in FaultKinds /\ Idle
          /\ exec.status \notin {"pending", "waiting"} /\ OneStale
      BY <1>0, <2>0, <3>1 DEF StaleFits, Stranded, Republishing
    <3>3. Young(rows') /\ ClaimLeft'
      BY <1>0, <2>0, <2>1, <3>2, StaleCleared DEF IsZombie
    <3>4. Idle'
      BY <2>0, <3>2 DEF Idle, Walking, executorVars
    <3>5. StaleFits'
      BY <2>0, <2>1, <3>2, <3>3, <3>4 DEF StaleFits, Stranded, Republishing, Young
    <3>6. QED
      BY <1>5, <2>0, <2>1, <3>5, WakerKeeps DEF SweepHolds
  <2>2. CASE sweeper' = IdleSweep /\ UNCHANGED rows
    BY <1>0, <1>5, <1>6, <2>0, <2>2, WakerKeeps DEF SweepHolds
  <2>3. QED
    BY <1>11, <2>1, <2>2 DEF ReclaimZombie
<1>12. CASE RepublishZombie
  <2>0. /\ sweeper.pc = "republish" /\ sweeper' = IdleSweep
        /\ UNCHANGED <<exec, rows, executorVars>>
    BY <1>12 DEF RepublishZombie
  <2>1. Idle /\ exec.status \notin {"pending", "waiting"} /\ Young(rows)
    BY <1>0, <2>0 DEF StaleFits, NothingStale, Stranded, Republishing
  <2>2. StaleFits'
    BY <1>0, <2>0, <2>1 DEF StaleFits, NothingStale, Republishing, Young
  <2>3. ~ClaimHeld /\ ~SweepHolds'
    BY <1>0, <2>0, <2>1, HeldIsPending DEF SweepHolds
  <2>4. CASE Publish("execute")
    <3>1. ~ClaimHeld'
      BY <1>2, <1>4, <2>3 DEF ClaimHeld
    <3>2. QED
      BY <1>0, <2>0, <2>1, <2>2, <2>4, <3>1, WakerPublishes
  <2>5. CASE UNCHANGED queue
    BY <1>5, <2>0, <2>2, <2>3, <2>5, WakerKeeps
  <2>6. QED
    BY <1>12, <2>4, <2>5 DEF RepublishZombie
<1>13. QED
  BY <1>7, <1>8, <1>9, <1>10, <1>11, <1>12 DEF SweeperStep

LEMMA DeliveryMoves ==
    ASSUME TokenInv, NEW d \in Deliveries, DeliveryStep(d), UNCHANGED approvalVars
    PROVE  Owned'
<1>0. /\ SingleToken
      /\ delivery \in [Deliveries -> DeliveryState]
      /\ delivery[d] \in DeliveryState
      /\ rows \in RowTable
      /\ "resume" \in Topics
      /\ IdleDelivery.pc = "idle"
  BY DEF TokenInv, Owned, TypeInv, StoreTypeOK, RowTable, WakersOK, ResumeTypeOK, Topics,
         IdleDelivery
<1>1. /\ UNCHANGED <<executorVars, sweeper>>
      /\ \A e \in Deliveries \ {d} : delivery'[e] = delivery[e]
  BY <1>0 DEF DeliveryStep, SelectParkedOn, ClaimForEvent, WriteResolution, PublishEvent, RollbackEvent
<1>2. /\ SweepHolds' = SweepHolds
      /\ \A a \in Approvers : ApproverHolds(a)' = ApproverHolds(a)
      /\ \A e \in Deliveries \ {d} : DeliveryHolds(e)' = DeliveryHolds(e)
  BY <1>1 DEF SweepHolds, ApproverHolds, DeliveryHolds, approvalVars
<1>3. ASSUME exec.status \in {"pending", "waiting"}, Young(rows) => Young(rows') PROVE StaleFits'
  BY <1>1, <1>3, WorkIsYoung DEF StaleFits, NothingStale, Republishing, Young
<1>a. ASSUME UNCHANGED <<exec, rows, queue>> PROVE StaleFits'
  BY <1>1, <1>a, StaleKept DEF Republishing, Idle, Walking, executorVars
<1>b. ASSUME DeliveryHolds(d) PROVE Idle /\ exec.status = "pending" /\ Young(rows)
  BY <1>b, HeldIsPending DEF ClaimHeld, NothingStale
<1>4. ASSUME DeliveryHolds(d), ~DeliveryHolds(d)' PROVE ClaimHeld /\ ~ClaimHeld'
  BY <1>0, <1>2, <1>4 DEF ClaimHeld, SingleToken, OneClaim
<1>5. ASSUME DeliveryHolds(d)' => DeliveryHolds(d) PROVE NoNewHolder
  BY <1>2, <1>5 DEF NoNewHolder
<1>6. CASE SelectParkedOn(d)
  <2>1. delivery'[d].pc = "claim" /\ UNCHANGED <<exec, rows, queue>>
    BY <1>0, <1>6 DEF SelectParkedOn, storeVars
  <2>2. QED
    BY <1>1, <1>5, <1>a, <2>1, WakerKeeps DEF DeliveryHolds
<1>7. CASE ClaimForEvent(d)
  <2>0. UNCHANGED <<rows, queue>>
    BY <1>7 DEF ClaimForEvent
  <2>1. CASE ClaimWaiting
    <3>1. ~ClaimHeld
      BY <1>0, <2>1 DEF SingleToken, ParkIsUnowned, ClaimWaiting
    <3>2. OneClaim'
      BY <1>2, <3>1 DEF OneClaim, ClaimHeld
    <3>3. QED
      BY <1>1, <1>3, <2>0, <2>1, <3>2, WakerClaims DEF ClaimWaiting, Young
  <2>2. CASE delivery' = [delivery EXCEPT ![d] = IdleDelivery] /\ UNCHANGED exec
    BY <1>0, <1>1, <1>5, <1>a, <2>0, <2>2, WakerKeeps DEF DeliveryHolds
  <2>3. QED
    BY <1>7, <2>1, <2>2 DEF ClaimForEvent
<1>8. CASE WriteResolution(d)
  <2>1. DeliveryHolds(d) /\ UNCHANGED <<exec, queue>>
    BY <1>8 DEF WriteResolution, DeliveryHolds
  <2>2. Young(rows')
    BY <1>0, <1>8, <1>b, <2>1, YoungMap DEF WriteResolution, Resolutions, RowStatuses
  <2>3. QED
    BY <1>1, <1>3, <1>5, <1>b, <2>1, <2>2, WakerKeeps
<1>9. CASE PublishEvent(d)
  <2>0. DeliveryHolds(d) /\ UNCHANGED <<exec, rows>>
    BY <1>9 DEF PublishEvent, DeliveryHolds
  <2>1. CASE Publish("resume") /\ delivery' = [delivery EXCEPT ![d] = IdleDelivery]
    <3>1. ~DeliveryHolds(d)'
      BY <1>0, <2>1 DEF DeliveryHolds
    <3>2. QED
      BY <1>0, <1>1, <1>3, <1>4, <1>b, <2>0, <2>1, <3>1, WakerPublishes DEF Young
  <2>2. CASE UNCHANGED queue
    BY <1>1, <1>5, <1>a, <2>0, <2>2, WakerKeeps
  <2>3. QED
    BY <1>9, <2>1, <2>2 DEF PublishEvent
<1>10. CASE RollbackEvent(d)
  <2>1. DeliveryHolds(d) /\ RollbackClaim /\ UNCHANGED <<rows, queue>>
    BY <1>10 DEF RollbackEvent, DeliveryHolds
  <2>2. ~DeliveryHolds(d)'
    BY <1>0, <1>10 DEF RollbackEvent, DeliveryHolds
  <2>3. QED
    BY <1>1, <1>3, <1>4, <1>b, <2>1, <2>2, WakerRollsBack DEF Young
<1>11. QED
  BY <1>6, <1>7, <1>8, <1>9, <1>10 DEF DeliveryStep

LEMMA ApproverMoves ==
    ASSUME TokenInv, NEW a \in Approvers, ApproverStep(a)
    PROVE  Owned'
<1>0. /\ SingleToken
      /\ approver \in [Approvers -> ApproverState]
      /\ approver[a] \in ApproverState
      /\ approver[a].pc # "idle" => approver[a].gate \in Steps
      /\ approver[a].verdict \in Resolutions
      /\ rows \in RowTable
      /\ "resume" \in Topics
      /\ IdleApprover.pc = "idle"
  BY DEF TokenInv, Owned, TypeInv, StoreTypeOK, RowTable, WakersOK, ApprovalTypeOK,
         ApproverState, Topics, IdleApprover, Verdicts, Resolutions
<1>1. /\ UNCHANGED <<executorVars, resumeVars>>
      /\ \A b \in Approvers \ {a} : approver'[b] = approver[b]
  BY <1>0 DEF ApproverStep, ClaimTask, ClaimGate, WriteVerdict, PublishVerdict, ClearVerdict,
              RollbackGate, ReopenTask, ApproverGoto, ApproverDone
<1>2. /\ SweepHolds' = SweepHolds
      /\ \A d \in Deliveries : DeliveryHolds(d)' = DeliveryHolds(d)
      /\ \A b \in Approvers \ {a} : ApproverHolds(b)' = ApproverHolds(b)
  BY <1>1 DEF SweepHolds, ApproverHolds, DeliveryHolds, resumeVars
<1>3. ASSUME exec.status \in {"pending", "waiting"}, Young(rows) => Young(rows') PROVE StaleFits'
  BY <1>1, <1>3, WorkIsYoung DEF StaleFits, NothingStale, Republishing, Young, resumeVars
<1>a. ASSUME UNCHANGED <<exec, rows, queue>> PROVE StaleFits'
  BY <1>1, <1>a, StaleKept DEF Republishing, Idle, Walking, executorVars, resumeVars
<1>b. ASSUME ApproverHolds(a) PROVE Idle /\ exec.status = "pending" /\ Young(rows)
  BY <1>b, HeldIsPending DEF ClaimHeld, NothingStale
<1>4. ASSUME ApproverHolds(a), ~ApproverHolds(a)' PROVE ClaimHeld /\ ~ClaimHeld'
  BY <1>0, <1>2, <1>4 DEF ClaimHeld, SingleToken, OneClaim
<1>5. ASSUME ApproverHolds(a)' => ApproverHolds(a) PROVE NoNewHolder
  BY <1>2, <1>5 DEF NoNewHolder
<1>6. ASSUME NEW label, ApproverGoto(a, label) PROVE approver'[a].pc = label
  BY <1>0, <1>6 DEF ApproverGoto, ApproverState
<1>7. CASE ClaimTask(a)
  <2>1. approver'[a].pc = "claim" /\ UNCHANGED <<exec, rows, queue>>
    BY <1>0, <1>7 DEF ClaimTask
  <2>2. QED
    BY <1>1, <1>5, <1>a, <2>1, WakerKeeps DEF ApproverHolds
<1>8. CASE ClaimGate(a)
  <2>0. UNCHANGED <<rows, queue>>
    BY <1>8 DEF ClaimGate
  <2>1. CASE ClaimWaiting
    <3>1. ~ClaimHeld
      BY <1>0, <2>1 DEF SingleToken, ParkIsUnowned, ClaimWaiting
    <3>2. OneClaim'
      BY <1>2, <3>1 DEF OneClaim, ClaimHeld
    <3>3. QED
      BY <1>1, <1>3, <2>0, <2>1, <3>2, WakerClaims DEF ClaimWaiting, Young
  <2>2. CASE ApproverGoto(a, "reopen") /\ UNCHANGED exec
    BY <1>1, <1>5, <1>6, <1>a, <2>0, <2>2, WakerKeeps DEF ApproverHolds
  <2>3. QED
    BY <1>8, <2>1, <2>2 DEF ClaimGate
<1>9. CASE WriteVerdict(a)
  <2>1. ApproverHolds(a) /\ approver[a].gate \in Steps /\ UNCHANGED <<exec, queue>>
    BY <1>0, <1>9 DEF WriteVerdict, ApproverAt, ApproverHolds
  <2>2. Young(rows')
    BY <1>0, <1>9, <1>b, <2>1, YoungGate DEF WriteVerdict
  <2>3. QED
    BY <1>1, <1>3, <1>5, <1>b, <2>1, <2>2, WakerKeeps
<1>10. CASE PublishVerdict(a)
  <2>0. ApproverHolds(a) /\ UNCHANGED <<exec, rows>>
    BY <1>10 DEF PublishVerdict, ApproverAt, ApproverHolds
  <2>1. CASE Publish("resume") /\ ApproverDone(a)
    <3>1. ~ApproverHolds(a)'
      BY <1>0, <2>1 DEF ApproverHolds, ApproverDone
    <3>2. QED
      BY <1>0, <1>1, <1>3, <1>4, <1>b, <2>0, <2>1, <3>1, WakerPublishes DEF Young
  <2>2. CASE UNCHANGED queue
    BY <1>1, <1>5, <1>a, <2>0, <2>2, WakerKeeps
  <2>3. QED
    BY <1>10, <2>1, <2>2 DEF PublishVerdict
<1>11. CASE ClearVerdict(a)
  <2>1. /\ ApproverHolds(a) /\ approver[a].gate \in Steps /\ UNCHANGED <<exec, queue>>
        /\ SetGateResult(approver[a].gate, NoResult)
    BY <1>0, <1>11 DEF ClearVerdict, ApproverAt, ApproverHolds
  <2>2. Young(rows')
    BY <1>0, <1>b, <2>1, YoungGate
  <2>3. QED
    BY <1>1, <1>3, <1>5, <1>b, <2>1, <2>2, WakerKeeps
<1>12. CASE RollbackGate(a)
  <2>1. ApproverHolds(a) /\ RollbackClaim /\ UNCHANGED <<rows, queue>>
    BY <1>12 DEF RollbackGate, ApproverAt, ApproverHolds
  <2>2. ~ApproverHolds(a)'
    BY <1>6, <1>12 DEF RollbackGate, ApproverHolds
  <2>3. QED
    BY <1>1, <1>3, <1>4, <1>b, <2>1, <2>2, WakerRollsBack DEF Young
<1>13. CASE ReopenTask(a)
  <2>1. approver'[a].pc = "idle" /\ UNCHANGED <<exec, rows, queue>>
    BY <1>0, <1>13 DEF ReopenTask, ApproverDone
  <2>2. QED
    BY <1>1, <1>5, <1>a, <2>1, WakerKeeps DEF ApproverHolds
<1>14. QED
  BY <1>7, <1>8, <1>9, <1>10, <1>11, <1>12, <1>13 DEF ApproverStep

LEMMA ReconcilerMoves ==
    ASSUME TokenInv, ReconcilerStep
    PROVE  Owned'
<1>1. UNCHANGED <<exec, rows, queue, executorVars, resumeVars, approver>>
  BY DEF ReconcilerStep, SelectOpenTasks, SelectExecutions, CloseTask, storeVars
<1>2. NoNewHolder
  BY <1>1 DEF NoNewHolder, SweepHolds, DeliveryHolds, ApproverHolds, resumeVars
<1>3. StaleFits'
  BY <1>1, StaleKept DEF Republishing, Idle, Walking, executorVars, resumeVars
<1>4. QED
  BY <1>1, <1>2, <1>3, WakerKeeps
-----------------------------------------------------------------------------
(***************************************************************************)
(* Faults and time.                                                        *)
(***************************************************************************)
LEMMA FaultMoves ==
    ASSUME NoDuplicates, TokenInv, Faults
    PROVE  Owned'
<1>0. /\ StaleFits
      /\ \A c \in Consumers : worker[c].topic \in Topics
      /\ IdleSweep.pc = "idle" /\ IdleDelivery.pc = "idle" /\ IdleApprover.pc = "idle"
      /\ delivery \in [Deliveries -> DeliveryState]
      /\ approver \in [Approvers -> ApproverState]
  BY DEF TokenInv, Owned, TypeInv, ConsumersOK, ExecutorTypeOK, WorkerState, WakersOK, ResumeTypeOK,
         ApprovalTypeOK, IdleSweep, IdleDelivery, IdleApprover
<1>1. ASSUME NEW c \in Consumers, ConsumerCrash(c) PROVE Owned'
  <2>1. Walking(c) /\ UNCHANGED rows
    BY <1>1 DEF ConsumerCrash
  <2>2. Young(rows')
    BY <2>1, WalkedIsYoung DEF Young
  <2>3. QED
    BY <1>0, <1>1, <2>1, <2>2, ConsumerStops DEF ConsumerCrash
<1>2. ASSUME NEW c \in Consumers, LostAck(c) PROVE FALSE
  BY <1>2 DEF LostAck, Fault, NoDuplicates
<1>3. ASSUME NEW c \in Consumers, LostMessage(c) PROVE Owned'
  <2>1. Walking(c) /\ UNCHANGED rows
    BY <1>3 DEF LostMessage
  <2>2. Young(rows')
    BY <2>1, WalkedIsYoung DEF Young
  <2>3. QED
    BY <1>0, <1>3, <2>1, <2>2, ConsumerStops DEF LostMessage
<1>4. ASSUME WakerCrash PROVE Owned'
  <2>1. UNCHANGED <<exec, rows, queue, executorVars>>
    BY <1>4 DEF WakerCrash
  <2>2. NoNewHolder /\ sweeper' \in {sweeper, IdleSweep}
    <3>1. CASE SweeperCrash
      BY <1>0, <3>1 DEF SweeperCrash, NoNewHolder, SweepHolds, DeliveryHolds, ApproverHolds,
                        approvalVars
    <3>2. ASSUME NEW d \in Deliveries, DeliveryCrash(d)
          PROVE  NoNewHolder /\ sweeper' = sweeper
      BY <1>0, <3>2 DEF DeliveryCrash, NoNewHolder, SweepHolds, DeliveryHolds, ApproverHolds,
                        approvalVars
    <3>3. ASSUME NEW a \in Approvers, ApproverCrash(a)
          PROVE  NoNewHolder /\ sweeper' = sweeper
      BY <1>0, <3>3 DEF ApproverCrash, ApproverDone, NoNewHolder, SweepHolds, DeliveryHolds,
                        ApproverHolds, resumeVars
    <3>4. CASE ReconcilerCrash
      BY <1>0, <3>4 DEF ReconcilerCrash, NoNewHolder, SweepHolds, DeliveryHolds, ApproverHolds,
                        resumeVars
    <3>5. QED
      BY <1>4, <3>1, <3>2, <3>3, <3>4 DEF WakerCrash
  <2>3. StaleFits'
    <3>1. CASE Republishing' = Republishing
      BY <2>1, <3>1, StaleKept DEF Idle, Walking, executorVars
    <3>2. CASE Republishing' # Republishing
      <4>1. sweeper.pc = "republish" /\ sweeper'.pc = "idle"
        BY <1>0, <2>2, <3>2 DEF Republishing
      <4>2. Young(rows)
        BY <1>0, <4>1 DEF StaleFits, NothingStale, Stranded, Republishing
      <4>3. QED
        BY <2>1, <4>1, <4>2 DEF StaleFits, NothingStale, Republishing, Young
    <3>3. QED
      BY <3>1, <3>2
  <2>4. QED
    BY <2>1, <2>2, <2>3, WakerKeeps
<1>5. QED
  BY <1>1, <1>2, <1>3, <1>4 DEF Faults

LEMMA TimeMoves ==
    ASSUME NoDuplicates, TokenInv, RunsOneStep, Time
    PROVE  Owned'
<1>0. rows \in RowTable /\ StaleFits
  BY DEF TokenInv, Owned, TypeInv, StoreTypeOK, RowTable
<1>1. PICK s \in Steps, i \in Slots : TimeoutDue(s, i) \/ ClaimAges(s, i)
  BY DEF Time
<1>2. UNCHANGED <<exec, queue, executorVars, wakerVars>>
  BY <1>1 DEF TimeoutDue, ClaimAges
<1>3. NoNewHolder /\ Republishing' = Republishing /\ Idle' = Idle
  BY <1>2 DEF NoNewHolder, SweepHolds, DeliveryHolds, ApproverHolds, Republishing, Idle, Walking,
              executorVars, wakerVars, resumeVars, approvalVars
<1>4. CASE TimeoutDue(s, i)
  <2>1. /\ Young(rows) => Young(rows')
        /\ OneStale => OneStale'
        /\ ClaimLeft => ClaimLeft'
    BY <1>0, <1>4, DueKeepsStale DEF TimeoutDue
  <2>2. StaleFits'
    BY <1>0, <1>2, <1>3, <2>1 DEF StaleFits, NothingStale, Stranded, Young
  <2>3. QED
    BY <1>2, <1>3, <2>2, WakerKeeps
<1>5. CASE ClaimAges(s, i)
  <2>1. /\ rows[s][i].status = "running" /\ ~rows[s][i].stale
        /\ rows' = [rows EXCEPT ![s][i].stale = TRUE]
        /\ "claim_ages" \in FaultKinds /\ Idle /\ ~Republishing
    BY <1>5 DEF ClaimAges, NoDuplicates, Fault, Republishing
  <2>2. exec.status \notin {"pending", "waiting"}
    BY <2>1 DEF RunsOneStep
  <2>3. ~OneStale
    BY <2>1 DEF RunsOneStep, OneStale
  <2>4. Young(rows)
    BY <1>0, <2>1, <2>3 DEF StaleFits, NothingStale, Stranded
  <2>5. OneStale'
    BY <1>0, <2>1, <2>4, StaleSet
  <2>6. StaleFits'
    BY <1>2, <1>3, <2>1, <2>2, <2>5 DEF StaleFits, Stranded
  <2>7. QED
    BY <1>2, <1>3, <2>6, WakerKeeps
<1>6. QED
  BY <1>1, <1>4, <1>5
-----------------------------------------------------------------------------
LEMMA OwnedInitially == Init => Owned
<1> SUFFICES ASSUME Init PROVE Owned
  OBVIOUS
<1>1. \A c \in Consumers : worker[c].pc = "idle"
  BY DEF Init, ExecutorInit, IdleWorker
<1>2. ~ClaimHeld /\ OneClaim
  BY DEF Init, ResumeInit, ApprovalInit, ClaimHeld, OneClaim, SweepHolds, DeliveryHolds, ApproverHolds,
         IdleSweep, IdleDelivery, IdleApprover
<1>3. Messages = 1 /\ exec.status = "pending"
  BY DEF Init, StoreInit, Messages
<1>4. SingleToken
  BY <1>1, <1>2, <1>3 DEF SingleToken, OneMessage, OneWalker, ClaimIsExclusive, ParkIsUnowned, Walking
<1>5. WalkerViewIsFresh /\ StatusesOK
  BY <1>1 DEF WalkerViewIsFresh, Walking, StatusesOK, StatusOK, AtStep
<1>6. StaleFits
  BY DEF Init, StoreInit, ResumeInit, StaleFits, NothingStale, Young, Republishing, AbsentRow,
         IdleSweep
<1>7. QED
  BY <1>4, <1>5, <1>6 DEF Owned

LEMMA OwnedPreserved ==
    ASSUME NoDuplicates, TokenInv, RunsOneStep, [Next]_vars
    PROVE  Owned'
<1>1. ASSUME NEW c \in Consumers, ConsumerStep(c) PROVE Owned'
  <2>1. CASE (Receive(c) \/ ExecutorStep(c)) /\ UNCHANGED wakerVars
    BY <2>1, ReceiveMoves, ExecutorMoves, AcknowledgeMoves, OnlyAcknowledges
  <2>2. CASE ResumeStep(c) /\ UNCHANGED approvalVars
    <3>1. UNCHANGED wakerVars
      BY <2>2 DEF ResumeStep, DropResume, LoadParked, FetchParked, CloseParkedRows, ExpireGate,
                  MarkRunning, wakerVars
    <3>2. QED
      BY <2>2, <3>1, ResumeMoves
  <2>3. QED
    BY <1>1, <2>1, <2>2 DEF ConsumerStep
<1>2. CASE UNCHANGED vars
  <2>1. UNCHANGED <<exec, rows, queue, executorVars, wakerVars>>
    BY <1>2 DEF vars, storeVars, wakerVars
  <2>2. NoNewHolder /\ StaleFits'
    BY <2>1, StaleKept DEF NoNewHolder, SweepHolds, DeliveryHolds, ApproverHolds, Republishing, Idle,
                Walking, executorVars, wakerVars, resumeVars, approvalVars
  <2>3. QED
    BY <2>1, <2>2, WakerKeeps
<1>3. QED
  BY <1>1, <1>2, SweeperMoves, DeliveryMoves, ApproverMoves, ReconcilerMoves, FaultMoves, TimeMoves
     DEF Next, Finished
-----------------------------------------------------------------------------

(***************************************************************************)
(* What the queue and the wakers' hosts owe the engine: a message is not   *)
(* lost with its consumer, and a waker that has claimed gets to publish.   *)
(***************************************************************************)
NoLosses == FaultKinds \cap {"lost_message", "waker_crash"} = {}

\* A consumer past its load works on a live execution, until it has failed it.
Settled(c) ==
    Walking(c) /\ worker[c].pc \notin Loading
        => (exec.status \in Terminal <=> worker[c].pc = "orphan")

OutcomeInv == TokenInv /\ \A c \in Consumers : Settled(c)

Working(c) == Walking(c) /\ worker[c].pc \notin Loading \cup {"orphan"}

(***************************************************************************)
(* The kinds of steps a consumer takes once it has a message.              *)
(***************************************************************************)
\* It lets go of an execution that is over or parked, or has done so before.
Drops(c) ==
    /\ UNCHANGED exec
    /\ ~Walking(c)'
    /\ exec.status \notin {"pending", "running"} \/ (~Walking(c) /\ UNCHANGED queue)

\* It goes on with a live execution, whose row it does not touch.
Moves(c) ==
    /\ UNCHANGED exec
    /\ Walking(c) /\ Walking(c)'
    /\ worker'[c].pc # "orphan"
    /\ exec.status \notin Terminal

\* It gives the message back.
Returns(c) ==
    /\ UNCHANGED exec
    /\ Walking(c) /\ ~Walking(c)'
    /\ Messages' = Messages + 1

\* It saves the row: parked or ended if it stops here, live if it goes on.
Saves(c) ==
    /\ Working(c)
    /\ \/ ~Walking(c)' /\ exec'.status \in Terminal \cup {"waiting"}
       \/ worker'[c].pc = "orphan" /\ exec'.status \in Terminal
       \/ Walking(c)' /\ worker'[c].pc # "orphan" /\ exec'.status \notin Terminal

Outcome(c) ==
    /\ OthersUnchanged(c)
    /\ Drops(c) \/ Moves(c) \/ Returns(c) \/ Saves(c)
-----------------------------------------------------------------------------
LEMMA GotoOutcome ==
    ASSUME OutcomeInv, NEW c \in Consumers, Working(c), NEW label \in Labels, Goto(c, label),
           label \notin {"idle", "ack", "orphan"}, UNCHANGED exec
    PROVE  Outcome(c)
<1>0. worker \in Workers
  BY DEF OutcomeInv, TokenInv, TypeInv, ConsumersOK, ExecutorTypeOK, Workers
<1>1. worker'[c].pc = label /\ OthersUnchanged(c)
  BY <1>0, GotoFacts
<1>2. QED
  BY <1>1 DEF Outcome, Moves, Working, Walking, OutcomeInv, Settled

LEMMA ContinueOutcome ==
    ASSUME OutcomeInv, NEW c \in Consumers, Working(c), NEW next \in Targets, Continue(c, next),
           UNCHANGED exec
    PROVE  Outcome(c)
<1>0. worker \in Workers
  BY DEF OutcomeInv, TokenInv, TypeInv, ConsumersOK, ExecutorTypeOK, Workers
<1>1. worker'[c].pc \in {"complete", "arrive"} /\ OthersUnchanged(c)
  BY <1>0, ContinueFacts
<1>2. QED
  BY <1>1 DEF Outcome, Moves, Working, Walking, OutcomeInv, Settled

LEMMA LoadOutcome ==
    ASSUME OutcomeInv, NEW c \in Consumers, worker[c].pc \in Loading, exec.status \notin Terminal,
           NEW label \in Labels, NEW m \in ExecRow, LoadAs(c, m, label),
           label \notin {"idle", "ack", "orphan"}, UNCHANGED exec
    PROVE  Outcome(c)
<1>0. worker \in Workers /\ exec \in ExecRow
  BY DEF OutcomeInv, TokenInv, TypeInv, StoreTypeOK, ConsumersOK, ExecutorTypeOK, Workers
<1>1. worker'[c].pc = label /\ OthersUnchanged(c)
  BY <1>0, LoadFacts
<1>2. QED
  BY <1>1 DEF Outcome, Moves, Loading, Walking

\* A save from a fresh copy makes the row what the consumer has made of it.
LEMMA SaveOutcome ==
    ASSUME OutcomeInv, NEW c \in Consumers, Working(c), NEW label \in Labels, NEW m \in ExecRow,
           SaveAs(c, m, label),
           \/ label = "ack" /\ m.status \in Terminal \cup {"waiting"}
           \/ label = "orphan" /\ m.status \in Terminal
           \/ label \notin {"idle", "ack", "orphan"} /\ m.status \notin Terminal
    PROVE  Outcome(c)
<1>0. worker \in Workers /\ exec \in ExecRow
  BY DEF OutcomeInv, TokenInv, TypeInv, StoreTypeOK, ConsumersOK, ExecutorTypeOK, Workers
<1>1. /\ worker'[c].pc = label /\ OthersUnchanged(c)
      /\ exec' = DirtyFields(exec, worker[c].snap, m)
  BY <1>0, SaveFacts
<1>2. worker[c].snap = exec
  BY DEF OutcomeInv, TokenInv, Owned, WalkerViewIsFresh, Working, Loading
<1>3. exec' = m
  BY <1>0, <1>1, <1>2, FreshSave
<1>4. QED
  BY <1>1, <1>3 DEF Outcome, Saves, Walking

LEMMA ExecutorOutcome ==
    ASSUME OutcomeInv, NEW c \in Consumers, ExecutorStep(c)
    PROVE  Outcome(c)
<1> DEFINE s == worker[c].step
<1>0. /\ worker \in Workers /\ worker[c] \in WorkerState
      /\ worker[c].pc \in AtStep => s \in Steps
      /\ worker[c].mem \in ExecRow
      /\ exec \in ExecRow
      /\ queue \in [Topics -> Nat]
      /\ StatusOK(worker[c])
  BY DEF OutcomeInv, TokenInv, TypeInv, StoreTypeOK, ConsumersOK, ExecutorTypeOK, Workers,
         WorkerState, CursorOK, Owned, StatusesOK
<1>1. CASE Acknowledge(c)
  BY <1>0, <1>1, ResetFacts DEF Acknowledge, At, storeVars, Outcome, Drops, Walking
<1>2. CASE DropMessage(c)
  <2>1. worker'[c].pc = "ack" /\ OthersUnchanged(c)
    BY <1>0, <1>2, GotoFacts DEF DropMessage, Labels, ExecutorLabels
  <2>2. QED
    BY <1>2, <2>1 DEF DropMessage, storeVars, Outcome, Drops, Walking, Terminal
<1>3. CASE RejectSnapshot(c)
  BY <1>0, <1>3, LoadOutcome
     DEF RejectSnapshot, Loaded, At, Loading, storeVars, Labels, ExecutorLabels, Terminal
<1>4. CASE SkipByConditions(c)
  <2> DEFINE m == [exec EXCEPT !.status = "skipped"]
  <2>1. m \in ExecRow
    BY <1>0 DEF ExecRow, Statuses, Terminal
  <2>2. LoadAs(c, m, "skip")
    BY <1>4 DEF SkipByConditions
  <2> HIDE DEF m
  <2>3. QED
    BY <1>0, <1>4, <2>1, <2>2, LoadOutcome
       DEF SkipByConditions, Loaded, At, Loading, storeVars, Labels, ExecutorLabels, Terminal
<1>5. CASE SaveSkipped(c)
  BY <1>0, <1>5, SaveOutcome
     DEF SaveSkipped, At, Working, Walking, Loading, Labels, ExecutorLabels, StatusOK, Terminal
<1>6. CASE BeginWalk(c)
  <2> DEFINE m == [exec EXCEPT !.status = "running", !.current = StartStep]
  <2>1. StartStep \in Targets
    BY <1>0, DefinitionAssumption DEF ExecRow, StartStep, Targets
  <2>2. m \in ExecRow
    BY <1>0, <2>1 DEF ExecRow, Statuses
  <2>3. LoadAs(c, m, "enter")
    BY <1>6 DEF BeginWalk
  <2> HIDE DEF m
  <2>4. QED
    BY <1>0, <1>6, <2>2, <2>3, LoadOutcome
       DEF BeginWalk, Loaded, At, Loading, storeVars, Labels, ExecutorLabels, Terminal
<1>7. CASE NothingLeftToWalk(c)
  BY <1>0, <1>7, LoadOutcome
     DEF NothingLeftToWalk, Loaded, At, Loading, storeVars, Labels, ExecutorLabels, Terminal
<1>8. CASE EnterWalk(c)
  BY <1>0, <1>8, SaveOutcome
     DEF EnterWalk, At, Working, Walking, Loading, Labels, ExecutorLabels, AtStep, StatusOK, Terminal
<1>9. CASE ExceedIterations(c)
  BY <1>9, GotoOutcome
     DEF ExceedIterations, At, Working, Walking, Loading, storeVars, Labels, ExecutorLabels
<1>10. CASE ArriveAtStep(c)
  <2> DEFINE m == [worker[c].mem EXCEPT !.current = s]
             w == [worker[c] EXCEPT !.mem = m, !.snap = m, !.pc = "claim",
                                    !.iterations = @ + 1]
  <2>1. worker[c].pc = "arrive" /\ exec' = DirtyFields(exec, worker[c].snap, m)
    BY <1>10 DEF ArriveAtStep, At
  <2>2. s \in Steps /\ worker[c].mem.status = "running"
    BY <1>0, <2>1 DEF AtStep, StatusOK
  <2>3. m \in ExecRow /\ m.status = "running"
    BY <1>0, <2>2 DEF ExecRow, Targets
  <2>4. worker[c].snap = exec
    BY <2>1 DEF OutcomeInv, TokenInv, Owned, WalkerViewIsFresh, Walking
  <2>5. worker' = [worker EXCEPT ![c] = w]
    BY <1>0, <1>10 DEF ArriveAtStep, Workers
  <2> HIDE DEF m
  <2>6. exec' = m
    BY <1>0, <2>1, <2>3, <2>4, FreshSave
  <2>7. w.pc = "claim"
    BY <1>0 DEF WorkerState
  <2> HIDE DEF w
  <2>8. worker'[c].pc = "claim" /\ OthersUnchanged(c)
    BY <1>0, <2>5, <2>7 DEF Workers, OthersUnchanged
  <2>9. QED
    BY <2>1, <2>3, <2>6, <2>8 DEF Outcome, Saves, Working, Walking, Loading, Terminal
<1>11. CASE ClaimStepRow(c) \/ InsertStepRow(c)
  <2>1. worker[c].pc \in {"claim", "insert"} /\ s \in Steps /\ UNCHANGED exec
    BY <1>0, <1>11 DEF ClaimStepRow, InsertStepRow, At, AtStep
  <2>2. PICK label \in {"insert", StepLabel(s)} : Goto(c, label)
    BY <1>11 DEF ClaimStepRow, InsertStepRow
  <2>3. StepType[s] \in StepTypes
    BY <2>1, DefinitionAssumption
  <2>4. label \in Labels /\ label \notin {"idle", "ack", "orphan"}
    BY <2>2, <2>3 DEF StepTypes, StepLabel, Labels, ExecutorLabels
  <2>5. QED
    BY <2>1, <2>2, <2>4, GotoOutcome DEF Working, Walking, Loading
<1>12. CASE PerformAction(c)
  BY <1>12, GotoOutcome
     DEF PerformAction, At, Working, Walking, Loading, storeVars, Labels, ExecutorLabels
<1>13. CASE RecordSuccess(c)
  <2>1. worker[c].pc = "acted" /\ s \in Steps /\ StepType[s] = "action"
    BY <1>0, <1>13
       DEF RecordSuccess, At, AtStep, OutcomeInv, TokenInv, TypeInv, ConsumersOK, CursorOK
  <2>2. Edge[s]["next"] \in Targets
    BY <2>1, DefinitionAssumption, EdgeTarget DEF HasDeclaredEdges
  <2>3. QED
    BY <1>13, <2>1, <2>2, ContinueOutcome DEF RecordSuccess, Working, Walking, Loading
<1>14. CASE ActionToRetry(c)
  <2>1. /\ worker[c].pc = "act" /\ worker[c].topic \in Topics /\ UNCHANGED exec
        /\ Publish(worker[c].topic)
    BY <1>0, <1>14 DEF ActionToRetry, At, WorkerState
  <2>2. worker'[c].pc = "idle" /\ OthersUnchanged(c)
    BY <1>0, <1>14, ResetFacts DEF ActionToRetry
  <2>3. Messages' = Messages + 1
    BY <1>0, <2>1, PublishCounts
  <2>4. QED
    BY <2>1, <2>2, <2>3 DEF Outcome, Returns, Walking
<1>15. CASE ActionFails(c)
  BY <1>15, GotoOutcome DEF ActionFails, At, Working, Walking, Loading, Labels, ExecutorLabels
<1>16. CASE FollowEdge(c)
  <2>1. worker[c].pc = "route" /\ s \in Steps /\ UNCHANGED exec
    BY <1>0, <1>16 DEF FollowEdge, At, AtStep
  <2>2. PICK next \in Successors(s) : Continue(c, next)
    BY <1>16 DEF FollowEdge
  <2>3. next \in Targets
    BY <2>1, <2>2, EdgeTarget DEF Successors
  <2>4. QED
    BY <2>1, <2>2, <2>3, ContinueOutcome DEF Working, Walking, Loading
<1>17. CASE ReachStop(c)
  BY <1>17, GotoOutcome DEF ReachStop, At, Working, Walking, Loading, Labels, ExecutorLabels
<1>18. CASE OpenGate(c)
  BY <1>18, GotoOutcome DEF OpenGate, At, Working, Walking, Loading, Labels, ExecutorLabels
<1>19. CASE GateWithoutModule(c)
  BY <1>19, GotoOutcome DEF GateWithoutModule, At, Working, Walking, Loading, Labels, ExecutorLabels
<1>20. CASE ParkStepRow(c)
  BY <1>20, GotoOutcome DEF ParkStepRow, At, Working, Walking, Loading, Labels, ExecutorLabels
<1>21. CASE ParkExecution(c)
  <2>1. worker[c].pc = "park_exec" /\ s \in Steps
    BY <1>0, <1>21 DEF ParkExecution, At, AtStep
  <2>2. ParkedAs(s, worker[c].mem) \in ExecRow /\ ParkedAs(s, worker[c].mem).status = "waiting"
    BY <1>0, <2>1, ParkedType DEF ParkedAs, ExecRow
  <2>3. QED
    BY <1>21, <2>1, <2>2, SaveOutcome
       DEF ParkExecution, Working, Walking, Loading, Labels, ExecutorLabels
<1>22. CASE CompleteExecution(c)
  <2> DEFINE m == [worker[c].mem EXCEPT !.status = "complete", !.current = NoStep]
  <2>1. m \in ExecRow /\ m.status \in Terminal
    BY <1>0 DEF ExecRow, Statuses, Terminal, Targets
  <2>2. SaveAs(c, m, "ack") /\ At(c, "complete")
    BY <1>22 DEF CompleteExecution
  <2> HIDE DEF m
  <2>3. QED
    BY <2>1, <2>2, SaveOutcome DEF At, Working, Walking, Loading, Labels, ExecutorLabels
<1>23. CASE FailExecution(c)
  <2> DEFINE m == [worker[c].mem EXCEPT !.status = "failed"]
             label == IF ApprovalsInstalled THEN "orphan" ELSE "ack"
  <2>1. m \in ExecRow /\ m.status \in Terminal
    BY <1>0 DEF ExecRow, Statuses, Terminal
  <2>2. label \in Labels /\ label \in {"orphan", "ack"}
    BY DEF Labels, ExecutorLabels
  <2>3. SaveAs(c, m, label) /\ At(c, "fail")
    BY <1>23 DEF FailExecution
  <2> HIDE DEF m, label
  <2>4. QED
    BY <2>1, <2>2, <2>3, SaveOutcome DEF At, Working, Walking, Loading
<1>24. CASE OrphanOpenTasks(c)
  <2>1. worker[c].pc = "orphan" /\ UNCHANGED exec
    BY <1>24 DEF OrphanOpenTasks, At
  <2>2. worker'[c].pc = "ack" /\ OthersUnchanged(c)
    BY <1>0, <1>24, GotoFacts DEF OrphanOpenTasks, Labels, ExecutorLabels
  <2>3. exec.status \in Terminal
    BY <2>1 DEF OutcomeInv, Settled, Walking, Loading
  <2>4. QED
    BY <2>1, <2>2, <2>3 DEF Outcome, Drops, Walking, Terminal
<1>25. QED
  BY <1>1, <1>2, <1>3, <1>4, <1>5, <1>6, <1>7, <1>8, <1>9, <1>10, <1>11, <1>12, <1>13, <1>14,
     <1>15, <1>16, <1>17, <1>18, <1>19, <1>20, <1>21, <1>22, <1>23, <1>24
     DEF ExecutorStep

LEMMA ResumeOutcome ==
    ASSUME OutcomeInv, NEW c \in Consumers, ResumeStep(c)
    PROVE  Outcome(c)
<1>0. /\ worker \in Workers /\ worker[c] \in WorkerState
      /\ worker[c].mem \in ExecRow
      /\ exec \in ExecRow
  BY DEF OutcomeInv, TokenInv, TypeInv, StoreTypeOK, ConsumersOK, ExecutorTypeOK, Workers, WorkerState
<1>1. CASE DropResume(c)
  <2>1. worker'[c].pc = "ack" /\ OthersUnchanged(c)
    BY <1>0, <1>1, GotoFacts DEF DropResume, Labels, ExecutorLabels
  <2>2. QED
    BY <1>1, <2>1 DEF DropResume, storeVars, Outcome, Drops, Walking, Terminal
<1>2. CASE LoadParked(c)
  BY <1>0, <1>2, LoadOutcome DEF LoadParked, At, Loading, storeVars, Labels, ResumeLabels
<1>3. CASE FetchParked(c)
  <2>1. PICK parked :
            \/ worker' = [worker EXCEPT ![c].parked = parked, ![c].pc = "close"]
            \/ worker' = [worker EXCEPT ![c].pc = "close", ![c].parked = parked]
    BY <1>3 DEF FetchParked
  <2>2. worker'[c].pc = "close" /\ OthersUnchanged(c)
    BY <1>0, <2>1 DEF Workers, WorkerState, OthersUnchanged
  <2>3. worker[c].pc = "fetch" /\ UNCHANGED exec
    BY <1>3 DEF FetchParked, At, storeVars
  <2>4. QED
    BY <2>2, <2>3 DEF Outcome, Moves, Walking, Loading, OutcomeInv, Settled
<1>4. CASE CloseParkedRows(c)
  <2> DEFINE parked == worker[c].parked
             label == IF ApprovalsInstalled /\ IsGate(parked.step) /\ parked.result \notin Verdicts
                      THEN "expire" ELSE "mark_running"
             m == Routed(parked, worker[c].mem)
  <2>1. worker[c].pc = "close" /\ UNCHANGED exec
    BY <1>4 DEF CloseParkedRows, At
  <2>2. worker' = [worker EXCEPT ![c].mem = m, ![c].pc = label]
    BY <1>4 DEF CloseParkedRows
  <2>3. label \in {"expire", "mark_running"}
    OBVIOUS
  <2> HIDE DEF label, m
  <2>4. worker'[c].pc = label /\ OthersUnchanged(c)
    BY <1>0, <2>2 DEF Workers, WorkerState, OthersUnchanged
  <2>5. QED
    BY <2>1, <2>3, <2>4 DEF Outcome, Moves, Walking, Loading, OutcomeInv, Settled
<1>5. CASE ExpireGate(c)
  BY <1>5, GotoOutcome DEF ExpireGate, At, Working, Walking, Loading, Labels, ResumeLabels
<1>6. CASE MarkRunning(c)
  <2> DEFINE m == [worker[c].mem EXCEPT !.status = "running"]
  <2>1. m \in ExecRow /\ m.status \notin Terminal
    BY <1>0 DEF ExecRow, Statuses, Terminal
  <2>2. SaveAs(c, m, "load") /\ At(c, "mark_running")
    BY <1>6 DEF MarkRunning
  <2> HIDE DEF m
  <2>3. QED
    BY <2>1, <2>2, SaveOutcome DEF At, Working, Walking, Loading, Labels, ExecutorLabels
<1>7. QED
  BY <1>1, <1>2, <1>3, <1>4, <1>5, <1>6 DEF ResumeStep
-----------------------------------------------------------------------------
(***************************************************************************)
(* The other processes touch the row of a parked execution only, between   *)
(* a claim and the publish that hands it on.                               *)
(***************************************************************************)
\* The waker keeps what it has, or turns its claim into a message.
Keeps ==
    /\ UNCHANGED exec
    /\ Messages' >= Messages
    /\ ClaimHeld => ClaimHeld' \/ Messages' > 0

Claims == Idle /\ exec.status = "waiting" /\ exec'.status = "pending" /\ ClaimHeld'

Unclaims == Idle /\ exec.status = "pending" /\ exec'.status = "waiting"

WakerOutcome ==
    /\ UNCHANGED worker
    /\ Keeps \/ Claims \/ Unclaims

\* A waker that gets its claim, or takes it back, finds the engine idle.
LEMMA ClaimOutcome ==
    ASSUME OutcomeInv, ClaimWaiting, UNCHANGED worker, ClaimHeld'
    PROVE  WakerOutcome
<1>1. exec \in ExecRow /\ Idle
  BY DEF OutcomeInv, TokenInv, TypeInv, StoreTypeOK, Owned, SingleToken, ParkIsUnowned, ClaimWaiting
<1>2. QED
  BY <1>1 DEF WakerOutcome, Claims, ClaimWaiting, ExecRow

LEMMA UnclaimOutcome ==
    ASSUME OutcomeInv, ClaimHeld, RollbackClaim, UNCHANGED worker
    PROVE  WakerOutcome
<1>1. exec \in ExecRow /\ Idle /\ exec.status = "pending"
  BY DEF OutcomeInv, TokenInv, TypeInv, StoreTypeOK, Owned, SingleToken, ClaimIsExclusive
<1>2. QED
  BY <1>1 DEF WakerOutcome, Unclaims, RollbackClaim, ExecRow

LEMMA PublishOutcome ==
    ASSUME OutcomeInv, NEW topic \in Topics, Publish(topic), UNCHANGED <<exec, worker>>
    PROVE  WakerOutcome
<1>1. queue \in [Topics -> Nat] /\ Messages \in Nat
  BY DEF OutcomeInv, TokenInv, TypeInv, StoreTypeOK, Messages, Topics
<1>2. Messages' = Messages + 1
  BY <1>1, PublishCounts
<1>3. QED
  BY <1>1, <1>2 DEF WakerOutcome, Keeps

LEMMA KeepOutcome ==
    ASSUME OutcomeInv, UNCHANGED <<exec, queue, worker>>, ClaimHeld => ClaimHeld'
    PROVE  WakerOutcome
<1>1. Messages \in Nat /\ Messages' = Messages
  BY DEF OutcomeInv, TokenInv, TypeInv, StoreTypeOK, Messages, Topics
<1>2. QED
  BY <1>1 DEF WakerOutcome, Keeps

LEMMA SweeperOutcome ==
    ASSUME OutcomeInv, SweeperStep, UNCHANGED approvalVars
    PROVE  WakerOutcome
<1>0. sweeper \in SweeperState /\ Topics = {"execute", "resume"} /\ IdleSweep.pc = "idle"
  BY DEF OutcomeInv, TokenInv, TypeInv, WakersOK, ResumeTypeOK, Topics, IdleSweep
<1>1. UNCHANGED <<worker, delivery>>
  BY DEF SweeperStep, SelectDue, ClaimDue, PublishDue, RollbackDue, SelectZombie, ReclaimZombie,
         RepublishZombie, executorVars
<1>2. ASSUME SweepHolds => SweepHolds' PROVE ClaimHeld => ClaimHeld'
  BY <1>1, <1>2 DEF ClaimHeld, DeliveryHolds, ApproverHolds, approvalVars
<1>3. CASE SelectDue \/ SelectZombie \/ ReclaimZombie
  BY <1>0, <1>1, <1>2, <1>3, KeepOutcome
     DEF SelectDue, SelectZombie, ReclaimZombie, SweepHolds, storeVars
<1>4. CASE ClaimDue
  <2>1. CASE ClaimWaiting /\ sweeper' = [sweeper EXCEPT !.pc = "publish"]
    <3>1. ClaimHeld'
      BY <1>0, <2>1 DEF ClaimHeld, SweepHolds, SweeperState
    <3>2. QED
      BY <1>1, <2>1, <3>1, ClaimOutcome
  <2>2. CASE UNCHANGED exec
    BY <1>1, <1>2, <1>4, <2>2, KeepOutcome DEF ClaimDue, SweepHolds
  <2>3. QED
    BY <1>4, <2>1, <2>2 DEF ClaimDue
<1>5. CASE PublishDue
  <2>1. CASE Publish("resume")
    BY <1>0, <1>1, <1>5, <2>1, PublishOutcome DEF PublishDue
  <2>2. CASE sweeper' = [sweeper EXCEPT !.pc = "rollback"] /\ UNCHANGED queue
    <3>1. SweepHolds'
      BY <1>0, <2>2 DEF SweepHolds, SweeperState
    <3>2. QED
      BY <1>1, <1>2, <1>5, <2>2, <3>1, KeepOutcome DEF PublishDue
  <2>3. QED
    BY <1>5, <2>1, <2>2 DEF PublishDue
<1>6. CASE RollbackDue
  BY <1>1, <1>6, UnclaimOutcome DEF RollbackDue, ClaimHeld, SweepHolds
<1>7. CASE RepublishZombie
  <2>1. CASE Publish("execute")
    BY <1>0, <1>1, <1>7, <2>1, PublishOutcome DEF RepublishZombie
  <2>2. CASE UNCHANGED queue
    BY <1>1, <1>2, <1>7, <2>2, KeepOutcome DEF RepublishZombie, SweepHolds
  <2>3. QED
    BY <1>7, <2>1, <2>2 DEF RepublishZombie
<1>8. QED
  BY <1>3, <1>4, <1>5, <1>6, <1>7 DEF SweeperStep

LEMMA DeliveryOutcome ==
    ASSUME OutcomeInv, NEW d \in Deliveries, DeliveryStep(d), UNCHANGED approvalVars
    PROVE  WakerOutcome
<1>0. /\ delivery \in [Deliveries -> DeliveryState] /\ delivery[d] \in DeliveryState
      /\ Topics = {"execute", "resume"}
  BY DEF OutcomeInv, TokenInv, TypeInv, WakersOK, ResumeTypeOK, Topics
<1>1. /\ UNCHANGED <<worker, sweeper>>
      /\ \A e \in Deliveries \ {d} : delivery'[e] = delivery[e]
  BY <1>0 DEF DeliveryStep, SelectParkedOn, ClaimForEvent, WriteResolution, PublishEvent,
              RollbackEvent, executorVars
<1>2. ASSUME DeliveryHolds(d) => DeliveryHolds(d)' PROVE ClaimHeld => ClaimHeld'
  BY <1>1, <1>2 DEF ClaimHeld, SweepHolds, DeliveryHolds, ApproverHolds, approvalVars
<1>3. CASE SelectParkedOn(d)
  BY <1>1, <1>2, <1>3, KeepOutcome DEF SelectParkedOn, DeliveryHolds, storeVars
<1>4. CASE ClaimForEvent(d)
  <2>1. CASE ClaimWaiting /\ delivery' = [delivery EXCEPT ![d].pc = "write"]
    <3>1. ClaimHeld'
      BY <1>0, <2>1 DEF ClaimHeld, DeliveryHolds, DeliveryState
    <3>2. QED
      BY <1>1, <2>1, <3>1, ClaimOutcome
  <2>2. CASE UNCHANGED exec
    BY <1>1, <1>2, <1>4, <2>2, KeepOutcome DEF ClaimForEvent, DeliveryHolds
  <2>3. QED
    BY <1>4, <2>1, <2>2 DEF ClaimForEvent
<1>5. CASE WriteResolution(d)
  <2>1. delivery'[d].pc = "publish" /\ UNCHANGED <<exec, queue>>
    BY <1>0, <1>5 DEF WriteResolution, DeliveryState
  <2>2. QED
    BY <1>1, <1>2, <2>1, KeepOutcome DEF DeliveryHolds
<1>6. CASE PublishEvent(d)
  <2>1. CASE Publish("resume")
    BY <1>0, <1>1, <1>6, <2>1, PublishOutcome DEF PublishEvent
  <2>2. CASE delivery' = [delivery EXCEPT ![d].pc = "rollback"] /\ UNCHANGED queue
    <3>1. delivery'[d].pc = "rollback"
      BY <1>0, <2>2 DEF DeliveryState
    <3>2. QED
      BY <1>1, <1>2, <1>6, <2>2, <3>1, KeepOutcome DEF PublishEvent, DeliveryHolds
  <2>3. QED
    BY <1>6, <2>1, <2>2 DEF PublishEvent
<1>7. CASE RollbackEvent(d)
  BY <1>1, <1>7, UnclaimOutcome DEF RollbackEvent, ClaimHeld, DeliveryHolds
<1>8. QED
  BY <1>3, <1>4, <1>5, <1>6, <1>7 DEF DeliveryStep

LEMMA ApproverOutcome ==
    ASSUME OutcomeInv, NEW a \in Approvers, ApproverStep(a)
    PROVE  WakerOutcome
<1>0. /\ approver \in [Approvers -> ApproverState] /\ approver[a] \in ApproverState
      /\ Topics = {"execute", "resume"}
  BY DEF OutcomeInv, TokenInv, TypeInv, WakersOK, ApprovalTypeOK, Topics
<1>1. /\ UNCHANGED <<worker, sweeper, delivery>>
      /\ \A b \in Approvers \ {a} : approver'[b] = approver[b]
  BY <1>0 DEF ApproverStep, ClaimTask, ClaimGate, WriteVerdict, PublishVerdict, ClearVerdict,
              RollbackGate, ReopenTask, ApproverGoto, ApproverDone, executorVars, resumeVars
<1>2. ASSUME ApproverHolds(a) => ApproverHolds(a)' PROVE ClaimHeld => ClaimHeld'
  BY <1>1, <1>2 DEF ClaimHeld, SweepHolds, DeliveryHolds, ApproverHolds
<1>3. ASSUME NEW label, ApproverGoto(a, label) PROVE approver'[a].pc = label
  BY <1>0, <1>3 DEF ApproverGoto, ApproverState
<1>4. CASE ClaimTask(a) \/ ReopenTask(a)
  BY <1>1, <1>2, <1>4, KeepOutcome DEF ClaimTask, ReopenTask, ApproverHolds, ApproverAt
<1>5. CASE ClaimGate(a)
  <2>1. CASE ClaimWaiting /\ ApproverGoto(a, "write")
    <3>1. ClaimHeld'
      BY <1>3, <2>1 DEF ClaimHeld, ApproverHolds
    <3>2. QED
      BY <1>1, <2>1, <3>1, ClaimOutcome
  <2>2. CASE UNCHANGED exec
    BY <1>1, <1>2, <1>5, <2>2, KeepOutcome DEF ClaimGate, ApproverHolds, ApproverAt
  <2>3. QED
    BY <1>5, <2>1, <2>2 DEF ClaimGate
<1>6. CASE WriteVerdict(a)
  <2>1. approver'[a].pc = "publish" /\ UNCHANGED <<exec, queue>>
    BY <1>3, <1>6 DEF WriteVerdict
  <2>2. QED
    BY <1>1, <1>2, <2>1, KeepOutcome DEF ApproverHolds
<1>7. CASE PublishVerdict(a)
  <2>1. CASE Publish("resume")
    BY <1>0, <1>1, <1>7, <2>1, PublishOutcome DEF PublishVerdict
  <2>2. CASE ApproverGoto(a, "clear") /\ UNCHANGED queue
    <3>1. approver'[a].pc = "clear"
      BY <1>3, <2>2
    <3>2. QED
      BY <1>1, <1>2, <1>7, <2>2, <3>1, KeepOutcome DEF PublishVerdict, ApproverHolds
  <2>3. QED
    BY <1>7, <2>1, <2>2 DEF PublishVerdict
<1>8. CASE ClearVerdict(a)
  <2>1. approver'[a].pc = "unpark" /\ UNCHANGED <<exec, queue>>
    BY <1>3, <1>8 DEF ClearVerdict
  <2>2. QED
    BY <1>1, <1>2, <2>1, KeepOutcome DEF ApproverHolds
<1>9. CASE RollbackGate(a)
  BY <1>1, <1>9, UnclaimOutcome DEF RollbackGate, ClaimHeld, ApproverHolds, ApproverAt
<1>10. QED
  BY <1>4, <1>5, <1>6, <1>7, <1>8, <1>9 DEF ApproverStep

LEMMA ReconcilerOutcome ==
    ASSUME OutcomeInv, ReconcilerStep
    PROVE  WakerOutcome
<1>1. UNCHANGED <<exec, queue, worker, resumeVars, approver>>
  BY DEF ReconcilerStep, SelectOpenTasks, SelectExecutions, CloseTask, storeVars, executorVars
<1>2. QED
  BY <1>1, KeepOutcome DEF ClaimHeld, SweepHolds, DeliveryHolds, ApproverHolds, resumeVars

LEMMA TimeOutcome ==
    ASSUME OutcomeInv, Time
    PROVE  WakerOutcome
<1>1. UNCHANGED <<exec, queue, worker, wakerVars>>
  BY DEF Time, TimeoutDue, ClaimAges, executorVars
<1>2. QED
  BY <1>1, KeepOutcome
     DEF ClaimHeld, SweepHolds, DeliveryHolds, ApproverHolds, wakerVars, resumeVars, approvalVars
-----------------------------------------------------------------------------
(***************************************************************************)
(* A consumer that dies, and a step of any process.                        *)
(***************************************************************************)
Dies(c) ==
    /\ UNCHANGED exec
    /\ Walking(c) /\ worker'[c].pc = "idle" /\ OthersUnchanged(c)

LEMMA ConsumerFaultOutcome ==
    ASSUME NoDuplicates, OutcomeInv, NEW c \in Consumers,
           ConsumerCrash(c) \/ LostAck(c) \/ LostMessage(c)
    PROVE  /\ Dies(c)
           /\ NoLosses => Messages' = Messages + 1
<1>0. /\ worker \in Workers /\ worker[c].topic \in Topics
      /\ queue \in [Topics -> Nat]
  BY DEF OutcomeInv, TokenInv, TypeInv, StoreTypeOK, ConsumersOK, ExecutorTypeOK, Workers, WorkerState
<1>1. ~LostAck(c)
  BY DEF LostAck, Fault, NoDuplicates
<1>2. /\ Walking(c) /\ UNCHANGED exec
      /\ worker' = [worker EXCEPT ![c] = IdleWorker]
  BY <1>1 DEF ConsumerCrash, LostMessage
<1>3. Dies(c)
  BY <1>0, <1>2, ResetFacts DEF Dies
<1>4. ASSUME NoLosses PROVE Messages' = Messages + 1
  BY <1>0, <1>1, <1>4, PublishCounts DEF NoLosses, LostMessage, Fault, ConsumerCrash
<1>5. QED
  BY <1>3, <1>4

LEMMA WakerCrashOutcome ==
    ASSUME WakerCrash
    PROVE  UNCHANGED <<exec, queue, worker>> /\ ~NoLosses
BY DEF WakerCrash, executorVars, NoLosses, Fault

\* A consumer that takes a message off a queue has not looked at the row yet.
LEMMA ReceiveOutcome ==
    ASSUME OutcomeInv, NEW c \in Consumers, Receive(c)
    PROVE  UNCHANGED exec /\ worker'[c].pc \in Loading /\ OthersUnchanged(c)
<1>1. worker \in Workers
  BY DEF OutcomeInv, TokenInv, TypeInv, ConsumersOK, ExecutorTypeOK, Workers
<1>2. QED
  BY <1>1, ReceiveFacts DEF Receive, Loading

LEMMA StepOutcome ==
    ASSUME NoDuplicates, OutcomeInv, [Next]_vars
    PROVE  \/ \E c \in Consumers : Outcome(c) /\ UNCHANGED wakerVars
           \/ \E c \in Consumers : Receive(c)
           \/ \E c \in Consumers : Dies(c) /\ (NoLosses => Messages' = Messages + 1)
           \/ WakerCrash
           \/ WakerOutcome
<1>1. ASSUME NEW c \in Consumers, ConsumerStep(c)
      PROVE  Receive(c) \/ (Outcome(c) /\ UNCHANGED wakerVars)
  <2>1. CASE ResumeStep(c) /\ UNCHANGED approvalVars
    <3>1. UNCHANGED wakerVars
      BY <2>1 DEF ResumeStep, DropResume, LoadParked, FetchParked, CloseParkedRows, ExpireGate,
                  MarkRunning, wakerVars
    <3>2. QED
      BY <2>1, <3>1, ResumeOutcome
  <2>2. QED
    BY <1>1, <2>1, ExecutorOutcome DEF ConsumerStep
<1>2. CASE Faults
  BY <1>2, ConsumerFaultOutcome DEF Faults
<1>3. CASE UNCHANGED vars
  <2>1. UNCHANGED <<exec, queue, worker, wakerVars>>
    BY <1>3 DEF vars, storeVars, executorVars, wakerVars
  <2>2. QED
    BY <2>1, KeepOutcome
       DEF ClaimHeld, SweepHolds, DeliveryHolds, ApproverHolds, wakerVars, resumeVars, approvalVars
<1>4. QED
  BY <1>1, <1>2, <1>3, SweeperOutcome, DeliveryOutcome, ApproverOutcome, ReconcilerOutcome, TimeOutcome
     DEF Next, Finished
-----------------------------------------------------------------------------
LEMMA SettledPreserved ==
    ASSUME NoDuplicates, OutcomeInv, [Next]_vars
    PROVE  \A c \in Consumers : Settled(c)'
<1> SUFFICES ASSUME NEW k \in Consumers PROVE Settled(k)'
  OBVIOUS
<1>0. Settled(k) /\ OneWalker
  BY DEF OutcomeInv, TokenInv, Owned, SingleToken
<1>1. ASSUME NEW c \in Consumers, Outcome(c) PROVE Settled(k)'
  <2>1. CASE k = c
    BY <1>0, <1>1, <2>1
       DEF Outcome, Drops, Moves, Returns, Saves, Working, Settled, Walking
  <2>2. CASE k # c
    <3>1. worker'[k] = worker[k]
      BY <1>1, <2>2 DEF Outcome, OthersUnchanged
    <3>2. CASE UNCHANGED exec
      BY <1>0, <3>1, <3>2 DEF Settled, Walking
    <3>3. CASE Saves(c)
      BY <1>0, <2>2, <3>1, <3>3 DEF Saves, Working, OneWalker, Settled, Walking
    <3>4. QED
      BY <1>1, <3>2, <3>3 DEF Outcome, Drops, Moves, Returns
  <2>3. QED
    BY <2>1, <2>2
<1>2. ASSUME NEW c \in Consumers, Receive(c) PROVE Settled(k)'
  BY <1>0, <1>2, ReceiveOutcome DEF Settled, Walking, OthersUnchanged
<1>3. ASSUME NEW c \in Consumers, Dies(c) PROVE Settled(k)'
  BY <1>0, <1>3 DEF Dies, Settled, Walking, OthersUnchanged
<1>4. CASE WakerCrash
  BY <1>0, <1>4, WakerCrashOutcome DEF Settled, Walking
<1>5. CASE WakerOutcome
  <2>1. CASE Keeps
    BY <1>0, <1>5, <2>1 DEF WakerOutcome, Keeps, Settled, Walking
  <2>2. CASE Claims \/ Unclaims
    BY <1>5, <2>2 DEF WakerOutcome, Claims, Unclaims, Idle, Settled, Walking
  <2>3. QED
    BY <1>5, <2>1, <2>2 DEF WakerOutcome
<1>6. QED
  BY <1>1, <1>2, <1>3, <1>4, <1>5, StepOutcome

LEMMA SettledInitially == Init => \A c \in Consumers : Settled(c)
BY DEF Init, ExecutorInit, IdleWorker, Settled, Walking

LEMMA EndIsFinal ==
    ASSUME NoDuplicates, OutcomeInv, [Next]_vars
    PROVE  exec.status \in Terminal => UNCHANGED exec
<1>1. ASSUME NEW c \in Consumers, Outcome(c)
      PROVE  exec.status \in Terminal => UNCHANGED exec
  BY <1>1 DEF OutcomeInv, Settled, Outcome, Drops, Moves, Returns, Saves, Working
<1>2. WakerOutcome => (exec.status \in Terminal => UNCHANGED exec)
  BY DEF WakerOutcome, Keeps, Claims, Unclaims, Terminal
<1>3. QED
  BY <1>1, <1>2, StepOutcome, ReceiveOutcome, WakerCrashOutcome DEF Dies

LEMMA SomebodyCarriesOn ==
    ASSUME NoDuplicates, NoLosses, OutcomeInv, NeverAbandoned, [Next]_vars
    PROVE  NeverAbandoned'
<1> SUFFICES ASSUME exec'.status \in {"pending", "running"}
             PROVE  ~Idle' \/ ClaimHeld'
  BY DEF NeverAbandoned
<1>0. queue \in [Topics -> Nat] /\ Messages \in Nat
  BY DEF OutcomeInv, TokenInv, TypeInv, StoreTypeOK, Messages, Topics
<1>1. ASSUME Messages' > 0 PROVE ~Idle'
  BY <1>1 DEF Idle, Messages
<1>2. ASSUME NEW c \in Consumers, Walking(c)' PROVE ~Idle'
  BY <1>2 DEF Idle
<1>3. ASSUME NEW c \in Consumers, Outcome(c), UNCHANGED wakerVars PROVE ~Idle' \/ ClaimHeld'
  <2>1. CASE Drops(c)
    <3>1. exec.status \in {"pending", "running"} /\ ~Walking(c) /\ ~Walking(c)' /\ UNCHANGED queue
      BY <2>1 DEF Drops
    <3>2. Idle' => Idle
      BY <1>3, <3>1 DEF Idle, Walking, Outcome, OthersUnchanged
    <3>3. ClaimHeld => ClaimHeld'
      BY <1>3 DEF ClaimHeld, SweepHolds, DeliveryHolds, ApproverHolds, wakerVars, resumeVars,
                  approvalVars
    <3>4. QED
      BY <3>1, <3>2, <3>3 DEF NeverAbandoned
  <2>2. CASE Moves(c)
    BY <1>2, <2>2 DEF Moves
  <2>3. CASE Returns(c)
    BY <1>0, <1>1, <2>3 DEF Returns
  <2>4. CASE Saves(c)
    BY <1>2, <2>4 DEF Saves, Terminal, Walking
  <2>5. QED
    BY <1>3, <2>1, <2>2, <2>3, <2>4 DEF Outcome
<1>4. ASSUME NEW c \in Consumers, Receive(c) PROVE ~Idle'
  BY <1>2, <1>4, ReceiveOutcome DEF Walking, Loading
<1>5. ASSUME NEW c \in Consumers, Messages' = Messages + 1 PROVE ~Idle'
  BY <1>0, <1>1, <1>5
<1>6. CASE WakerOutcome
  <2>1. CASE Keeps
    <3>1. Idle' => Idle
      BY <1>0, <1>6, <2>1 DEF WakerOutcome, Keeps, Idle, Messages, Walking
    <3>2. QED
      BY <1>1, <2>1, <3>1 DEF Keeps, NeverAbandoned
  <2>2. CASE Claims \/ Unclaims
    BY <2>2 DEF Claims, Unclaims
  <2>3. QED
    BY <1>6, <2>1, <2>2 DEF WakerOutcome
<1>7. QED
  BY <1>3, <1>4, <1>5, <1>6, StepOutcome, WakerCrashOutcome
=============================================================================
