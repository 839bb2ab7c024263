----------------------------- MODULE EngineRuns -----------------------------
(***************************************************************************)
(* The engine implements the run it promises (WorkflowRun): the proof that *)
(* every step of every process is a step of the abstract run or leaves it  *)
(* alone, as long as no consumer dies and has its message redelivered.     *)
(* And what follows if the entry reaches no cycle: an execution does not   *)
(* come back to a step it has left.                                        *)
(***************************************************************************)
EXTENDS EngineRows

(***************************************************************************)
(* A redelivered message may find a step row that waits although the       *)
(* execution is not parked yet; the resume consumer then ends a park that  *)
(* nobody claimed.  Without redelivery nobody comes by in between.         *)
(***************************************************************************)
NoRedelivery == NoDuplicates /\ "consumer_crash" \notin FaultKinds

\* Between the two statements of a park only its consumer is there, or nobody.
ParkIsQuiet ==
    exec.status = "running" /\ ~NoneWaits =>
        /\ Messages = 0
        /\ \A c \in Consumers : Walking(c) => worker[c].pc = "park_exec"

\* A resume message routes an execution that was claimed, and no other.
RoutesClaimed(c) ==
    worker[c].pc \in {"expire", "mark_running"} /\ exec.status = "running"
        => worker[c].mem = exec

QuietInv == RowsInv /\ ParkIsQuiet /\ \A c \in Consumers : RoutesClaimed(c)
-----------------------------------------------------------------------------
(***************************************************************************)
(* What a consumer's action does to the execution row and the step rows:   *)
(* it leaves both alone, works on the row of the step it is at, closes the *)
(* waiting rows, or saves the execution in one of seven ways.              *)
(***************************************************************************)
Looks == UNCHANGED exec /\ StatsKept

WorksOnRow(c) ==
    /\ UNCHANGED exec
    /\ exec.status = "running"
    /\ worker[c].pc \in OnItsStep \ {"park_exec"}
    /\ \E s \in Steps, status \in RowStatuses \ {"absent"} :
          /\ s = exec.current
          /\ StatSet(s, status)
          /\ status = "waiting" => worker'[c].pc = "park_exec"

ClosesRows(c) == UNCHANGED exec /\ worker[c].pc = "close" /\ WaitsClosed

SavesSkip ==
    /\ exec.status = "pending" /\ Untouched
    /\ exec'.status = "skipped" /\ exec'.current = exec.current

SavesStart ==
    /\ exec'.status = "running"
    /\ \/ exec.status = "running" /\ exec'.current = exec.current
       \/ /\ exec.status = "pending" /\ Untouched
          /\ Entry # NoStep
          /\ exec'.current = Entry

SavesArrival ==
    /\ exec.status = "running" /\ exec'.status = "running"
    /\ exec'.current \in Steps
    /\ exec'.current = exec.current \/ WalksOn(exec.current, exec'.current)

SavesPark ==
    /\ exec.status = "running" /\ exec'.status = "waiting"
    /\ exec.current \in Steps
    /\ StepType[exec.current] \in ParkingTypes
    /\ exec'.current = IF StepType[exec.current] = "delay" THEN Edge[exec.current]["next"]
                       ELSE exec.current

SavesCompletion ==
    /\ AllClean
    /\ exec'.status = "complete" /\ exec'.current = NoStep
    /\ \/ exec.status = "pending" /\ Untouched /\ Entry = NoStep
       \/ /\ exec.status = "running"
          /\ \/ exec.current = NoStep
             \/ WalksOn(exec.current, NoStep)
             \/ exec.current \in Steps /\ StepType[exec.current] = "stop"

SavesFailure ==
    /\ exec.status \in {"pending", "running"}
    /\ exec.status = "pending" => Untouched
    /\ exec'.status = "failed" /\ exec'.current = exec.current

SavesResumption(c) ==
    /\ NoneWaits
    /\ worker[c].pc = "mark_running"
    /\ exec.status \in {"pending", "running"}
    /\ exec.status = "pending" => ~Untouched
    /\ exec'.status = "running" /\ exec'.current = worker[c].mem.current
    /\ \/ exec'.current = exec.current
       \/ /\ exec.current \in Steps
          /\ StepType[exec.current] \in {"wait", "approval"}
          /\ exec'.current \in Successors(exec.current)

SavesRow(c) ==
    /\ UNCHANGED rows
    /\ \/ SavesSkip \/ SavesStart \/ SavesArrival
       \/ worker[c].pc = "park_exec" /\ SavesPark
       \/ SavesCompletion \/ SavesFailure \/ SavesResumption(c)

Acts(c) == Looks \/ WorksOnRow(c) \/ ClosesRows(c) \/ SavesRow(c)

LEMMA WorkActs ==
    ASSUME RowsInv, NEW c \in Consumers,
           \/ ClaimStepRow(c) \/ InsertStepRow(c) \/ PerformAction(c) \/ RecordSuccess(c)
           \/ ActionToRetry(c) \/ ActionFails(c) \/ FollowEdge(c) \/ ReachStop(c)
           \/ OpenGate(c) \/ GateWithoutModule(c) \/ ParkStepRow(c)
    PROVE  Acts(c)
<1>0. /\ worker \in Workers /\ rows \in RowTable /\ OneRow
  BY DEF RowsInv, RowsFit, RowsOK, OutcomeInv, TokenInv, TypeInv, StoreTypeOK, ConsumersOK,
         ExecutorTypeOK, Workers, RowTable
<1>1. worker[c].pc \in OnItsStep \ {"park_exec"} /\ UNCHANGED exec
  BY DEF OnItsStep, AtStep, At, ClaimStepRow, InsertStepRow, PerformAction, RecordSuccess,
         ActionToRetry, ActionFails, FollowEdge, ReachStop, OpenGate, GateWithoutModule, ParkStepRow,
         storeVars
<1>2. PICK s \in Steps : s = worker[c].step
  BY <1>1, AtTheCursor
<1>3. exec.status = "running" /\ s = exec.current /\ WalkerOK(worker[c])
  BY <1>1, <1>2, AtTheCursor
<1>4. ASSUME UNCHANGED rows PROVE Acts(c)
  BY <1>1, <1>4 DEF Acts, Looks, StatsKept, Stat
<1>5. ASSUME NEW status \in RowStatuses \ {"absent"}, StatSet(s, status),
             status = "waiting" => worker'[c].pc = "park_exec"
      PROVE  Acts(c)
  BY <1>1, <1>3, <1>5 DEF Acts, WorksOnRow
<1>6. CASE ClaimStepRow(c)
  <2>1. ASSUME NEW i \in RowsOf(s),
               rows' = [rows EXCEPT ![s][i].status = "running", ![s][i].stale = FALSE]
        PROVE  Acts(c)
    BY <1>0, <1>5, <2>1, RowSet DEF RowStatuses
  <2>2. QED
    BY <1>2, <1>4, <1>6, <2>1 DEF ClaimStepRow
<1>7. CASE InsertStepRow(c)
  <2>1. PICK i \in Slots :
            /\ RowsOf(s) = 1..(i - 1)
            /\ rows' = [rows EXCEPT ![s][i] = [AbsentRow EXCEPT !.status = "running"]]
    BY <1>2, <1>7 DEF InsertStepRow
  <2>2. RowsOf(s) = {}
    <3>1. Stat(s) = "absent"
      BY <1>2, <1>3, <1>7 DEF InsertStepRow, At, WalkerOK, Walks
    <3>2. QED
      BY <1>0, <3>1, TheOneRow
  <2>3. i = 1
    <3>1. 1 \notin 1..(i - 1)
      BY <2>1, <2>2
    <3>2. QED
      BY <3>1, StoreAssumption DEF Slots
  <2>4. [AbsentRow EXCEPT !.status = "running"].status = "running"
    BY DEF AbsentRow
  <2>5. StatSet(s, "running")
    BY <1>0, <2>1, <2>3, <2>4, RunningRow, RowReplaced
  <2>6. QED
    BY <1>5, <2>5 DEF RowStatuses
<1>8. CASE PerformAction(c) \/ OpenGate(c)
  BY <1>4, <1>8 DEF PerformAction, OpenGate, storeVars
<1>9. ASSUME NEW status \in RowStatuses \ {"absent"},
             NEW result \in Resolutions \cup {NoResult, "output"},
             SetStepRow(s, status, result), status # "waiting"
      PROVE  Acts(c)
  BY <1>0, <1>5, <1>9, StepRowSet
<1>10. CASE RecordSuccess(c) \/ ActionFails(c) \/ FollowEdge(c) \/ GateWithoutModule(c)
  BY <1>2, <1>9, <1>10 DEF RecordSuccess, ActionFails, FollowEdge, GateWithoutModule, RowStatuses
<1>11. CASE ActionToRetry(c) \/ ReachStop(c)
  <2>1. PICK i \in RowsOf(s), status \in {"pending", "complete"} :
            rows' = [rows EXCEPT ![s][i].status = status]
    BY <1>2, <1>11 DEF ActionToRetry, ReachStop
  <2>2. StatSet(s, status)
    BY <1>0, <2>1, RowSet DEF RowStatuses
  <2>3. QED
    BY <1>5, <2>1, <2>2 DEF RowStatuses
<1>12. CASE ParkStepRow(c)
  <2>1. PICK i \in RowsOf(s) :
            rows' = [rows EXCEPT ![s][i].status = "waiting", ![s][i].due = FALSE]
    BY <1>2, <1>12 DEF ParkStepRow
  <2>2. StatSet(s, "waiting")
    BY <1>0, <2>1, RowSet DEF RowStatuses
  <2>3. worker'[c].pc = "park_exec"
    BY <1>0, <1>12, GotoFacts DEF ParkStepRow, Labels, ExecutorLabels
  <2>4. QED
    BY <1>5, <2>2, <2>3 DEF RowStatuses
<1>13. QED
  BY <1>6, <1>7, <1>8, <1>10, <1>11, <1>12

LEMMA SaveActs ==
    ASSUME RowsInv, NEW c \in Consumers,
           \/ SaveSkipped(c) \/ EnterWalk(c) \/ ArriveAtStep(c) \/ ParkExecution(c)
           \/ CompleteExecution(c) \/ FailExecution(c) \/ MarkRunning(c)
    PROVE  Acts(c)
<1>0. /\ worker \in Workers /\ worker[c] \in WorkerState /\ exec \in ExecRow
      /\ TokenInv /\ OutcomeInv /\ PendingRows /\ Settled(c)
      /\ worker[c].pc \in AtStep => worker[c].step \in Steps
  BY DEF RowsInv, RowsFit, RowsOK, OutcomeInv, TokenInv, TypeInv, StoreTypeOK, ConsumersOK,
         ExecutorTypeOK, Workers, CursorOK
<1>1. Walking(c) /\ WalkerOK(worker[c]) /\ UNCHANGED rows
  BY DEF RowsInv, RowsFit, WalkersOK, Walking, At, SaveSkipped, EnterWalk, ArriveAtStep,
         ParkExecution, CompleteExecution, FailExecution, MarkRunning
<1>2. exec.status # "waiting"
  BY <1>0, <1>1, WalkedIsNotParked
<1>3. ASSUME worker[c].pc \notin Loading \cup {"orphan"} PROVE exec.status \in {"pending", "running"}
  BY <1>0, <1>1, <1>2, <1>3 DEF Settled, ExecRow, Statuses
<1>4. ASSUME NEW label \in Labels, NEW m \in ExecRow, SaveAs(c, m, label),
             worker[c].pc \notin Loading
      PROVE  exec' = m
  BY <1>0, <1>1, <1>4, SavedAsMade
<1>5. CASE SaveSkipped(c)
  <2>1. worker[c].pc = "skip" /\ SaveAs(c, worker[c].mem, "ack")
    BY <1>5 DEF SaveSkipped, At
  <2>2. exec.status = "pending" /\ Untouched /\ worker[c].mem = [exec EXCEPT !.status = "skipped"]
    BY <1>1, <2>1 DEF WalkerOK, Starts
  <2>3. exec' = worker[c].mem
    BY <1>0, <1>4, <2>1 DEF WorkerState, Loading, Labels, ExecutorLabels
  <2>4. SavesSkip
    BY <1>0, <2>2, <2>3 DEF SavesSkip, ExecRow
  <2>5. QED
    BY <1>1, <2>4 DEF Acts, SavesRow
<1>6. CASE EnterWalk(c)
  <2>1. worker[c].pc = "enter" /\ SaveAs(c, worker[c].mem, "arrive")
    BY <1>6 DEF EnterWalk, At
  <2>2. /\ worker[c].mem = [exec EXCEPT !.status = "running", !.current = worker[c].step]
        /\ \/ exec.status = "running" /\ worker[c].step = exec.current
           \/ exec.status = "pending" /\ Untouched /\ worker[c].step = Entry
        /\ worker[c].step \in Steps
    BY <1>0, <1>1, <2>1 DEF WalkerOK, Starts, AtStep
  <2>3. exec' = worker[c].mem
    BY <1>0, <1>4, <2>1 DEF WorkerState, Loading, Labels, ExecutorLabels
  <2>4. exec'.status = "running" /\ exec'.current = worker[c].step
    BY <1>0, <2>2, <2>3 DEF ExecRow
  <2>5. SavesStart
    BY <2>2, <2>4, DefinitionAssumption DEF SavesStart
  <2>6. QED
    BY <1>1, <2>5 DEF Acts, SavesRow
<1>7. CASE ArriveAtStep(c)
  <2> DEFINE s == worker[c].step
             m == [worker[c].mem EXCEPT !.current = s]
  <2>1. worker[c].pc = "arrive" /\ exec' = DirtyFields(exec, worker[c].snap, m)
    BY <1>7 DEF ArriveAtStep, At
  <2>2. /\ s \in Steps /\ worker[c].mem = exec /\ exec.status = "running"
        /\ s = exec.current \/ WalksOn(exec.current, s)
    BY <1>0, <1>1, <2>1 DEF WalkerOK, Walks, AtStep
  <2>3. m \in ExecRow /\ m.status = "running" /\ m.current = s
    BY <1>0, <2>2 DEF ExecRow, Targets
  <2>4. worker[c].snap = exec
    BY <1>0, <1>1, <2>1 DEF TokenInv, Owned, WalkerViewIsFresh
  <2> HIDE DEF m
  <2>5. exec' = m
    BY <1>0, <2>1, <2>3, <2>4, FreshSave
  <2>6. SavesArrival
    BY <2>2, <2>3, <2>5 DEF SavesArrival
  <2>7. QED
    BY <1>1, <2>6 DEF Acts, SavesRow
<1>8. CASE ParkExecution(c)
  <2>1. worker[c].pc = "park_exec"
    BY <1>8 DEF ParkExecution, At
  <2>2. PICK s \in Steps : s = worker[c].step
    BY <2>1, AtTheCursor DEF OnItsStep, AtStep
  <2>3. /\ s = exec.current /\ worker[c].mem = exec /\ exec.status = "running"
        /\ StepType[s] \in ParkingTypes
    BY <1>1, <2>1, <2>2, AtTheCursor DEF OnItsStep, AtStep, WalkerOK, Walks, LabelFits
  <2> DEFINE m == ParkedAs(s, exec)
  <2>4. m \in ExecRow
    BY <1>0, ParkedType
  <2>5. /\ m.status = "waiting"
        /\ m.current = IF StepType[s] = "delay" THEN Edge[s]["next"] ELSE s
    <3>1. CASE StepType[s] = "delay"
      BY <1>0, <3>1 DEF ParkedAs, ExecRow
    <3>2. CASE StepType[s] # "delay"
      BY <3>2 DEF ParkedAs
    <3>3. QED
      BY <3>1, <3>2
  <2>6. SaveAs(c, m, "ack")
    BY <1>8, <2>2, <2>3 DEF ParkExecution
  <2> HIDE DEF m
  <2>7. exec' = m
    BY <1>4, <2>1, <2>4, <2>6 DEF Loading, Labels, ExecutorLabels
  <2>8. SavesPark
    BY <2>3, <2>5, <2>7 DEF SavesPark
  <2>9. QED
    BY <1>1, <2>1, <2>8 DEF Acts, SavesRow
<1>9. CASE CompleteExecution(c)
  <2> DEFINE m == [worker[c].mem EXCEPT !.status = "complete", !.current = NoStep]
  <2>1. SaveAs(c, m, "ack") /\ worker[c].pc = "complete"
    BY <1>9 DEF CompleteExecution, At
  <2>2. worker[c].mem = exec
    BY <1>1, <2>1 DEF WalkerOK, Ends
  <2>3. m \in ExecRow /\ m.status = "complete" /\ m.current = NoStep
    BY <1>0, <2>2 DEF ExecRow, Statuses, Terminal, Targets
  <2> HIDE DEF m
  <2>4. exec' = m
    BY <1>4, <2>1, <2>3 DEF Loading, Labels, ExecutorLabels
  <2>5. SavesCompletion
    BY <1>1, <2>1, <2>3, <2>4 DEF WalkerOK, Ends, SavesCompletion
  <2>6. QED
    BY <1>1, <2>5 DEF Acts, SavesRow
<1>10. CASE FailExecution(c)
  <2> DEFINE m == [worker[c].mem EXCEPT !.status = "failed"]
             label == IF ApprovalsInstalled THEN "orphan" ELSE "ack"
  <2>1. SaveAs(c, m, label) /\ worker[c].pc = "fail" /\ label \in Labels
    BY <1>10 DEF FailExecution, At, Labels, ExecutorLabels
  <2>2. worker[c].mem = exec /\ (exec.status = "pending" => Untouched)
    BY <1>1, <2>1 DEF WalkerOK, Ends
  <2>3. m \in ExecRow /\ m.status = "failed" /\ m.current = exec.current
    BY <1>0, <2>2 DEF ExecRow, Statuses, Terminal
  <2> HIDE DEF m, label
  <2>4. exec' = m
    BY <1>4, <2>1, <2>3 DEF Loading
  <2>5. SavesFailure
    BY <1>3, <2>1, <2>2, <2>3, <2>4 DEF SavesFailure, Loading
  <2>6. QED
    BY <1>1, <2>5 DEF Acts, SavesRow
<1>11. CASE MarkRunning(c)
  <2> DEFINE m == [worker[c].mem EXCEPT !.status = "running"]
  <2>1. SaveAs(c, m, "load") /\ worker[c].pc = "mark_running"
    BY <1>11 DEF MarkRunning, At
  <2>2. /\ worker[c].mem \in ExecRow
        /\ worker[c].topic = "resume"
        /\ NoneWaits
        /\ exec.status \in {"pending", "running"}
        /\ worker[c].mem = Routed(worker[c].parked, exec)
        /\ worker[c].mem.current # exec.current =>
               /\ worker[c].parked.step = exec.current
               /\ exec.current \in Steps
               /\ StepType[exec.current] \in {"wait", "approval"}
    BY <1>0, <1>1, <2>1 DEF WorkerState, WalkerOK, Resumes, ResumeLabels
  <2>3. m \in ExecRow /\ m.status = "running" /\ m.current = worker[c].mem.current
    BY <2>2 DEF ExecRow, Statuses
  <2> HIDE DEF m
  <2>4. exec' = m
    BY <1>4, <2>1, <2>3 DEF Loading, Labels, ExecutorLabels
  <2>5. exec.status = "pending" => ~Untouched
    BY <1>0, <1>1, <2>2 DEF PendingRows, New, Woken
  <2>6. worker[c].mem.current # exec.current => worker[c].mem.current \in Successors(exec.current)
    <3> SUFFICES ASSUME worker[c].mem.current # exec.current
                 PROVE  worker[c].mem.current \in Successors(exec.current)
      OBVIOUS
    <3>1. PICK s \in Steps : s = exec.current /\ StepType[s] \in {"wait", "approval"}
                             /\ worker[c].parked.step = s
      BY <2>2
    <3>2. worker[c].mem.current = Edge[s][ResumeEdge(worker[c].parked)]
      BY <1>0, <2>2, <3>1, DefinitionAssumption DEF Routed, ExecRow
    <3>3. ResumeEdge(worker[c].parked) \in DOMAIN Edge[s]
      BY <3>1, DefinitionAssumption DEF ResumeEdge, HasDeclaredEdges, IsGate
    <3>4. QED
      BY <3>1, <3>2, <3>3 DEF Successors
  <2>7. SavesResumption(c)
    BY <2>1, <2>2, <2>3, <2>4, <2>5, <2>6 DEF SavesResumption
  <2>8. QED
    BY <1>1, <2>7 DEF Acts, SavesRow
<1>12. QED
  BY <1>5, <1>6, <1>7, <1>8, <1>9, <1>10, <1>11

LEMMA ConsumerActs ==
    ASSUME RowsInv, NEW c \in Consumers, ConsumerMoves(c)
    PROVE  Acts(c)
<1>1. CASE \/ Receive(c) \/ Acknowledge(c) \/ DropMessage(c) \/ RejectSnapshot(c)
           \/ SkipByConditions(c) \/ BeginWalk(c) \/ NothingLeftToWalk(c) \/ ExceedIterations(c)
           \/ OrphanOpenTasks(c) \/ DropResume(c) \/ LoadParked(c) \/ FetchParked(c) \/ ExpireGate(c)
  <2>1. UNCHANGED <<exec, rows>>
    BY <1>1 DEF Receive, Acknowledge, DropMessage, RejectSnapshot, SkipByConditions, BeginWalk,
                NothingLeftToWalk, ExceedIterations, OrphanOpenTasks, DropResume, LoadParked,
                FetchParked, ExpireGate, storeVars
  <2>2. QED
    BY <2>1 DEF Acts, Looks, StatsKept, Stat
<1>2. CASE CloseParkedRows(c)
  <2>1. rows \in RowTable /\ OneRow
    BY DEF RowsInv, RowsFit, RowsOK, OutcomeInv, TokenInv, TypeInv, StoreTypeOK, RowTable
  <2>2. WaitsClosed
    BY <1>2, <2>1, WaitingRowsMapped DEF CloseParkedRows, RowStatuses
  <2>3. QED
    BY <1>2, <2>2 DEF CloseParkedRows, At, Acts, ClosesRows
<1>3. QED
  BY <1>1, <1>2, WorkActs, SaveActs DEF ConsumerMoves, ExecutorStep, ResumeStep

LEMMA EveryStepActs ==
    ASSUME NoDuplicates, RowsInv, [Next]_vars
    PROVE  \/ \E c \in Consumers : Acts(c)
           \/ ParkClaimed \/ ClaimPublished \/ ClaimReturned
           \/ Looks
<1>1. TokenInv /\ OneRow
  BY DEF RowsInv, RowsFit, RowsOK, OutcomeInv
<1>2. ASSUME NEW c \in Consumers, ConsumerGone(c) PROVE Looks
  BY <1>2 DEF ConsumerGone, Looks, StatsKept, Stat
<1>3. StatusesLeft \/ ZombiePublished => Looks
  BY DEF StatusesLeft, ZombiePublished, Looks, StatsKept, Stat
<1>4. QED
  BY <1>1, <1>2, <1>3, StepKinds, ConsumerActs DEF WakerKind

\* A step of a waker, or one that looks only, leaves the statuses of the rows alone.
LEMMA StatsKeptAside ==
    ASSUME ParkClaimed \/ ClaimPublished \/ ClaimReturned \/ Looks
    PROVE  StatsKept
BY DEF ParkClaimed, ClaimPublished, ClaimReturned, Looks, StatsKept, Stat

LEMMA NotUntouched ==
    ASSUME WaitingRows # {}, OneRow
    PROVE  ~NoneWaits /\ ~Untouched /\ ~AllClean
BY DEF WaitingRows, OneRow, NoneWaits, Untouched, AllClean, Stat

(***************************************************************************)
(* As long as a row of a claimed execution waits, a consumer moves it on   *)
(* only through the resume consumer, which closes that row first: an       *)
(* execute message neither starts it anew nor skips it by root conditions. *)
(***************************************************************************)
THEOREM ClaimedIsNotStarted ==
    ASSUME NoDuplicates
    PROVE  Spec => OnlyResumeWakes
<1>1. ASSUME RowsInv, [Next]_vars
      PROVE  exec.status = "pending" /\ WaitingRows # {} => exec'.status \in {"pending", "waiting"}
  <2> SUFFICES ASSUME exec.status = "pending", WaitingRows # {}
               PROVE  exec'.status \in {"pending", "waiting"}
    OBVIOUS
  <2>1. exec \in ExecRow /\ OneRow
    BY <1>1 DEF RowsInv, RowsFit, RowsOK, OutcomeInv, TokenInv, TypeInv, StoreTypeOK
  <2>2. ~NoneWaits /\ ~Untouched /\ ~AllClean
    BY <2>1, NotUntouched
  <2>3. ASSUME NEW c \in Consumers, Acts(c) PROVE UNCHANGED exec
    BY <2>2, <2>3
       DEF Acts, Looks, WorksOnRow, ClosesRows, SavesRow, SavesSkip, SavesStart, SavesArrival,
           SavesPark, SavesCompletion, SavesFailure, SavesResumption
  <2>4. ParkClaimed \/ ClaimPublished \/ ClaimReturned \/ Looks
            => exec'.status \in {"pending", "waiting"}
    BY <2>1 DEF ParkClaimed, ClaimPublished, ClaimReturned, Looks, ClaimWaiting, RollbackClaim, ExecRow
  <2>5. QED
    BY <1>1, <2>3, <2>4, EveryStepActs
<1>2. RowsInv /\ [Next]_vars
          => [exec.status = "pending" /\ WaitingRows # {}
                  => exec'.status \in {"pending", "waiting"}]_vars
  BY <1>1
<1>3. QED
  BY <1>2, RowsFitTheRun, PTL DEF Spec, OnlyResumeWakes
-----------------------------------------------------------------------------
(***************************************************************************)
(* Without redelivery nobody gets between the two statements of a park.    *)
(***************************************************************************)
\* Only the resume consumer's own actions lead to the labels where it routes.
LEMMA RoutingLabels ==
    ASSUME RowsInv, NEW c \in Consumers, ConsumerMoves(c),
           worker'[c].pc \in {"expire", "mark_running"}
    PROVE  ExpireGate(c) \/ CloseParkedRows(c)
<1>0. /\ worker \in Workers
      /\ worker[c].pc \in AtStep => worker[c].step \in Steps
  BY DEF RowsInv, OutcomeInv, TokenInv, TypeInv, ConsumersOK, ExecutorTypeOK, Workers, CursorOK
<1>1. ASSUME NEW label \in Labels, Goto(c, label) PROVE worker'[c].pc = label
  BY <1>0, <1>1, GotoFacts
<1>2. ASSUME NEW label \in Labels, NEW m, LoadAs(c, m, label) PROVE worker'[c].pc = label
  BY <1>0, <1>2 DEF LoadAs, Workers, WorkerState
<1>3. ASSUME NEW label \in Labels, NEW m, SaveAs(c, m, label) PROVE worker'[c].pc = label
  BY <1>0, <1>3 DEF SaveAs, Workers, WorkerState
<1>4. ASSUME NEW next, Continue(c, next) PROVE worker'[c].pc \in {"complete", "arrive"}
  BY <1>0, <1>4 DEF Continue, Workers, WorkerState
<1>5. worker' = [worker EXCEPT ![c] = IdleWorker] => worker'[c].pc = "idle"
  BY <1>0, ResetFacts
<1>6. \A s \in Steps : StepLabel(s) \in Labels \ {"expire", "mark_running"}
  BY DefinitionAssumption DEF StepLabel, StepTypes, Labels, ExecutorLabels
<1>7. \A label \in ExecutorLabels \cup {"fetch"} : label \in Labels
  BY DEF Labels, ResumeLabels
<1>8. ~(Acknowledge(c) \/ ActionToRetry(c))
  BY <1>5 DEF Acknowledge, ActionToRetry
<1>9. ~(DropMessage(c) \/ ExceedIterations(c) \/ PerformAction(c) \/ ActionFails(c) \/ ReachStop(c)
        \/ OpenGate(c) \/ GateWithoutModule(c) \/ ParkStepRow(c) \/ OrphanOpenTasks(c)
        \/ DropResume(c))
  <2>1. \A label \in {"ack", "fail", "acted", "complete", "park_row", "park_exec"} : ~Goto(c, label)
    BY <1>1 DEF Labels, ExecutorLabels
  <2>2. QED
    BY <2>1 DEF DropMessage, ExceedIterations, PerformAction, ActionFails, ReachStop, OpenGate,
                GateWithoutModule, ParkStepRow, OrphanOpenTasks, DropResume
<1>10. ~(ClaimStepRow(c) \/ InsertStepRow(c))
  <2>1. \A s \in Steps : ~Goto(c, StepLabel(s))
    BY <1>1, <1>6
  <2>2. ~Goto(c, "insert")
    BY <1>1 DEF Labels, ExecutorLabels
  <2>3. ASSUME worker[c].pc \in {"claim", "insert"} PROVE worker[c].step \in Steps
    BY <1>0, <2>3 DEF AtStep
  <2>4. QED
    BY <2>1, <2>2, <2>3 DEF ClaimStepRow, InsertStepRow, At
<1>11. ~(RejectSnapshot(c) \/ SkipByConditions(c) \/ BeginWalk(c) \/ NothingLeftToWalk(c)
         \/ LoadParked(c))
  <2>1. \A label \in {"fail", "skip", "enter", "complete", "fetch"} : \A m : ~LoadAs(c, m, label)
    BY <1>2, <1>7 DEF ExecutorLabels
  <2>2. QED
    BY <2>1 DEF RejectSnapshot, SkipByConditions, BeginWalk, NothingLeftToWalk, LoadParked
<1>12. ~(SaveSkipped(c) \/ EnterWalk(c) \/ ParkExecution(c) \/ CompleteExecution(c)
         \/ FailExecution(c) \/ MarkRunning(c))
  <2>1. \A label \in {"ack", "arrive", "orphan", "load"} : \A m : ~SaveAs(c, m, label)
    BY <1>3, <1>7 DEF ExecutorLabels
  <2>2. QED
    BY <2>1 DEF SaveSkipped, EnterWalk, ParkExecution, CompleteExecution, FailExecution, MarkRunning
<1>13. ~(RecordSuccess(c) \/ FollowEdge(c))
  BY <1>4 DEF RecordSuccess, FollowEdge
<1>14. ~ArriveAtStep(c)
  BY <1>0 DEF ArriveAtStep, Workers, WorkerState
<1>15. ~FetchParked(c)
  BY <1>0 DEF FetchParked, Workers, WorkerState
<1>16. ~Receive(c)
  BY <1>0 DEF Receive, Workers, WorkerState
<1>17. QED
  BY <1>8, <1>9, <1>10, <1>11, <1>12, <1>13, <1>14, <1>15, <1>16
     DEF ConsumerMoves, ExecutorStep, ResumeStep

LEMMA MovesAlone ==
    ASSUME OutcomeInv, NEW c \in Consumers, ConsumerMoves(c), UNCHANGED wakerVars
    PROVE  OthersUnchanged(c)
BY ReceiveOutcome, ExecutorOutcome, ResumeOutcome DEF ConsumerMoves, Outcome

\* What a consumer can do that holds no message, or is between the statements of a park.
LEMMA IdlersMoves ==
    ASSUME NEW c \in Consumers, ConsumerMoves(c), worker[c].pc \in {"idle", "ack", "park_exec"}
    PROVE  \/ (Receive(c) \/ Acknowledge(c)) /\ UNCHANGED exec
           \/ ParkExecution(c)
<1>1. Receive(c) \/ Acknowledge(c) \/ ParkExecution(c)
  BY DEF ConsumerMoves, ExecutorStep, ResumeStep, At, Loaded, DropMessage, RejectSnapshot,
         SkipByConditions, SaveSkipped, BeginWalk, NothingLeftToWalk, EnterWalk, ExceedIterations,
         ArriveAtStep, ClaimStepRow, InsertStepRow, PerformAction, RecordSuccess, ActionToRetry,
         ActionFails, FollowEdge, ReachStop, OpenGate, GateWithoutModule, ParkStepRow,
         CompleteExecution, FailExecution, OrphanOpenTasks, DropResume, LoadParked, FetchParked,
         CloseParkedRows, ExpireGate, MarkRunning
<1>2. QED
  BY <1>1 DEF Receive, Acknowledge, storeVars

LEMMA RoutesClaimedPreserved ==
    ASSUME NoDuplicates, QuietInv, TokenInv', [Next]_vars, NEW k \in Consumers
    PROVE  RoutesClaimed(k)'
<1> SUFFICES ASSUME worker'[k].pc \in {"expire", "mark_running"}, exec'.status = "running"
             PROVE  worker'[k].mem = exec'
  BY DEF RoutesClaimed
<1>0. /\ RowsInv /\ TokenInv /\ OneRow /\ RoutesClaimed(k) /\ ParkIsQuiet
      /\ worker \in Workers /\ exec \in ExecRow /\ OneWalker'
  BY DEF QuietInv, RowsInv, RowsFit, RowsOK, OutcomeInv, TokenInv, TypeInv, StoreTypeOK, ConsumersOK,
         ExecutorTypeOK, Workers, Owned, SingleToken
<1>1. Walking(k)'
  BY DEF Walking
<1>2. ASSUME NEW c \in Consumers, ConsumerMoves(c), UNCHANGED wakerVars PROVE worker'[k].mem = exec'
  <2>1. CASE k = c
    <3>1. CASE ExpireGate(k)
      <4>1. worker[k].pc = "expire" /\ UNCHANGED exec /\ Goto(k, "mark_running")
        BY <3>1 DEF ExpireGate, At
      <4>2. worker'[k].mem = worker[k].mem
        BY <1>0, <4>1, GotoFacts DEF Labels, ResumeLabels
      <4>3. QED
        BY <1>0, <4>1, <4>2 DEF RoutesClaimed
    <3>2. CASE CloseParkedRows(k)
      <4>1. worker[k].pc = "close" /\ UNCHANGED exec
        BY <3>2 DEF CloseParkedRows, At
      <4>2. worker'[k].mem = Routed(worker[k].parked, worker[k].mem)
        BY <1>0, <3>2 DEF CloseParkedRows, Workers, WorkerState
      <4>3. WalkerOK(worker[k])
        BY <1>0, <4>1 DEF RowsInv, RowsFit, WalkersOK, Walking
      <4>4. NoneWaits
        BY <1>0, <4>1 DEF ParkIsQuiet, Walking
      <4>5. worker[k].mem = exec /\ worker[k].parked.step = NoStep
        BY <4>1, <4>3, <4>4 DEF WalkerOK, Resumes, NoneWaits
      <4>6. QED
        BY <4>1, <4>2, <4>5 DEF Routed
    <3>3. QED
      BY <1>0, <1>2, <2>1, <3>1, <3>2, RoutingLabels
  <2>2. CASE k # c
    <3>1. worker'[k] = worker[k]
      BY <1>0, <1>2, <2>2, MovesAlone DEF OthersUnchanged, RowsInv
    <3>2. worker[k].pc \in {"expire", "mark_running"} /\ Walking(k)
      BY <3>1 DEF Walking
    <3>3. UNCHANGED exec
      <4>1. worker[c].pc \in {"idle", "ack"}
        BY <1>0, <2>2, <3>2 DEF TokenInv, Owned, SingleToken, OneWalker, Walking
      <4>2. Receive(c) \/ Acknowledge(c)
        BY <1>2, <4>1, IdlersMoves DEF ParkExecution, At
      <4>3. QED
        BY <4>2 DEF Receive, Acknowledge, storeVars
    <3>4. QED
      BY <1>0, <3>1, <3>3 DEF RoutesClaimed
  <2>3. QED
    BY <2>1, <2>2
<1>3. ASSUME NEW c \in Consumers, ConsumerGone(c) PROVE worker'[k].mem = exec'
  <2>1. k # c /\ worker'[k] = worker[k] /\ UNCHANGED exec
    BY <1>0, <1>3, ResetFacts DEF ConsumerGone, OthersUnchanged
  <2>2. QED
    BY <1>0, <2>1 DEF RoutesClaimed
<1>4. CASE WakerKind
  <2>1. UNCHANGED worker
    BY <1>4 DEF WakerKind, ParkClaimed, ClaimPublished, ClaimReturned, ZombiePublished,
                StatusesLeft, executorVars
  <2>2. UNCHANGED exec
    <3>1. ~ParkClaimed
      BY <1>0, <1>1, <2>1, WalkedIsNotParked DEF ParkClaimed, ClaimWaiting, Walking
    <3>2. ~ClaimReturned
      BY <1>0, <1>1, <2>1 DEF ClaimReturned, TokenInv, Owned, SingleToken, ClaimIsExclusive, Idle,
                              Walking
    <3>3. QED
      BY <1>4, <3>1, <3>2 DEF WakerKind, ClaimPublished, ZombiePublished, StatusesLeft
  <2>3. QED
    BY <1>0, <2>1, <2>2 DEF RoutesClaimed
<1>5. QED
  BY <1>0, <1>2, <1>3, <1>4, StepKinds

LEMMA ParkParks ==
    ASSUME RowsInv, NEW c \in Consumers, ParkExecution(c)
    PROVE  exec'.status = "waiting"
<1>0. /\ worker \in Workers /\ exec \in ExecRow /\ TokenInv
  BY DEF RowsInv, OutcomeInv, TokenInv, TypeInv, StoreTypeOK, ConsumersOK, ExecutorTypeOK, Workers
<1>1. worker[c].pc = "park_exec" /\ Walking(c)
  BY DEF ParkExecution, At, Walking
<1>2. PICK s \in Steps : s = worker[c].step /\ worker[c].mem = exec
  BY <1>1, AtTheCursor DEF OnItsStep, AtStep
<1>3. ParkedAs(s, exec) \in ExecRow /\ ParkedAs(s, exec).status = "waiting"
  BY <1>0, ParkedType DEF ParkedAs, ExecRow
<1>4. SaveAs(c, ParkedAs(s, exec), "ack")
  BY <1>2 DEF ParkExecution
<1>5. QED
  BY <1>0, <1>1, <1>3, <1>4, SavedAsMade DEF Loading, Labels, ExecutorLabels

\* A walk between the two statements of a park has left no claim behind.
LEMMA NoClaimLeft ==
    ASSUME RowsInv, exec.status = "running", ~NoneWaits
    PROVE  ~ClaimLeft
<1>1. OneRow /\ CleanBut(exec.current)
  BY DEF RowsInv, RowsFit, RowsOK, StatusRows
<1>2. PICK s \in Steps : Stat(s) = "waiting"
  BY DEF NoneWaits
<1>3. \A t \in Steps : Stat(t) # "running"
  BY <1>1, <1>2 DEF CleanBut
<1>4. QED
  BY <1>1, <1>3 DEF ClaimLeft, OneRow, Stat

LEMMA ParkIsQuietPreserved ==
    ASSUME NoRedelivery, QuietInv, TokenInv', [Next]_vars
    PROVE  ParkIsQuiet'
<1> SUFFICES ASSUME exec'.status = "running", ~NoneWaits'
             PROVE  /\ Messages' = 0
                    /\ \A k \in Consumers : Walking(k)' => worker'[k].pc = "park_exec"
  BY DEF ParkIsQuiet
<1>0. /\ NoDuplicates
      /\ RowsInv /\ TokenInv /\ OneRow /\ ParkIsQuiet
      /\ worker \in Workers /\ exec \in ExecRow /\ Messages' \in Nat
      /\ OneWalker' /\ OneMessage' /\ SingleToken
  BY DEF NoRedelivery, QuietInv, RowsInv, RowsFit, RowsOK, OutcomeInv, TokenInv, TypeInv, StoreTypeOK,
         ConsumersOK, ExecutorTypeOK, Workers, Owned, SingleToken, Messages, Topics
\* The park was under way before: nobody can take a step that matters.
<1>1. CASE exec.status = "running" /\ ~NoneWaits
  <2>0. Messages = 0 /\ \A k \in Consumers : Walking(k) => worker[k].pc = "park_exec"
    BY <1>0, <1>1 DEF ParkIsQuiet
  <2>1. ASSUME NEW c \in Consumers, ConsumerMoves(c), UNCHANGED wakerVars
        PROVE  UNCHANGED queue /\ \A k \in Consumers : Walking(k)' => worker'[k].pc = "park_exec"
    <3>1. worker[c].pc \in {"idle", "ack", "park_exec"}
      BY <2>0, <2>1 DEF Walking
    <3>2. ~ParkExecution(c)
      BY <1>0, ParkParks
    <3>3. ~Receive(c)
      <4>1. queue["execute"] = 0 /\ queue["resume"] = 0
        BY <1>0, <2>0 DEF TokenInv, TypeInv, StoreTypeOK, Messages, Topics
      <4>2. QED
        BY <4>1 DEF Receive, Topics
    <3>4. Acknowledge(c)
      BY <2>1, <3>1, <3>2, <3>3, IdlersMoves
    <3>5. OthersUnchanged(c) /\ worker'[c].pc = "idle" /\ UNCHANGED queue
      BY <1>0, <3>4, ResetFacts DEF Acknowledge, storeVars
    <3>6. QED
      BY <2>0, <3>5 DEF OthersUnchanged, Walking
  <2>2. ASSUME NEW c \in Consumers, ConsumerGone(c)
        PROVE  UNCHANGED queue /\ \A k \in Consumers : Walking(k)' => worker'[k].pc = "park_exec"
    <3>1. OthersUnchanged(c) /\ worker'[c].pc = "idle" /\ UNCHANGED queue
      BY <1>0, <2>2, ResetFacts DEF ConsumerGone, NoRedelivery
    <3>2. QED
      BY <2>0, <3>1 DEF OthersUnchanged, Walking
  <2>3. ASSUME WakerKind
        PROVE  UNCHANGED queue /\ \A k \in Consumers : Walking(k)' => worker'[k].pc = "park_exec"
    <3>1. UNCHANGED worker
      BY <2>3 DEF WakerKind, ParkClaimed, ClaimPublished, ClaimReturned, ZombiePublished,
                  StatusesLeft, executorVars
    <3>2. UNCHANGED queue
      <4>1. ~ClaimHeld
        BY <1>0, <1>1 DEF SingleToken, ClaimIsExclusive
      <4>2. ~ZombiePublished
        BY <1>0, <1>1, NoClaimLeft DEF ZombiePublished
      <4>3. QED
        BY <1>1, <2>3, <4>1, <4>2 DEF WakerKind, ParkClaimed, ClaimPublished, ClaimReturned, ZombiePublished,
                                      StatusesLeft
    <3>3. QED
      BY <2>0, <3>1, <3>2 DEF Walking
  <2>4. UNCHANGED queue /\ \A k \in Consumers : Walking(k)' => worker'[k].pc = "park_exec"
    BY <1>0, <2>1, <2>2, <2>3, StepKinds
  <2>5. QED
    BY <2>0, <2>4 DEF Messages
\* It begins with this step.
<1>2. CASE ~(exec.status = "running" /\ ~NoneWaits)
  <2>1. ASSUME NEW c \in Consumers, Acts(c), ~Looks PROVE worker'[c].pc = "park_exec"
    <3>1. CASE WorksOnRow(c)
      <4>1. exec.status = "running" /\ NoneWaits
        BY <1>2, <3>1 DEF WorksOnRow
      <4>2. PICK s \in Steps, status \in RowStatuses \ {"absent"} :
                StatSet(s, status) /\ (status = "waiting" => worker'[c].pc = "park_exec")
        BY <3>1 DEF WorksOnRow
      <4>3. status = "waiting"
        BY <4>1, <4>2 DEF StatSet, NoneWaits
      <4>4. QED
        BY <4>2, <4>3
    <3>2. CASE ClosesRows(c)
      BY <3>2 DEF ClosesRows, WaitsClosed, NoneWaits
    <3>3. CASE SavesRow(c)
      <4>1. NoneWaits' <=> NoneWaits
        BY <3>3 DEF SavesRow, NoneWaits, Stat
      <4>2. exec.status # "running"
        BY <1>2, <4>1
      <4>3. NoneWaits
        BY <3>3, <4>2 DEF SavesRow, SavesSkip, SavesStart, SavesArrival, SavesPark, SavesCompletion,
                          SavesFailure, SavesResumption, Untouched, NoneWaits
      <4>4. QED
        BY <4>1, <4>3
    <3>4. QED
      BY <2>1, <3>1, <3>2, <3>3 DEF Acts
  <2>2. ~(ParkClaimed \/ ClaimPublished \/ ClaimReturned \/ Looks)
    <3>1. ASSUME ParkClaimed \/ ClaimPublished \/ ClaimReturned \/ Looks PROVE FALSE
      <4>1. NoneWaits' <=> NoneWaits
        BY <3>1, StatsKeptAside DEF StatsKept, NoneWaits
      <4>2. exec.status # "running"
        BY <1>2, <4>1
      <4>3. exec'.status # "running"
        BY <1>0, <3>1, <4>2 DEF ParkClaimed, ClaimPublished, ClaimReturned, Looks, ClaimWaiting,
                                RollbackClaim, ExecRow
      <4>4. QED
        BY <4>3
    <3>2. QED
      BY <3>1
  <2>3. PICK c \in Consumers : worker'[c].pc = "park_exec"
    BY <1>0, <2>1, <2>2, EveryStepActs
  <2>4. Walking(c)'
    BY <2>3 DEF Walking
  <2>5. Messages' = 0
    <3>1. Messages' <= 1 /\ Messages' # 1
      BY <1>0, <2>4 DEF OneMessage
    <3>2. QED
      BY <1>0, <3>1
  <2>6. \A k \in Consumers : Walking(k)' => k = c
    BY <1>0, <2>4 DEF OneWalker
  <2>7. QED
    BY <2>3, <2>5, <2>6
<1>3. QED
  BY <1>1, <1>2

\* The inductive invariant of an engine whose messages are not redelivered.
THEOREM ParksAreQuiet ==
    ASSUME NoRedelivery
    PROVE  Spec => []QuietInv
<1> DEFINE Quiet == ParkIsQuiet /\ \A c \in Consumers : RoutesClaimed(c)
<1>0. NoDuplicates
  BY DEF NoRedelivery
<1>1. Init => Quiet
  BY DEF Init, StoreInit, ExecutorInit, IdleWorker, ParkIsQuiet, RoutesClaimed
<1>2. Quiet /\ RowsInv => QuietInv
  BY DEF QuietInv
<1>3. ASSUME Quiet, RowsInv, RowsInv', [Next]_vars PROVE Quiet'
  <2>1. QuietInv /\ TokenInv'
    BY <1>2, <1>3 DEF RowsInv, OutcomeInv
  <2>2. ParkIsQuiet'
    BY <1>3, <2>1, ParkIsQuietPreserved
  <2>3. \A c \in Consumers : RoutesClaimed(c)'
    BY <1>0, <1>3, <2>1, RoutesClaimedPreserved
  <2>4. QED
    BY <2>2, <2>3
<1>4. Quiet /\ RowsInv /\ RowsInv' /\ [Next]_vars => Quiet'
  BY <1>3
<1> HIDE DEF Quiet
<1>5. Spec => []RowsInv
  BY <1>0, RowsFitTheRun
<1>6. QED
  BY <1>1, <1>2, <1>4, <1>5, PTL DEF Spec

(***************************************************************************)
(* A waiting row is completed on behalf of a waker that has claimed the    *)
(* execution, never by a consumer that meets a park half way.              *)
(***************************************************************************)
THEOREM ClaimEndsThePark ==
    ASSUME NoRedelivery
    PROVE  Spec => ParkEndsByClaim
<1>0. NoDuplicates
  BY DEF NoRedelivery
<1>1. ASSUME QuietInv, [Next]_vars, NEW p \in WaitingRows, rows'[p[1]][p[2]].status = "complete"
      PROVE  exec.status = "pending"
  <2>0. /\ RowsInv /\ OutcomeInv /\ TokenInv /\ OneRow /\ ParkIsQuiet /\ exec \in ExecRow
    BY <1>1 DEF QuietInv, RowsInv, RowsFit, RowsOK, OutcomeInv, TokenInv, TypeInv, StoreTypeOK
  <2>1. PICK s \in Steps : s = p[1]
    BY DEF WaitingRows
  <2>2. p[2] = 1
    BY <2>0 DEF WaitingRows, OneRow
  <2>3. Stat(s) = "waiting" /\ Stat(s)' = "complete"
    BY <1>1, <2>1, <2>2 DEF WaitingRows, Stat
  <2>4. ~NoneWaits /\ ~StatsKept
    BY <2>3 DEF NoneWaits, StatsKept
  <2>5. PICK c \in Consumers : Acts(c)
    BY <1>0, <1>1, <2>0, <2>4, EveryStepActs, StatsKeptAside
  <2>6. ~SavesRow(c) /\ ~Looks
    BY <2>4 DEF SavesRow, Looks, StatsKept, Stat
  <2>7. ~WorksOnRow(c)
    BY <2>0, <2>4 DEF WorksOnRow, OnItsStep, AtStep, ParkIsQuiet, Walking
  <2>8. worker[c].pc = "close"
    BY <2>5, <2>6, <2>7 DEF Acts, ClosesRows
  <2>9. exec.status \in {"pending", "running"}
    <3>1. Walking(c) /\ Settled(c)
      BY <2>0, <2>8 DEF Walking, OutcomeInv
    <3>2. QED
      BY <2>0, <2>8, <3>1, WalkedIsNotParked DEF Settled, Loading, ExecRow, Statuses
  <2>10. exec.status # "running"
    BY <2>0, <2>4, <2>8 DEF ParkIsQuiet, Walking
  <2>11. QED
    BY <2>9, <2>10
<1>2. QuietInv /\ [Next]_vars
          => [\A p \in WaitingRows :
                 rows'[p[1]][p[2]].status = "complete" => exec.status = "pending"]_vars
  BY <1>1
<1>3. QED
  BY <1>2, ParksAreQuiet, PTL DEF Spec, ParkEndsByClaim
-----------------------------------------------------------------------------
(***************************************************************************)
(* The refinement, step by step.                                           *)
(***************************************************************************)
PhaseOf(status, new) ==
    CASE status = "running" -> "active"
      [] status = "waiting" -> "parked"
      [] status = "pending" -> IF new THEN "new" ELSE "woken"
      [] OTHER              -> status

LEMMA PhaseIs ==
    ASSUME OneRow, OneRow'
    PROVE  /\ RunPhase = PhaseOf(exec.status, Untouched)
           /\ RunPhase' = PhaseOf(exec'.status, Untouched')
<1>1. (\A s \in Steps : RowsOf(s) = {}) <=> Untouched
  BY FirstSlot DEF OneRow, RowsOf, Untouched, Stat
<1>2. (\A s \in Steps : RowsOf(s)' = {}) <=> Untouched'
  BY FirstSlot DEF OneRow, RowsOf, Untouched, Stat
<1>3. RunPhase = PhaseOf(exec.status, Untouched)
  BY <1>1 DEF RunPhase, PhaseOf
<1>4. RunPhase' = PhaseOf(exec'.status, Untouched')
  BY <1>2 DEF RunPhase, PhaseOf
<1>5. QED
  BY <1>3, <1>4

LEMMA SavesRefine ==
    ASSUME QuietInv, RowsInv', NEW c \in Consumers, SavesRow(c)
    PROVE  [Run!RunNext]_Run!runVars
<1>0. /\ OneRow /\ OneRow' /\ RoutesClaimed(c)
      /\ Untouched' <=> Untouched
  BY DEF QuietInv, RowsInv, RowsFit, RowsOK, SavesRow, Untouched, Stat
<1>1. /\ RunPhase = PhaseOf(exec.status, Untouched)
      /\ RunPhase' = PhaseOf(exec'.status, Untouched')
  BY <1>0, PhaseIs
<1>2. CASE SavesSkip
  <2>1. RunPhase = "new" /\ RunPhase' = "skipped" /\ exec'.current = exec.current
    BY <1>1, <1>2 DEF SavesSkip, PhaseOf
  <2>2. QED
    BY <2>1 DEF Run!RunNext, Run!Skip
<1>3. CASE SavesStart
  <2>1. CASE exec.status = "running" /\ exec'.current = exec.current
    <3>1. RunPhase = "active" /\ RunPhase' = "active"
      BY <1>1, <1>3, <2>1 DEF SavesStart, PhaseOf
    <3>2. QED
      BY <2>1, <3>1 DEF Run!runVars
  <2>2. CASE exec.status = "pending" /\ Untouched /\ Entry # NoStep /\ exec'.current = Entry
    <3>1. RunPhase = "new" /\ RunPhase' = "active"
      BY <1>1, <1>3, <2>2 DEF SavesStart, PhaseOf
    <3>2. QED
      BY <2>2, <3>1 DEF Run!RunNext, Run!Begin
  <2>3. QED
    BY <1>3, <2>1, <2>2 DEF SavesStart
<1>4. CASE SavesArrival
  <2>1. RunPhase = "active" /\ RunPhase' = "active"
    BY <1>1, <1>4 DEF SavesArrival, PhaseOf
  <2>2. CASE exec'.current = exec.current
    BY <2>1, <2>2 DEF Run!runVars
  <2>3. CASE WalksOn(exec.current, exec'.current)
    BY <1>4, <2>1, <2>3, DefinitionAssumption
       DEF SavesArrival, WalksOn, Run!RunNext, Run!Advance, Run!Successors, Successors
  <2>4. QED
    BY <1>4, <2>2, <2>3 DEF SavesArrival
<1>5. CASE SavesPark
  <2>1. RunPhase = "active" /\ RunPhase' = "parked"
    BY <1>1, <1>5 DEF SavesPark, PhaseOf
  <2>2. QED
    BY <1>5, <2>1, DefinitionAssumption
       DEF SavesPark, Run!RunNext, Run!Park, Run!ParkingTypes, ParkingTypes
<1>6. CASE SavesCompletion
  <2>1. RunPhase' = "complete" /\ exec'.current = NoStep
    BY <1>1, <1>6 DEF SavesCompletion, PhaseOf
  <2>2. Run!AtTheEnd
    <3>1. CASE exec.status = "pending" /\ Untouched /\ Entry = NoStep
      BY <1>1, <3>1 DEF PhaseOf, Run!AtTheEnd
    <3>2. CASE exec.status = "running"
      <4>1. RunPhase = "active"
        BY <1>1, <3>2 DEF PhaseOf
      <4>2. QED
        BY <1>6, <3>2, <4>1 DEF SavesCompletion, WalksOn, Run!AtTheEnd, Run!Successors, Successors
    <3>3. QED
      BY <1>6, <3>1, <3>2 DEF SavesCompletion
  <2>3. QED
    BY <2>1, <2>2 DEF Run!RunNext, Run!Finish
<1>7. CASE SavesFailure
  <2>1. RunPhase \in {"new", "active"} /\ RunPhase' = "failed" /\ exec'.current = exec.current
    BY <1>1, <1>7 DEF SavesFailure, PhaseOf
  <2>2. QED
    BY <2>1 DEF Run!RunNext, Run!Fail
<1>8. CASE SavesResumption(c)
  <2>1. RunPhase' = "active"
    BY <1>1, <1>8 DEF SavesResumption, PhaseOf
  <2>2. CASE exec.status = "running"
    <3>1. exec'.current = exec.current /\ RunPhase = "active"
      BY <1>0, <1>1, <1>8, <2>2 DEF SavesResumption, RoutesClaimed, PhaseOf
    <3>2. QED
      BY <2>1, <3>1 DEF Run!runVars
  <2>3. CASE exec.status = "pending" /\ ~Untouched
    <3>1. RunPhase = "woken"
      BY <1>1, <2>3 DEF PhaseOf
    <3>2. QED
      BY <1>8, <2>1, <3>1, DefinitionAssumption
         DEF SavesResumption, Run!RunNext, Run!Resume, Run!Successors, Successors
  <2>4. QED
    BY <1>8, <2>2, <2>3 DEF SavesResumption
<1>9. QED
  BY <1>2, <1>3, <1>4, <1>5, <1>6, <1>7, <1>8 DEF SavesRow

LEMMA StepRefines ==
    ASSUME NoDuplicates, QuietInv, RowsInv', [Next]_vars
    PROVE  [Run!RunNext]_Run!runVars
<1>0. /\ RowsInv /\ OneRow /\ OneRow' /\ exec \in ExecRow /\ PendingRows /\ SingleToken
  BY DEF QuietInv, RowsInv, RowsFit, RowsOK, OutcomeInv, TokenInv, Owned, TypeInv, StoreTypeOK
<1>1. /\ RunPhase = PhaseOf(exec.status, Untouched)
      /\ RunPhase' = PhaseOf(exec'.status, Untouched')
  BY <1>0, PhaseIs
<1>2. ASSUME UNCHANGED exec, exec.status = "running" \/ (Untouched' <=> Untouched)
      PROVE  [Run!RunNext]_Run!runVars
  BY <1>1, <1>2 DEF PhaseOf, Run!runVars
<1>3. StatsKept \/ WaitsClosed => (Untouched' <=> Untouched)
  BY DEF StatsKept, WaitsClosed, Untouched
<1>4. ASSUME NEW c \in Consumers, Acts(c) PROVE [Run!RunNext]_Run!runVars
  BY <1>2, <1>3, <1>4, SavesRefine DEF Acts, Looks, WorksOnRow, ClosesRows
<1>5. CASE ParkClaimed \/ ClaimReturned
  <2>1. UNCHANGED exec.current /\ (Untouched' <=> Untouched)
    BY <1>0, <1>3, <1>5, StatsKeptAside
       DEF ParkClaimed, ClaimReturned, ClaimWaiting, RollbackClaim, ExecRow
  <2>2. CASE ParkClaimed
    <3>1. exec.status = "waiting" /\ exec'.status = "pending"
      BY <1>0, <2>2 DEF ParkClaimed, ClaimWaiting, ExecRow
    <3>2. ~Untouched
      BY <1>0, <3>1 DEF RowsInv, RowsFit, StatusRows, ParkedOn, Untouched
    <3>3. RunPhase = "parked" /\ RunPhase' = "woken"
      BY <1>1, <2>1, <3>1, <3>2 DEF PhaseOf
    <3>4. QED
      BY <2>1, <3>3 DEF Run!RunNext, Run!Wake
  <2>3. CASE ClaimReturned
    <3>1. exec.status = "pending" /\ exec'.status = "waiting" /\ ~Untouched
      BY <1>0, <2>3 DEF ClaimReturned, RollbackClaim, SingleToken, ClaimIsExclusive, ExecRow,
                        PendingRows, New, Woken
    <3>2. RunPhase = "woken" /\ RunPhase' = "parked"
      BY <1>1, <3>1 DEF PhaseOf
    <3>3. QED
      BY <2>1, <3>2 DEF Run!RunNext, Run!Unwake
  <2>4. QED
    BY <1>5, <2>2, <2>3
<1>6. CASE ClaimPublished \/ Looks
  BY <1>2, <1>3, <1>6, StatsKeptAside DEF ClaimPublished, Looks
<1>7. QED
  BY <1>0, <1>4, <1>5, <1>6, EveryStepActs

(***************************************************************************)
(* The engine implements the abstract run: whatever the definition and     *)
(* however many processes race, the execution row moves along the edges of *)
(* the definition, parks where a step parks, is taken out of a park only   *)
(* by a claim, and ends once.                                              *)
(***************************************************************************)
THEOREM EngineImplementsRun ==
    ASSUME NoRedelivery
    PROVE  Spec => ImplementsRun
<1>0. NoDuplicates
  BY DEF NoRedelivery
<1>1. ASSUME Init PROVE Run!RunInit
  <2>1. \A s \in Steps : RowsOf(s) = {}
    BY <1>1 DEF Init, StoreInit, RowsOf, AbsentRow
  <2>2. QED
    BY <1>1, <2>1 DEF Init, StoreInit, RunPhase, Run!RunInit
<1>2. Init => Run!RunInit
  BY <1>1
<1>3. QuietInv /\ QuietInv' /\ [Next]_vars => [Run!RunNext]_Run!runVars
  BY <1>0, StepRefines DEF QuietInv
<1>4. QED
  BY <1>2, <1>3, ParksAreQuiet, PTL DEF Spec, ImplementsRun, Run!RunSpec
-----------------------------------------------------------------------------
(***************************************************************************)
(* Save-time validation (GraphCheck) refuses a definition with a cycle     *)
(* that can be reached from its entry: the steps on the way can be ranked  *)
(* so that every edge leads down.  Other steps may loop as they like.      *)
(***************************************************************************)
Descends(rank) ==
    /\ DOMAIN rank \subseteq Steps
    /\ Entry \in DOMAIN rank \cup {NoStep}
    /\ \A s \in DOMAIN rank :
          /\ rank[s] \in Nat
          /\ \A t \in Successors(s) \cap Steps : t \in DOMAIN rank /\ rank[t] < rank[s]

Acyclic == \E reached \in SUBSET Steps : \E rank \in [reached -> Nat] : Descends(rank)

\* The execution is, and was, at ranked steps only.
OnTheWay(rank) ==
    /\ exec.current \in DOMAIN rank \cup {NoStep}
    /\ \A s \in Steps : Stat(s) # "absent" => s \in DOMAIN rank

\* Step s lies below t: an execution at t may still come to s, and never was there.
Below(rank, s, t) == s \in DOMAIN rank /\ t \in DOMAIN rank /\ rank[s] < rank[t]

\* The consumer is done with the action of the step it is at.
Spent(w) ==
    \/ w.pc \in {"acted", "fail"}
    \/ w.pc \in {"arrive", "complete"} /\ w.step # exec.current

EffectsFit(rank) ==
    /\ OnTheWay(rank)
    /\ \A s \in Steps :
          /\ effects[s] <= 1 + faults
          /\ effects[s] > 0 => Stat(s) # "absent"
          /\ Below(rank, s, exec.current) => effects[s] = 0
    /\ exec.current \in Steps /\ exec.status \notin Terminal =>
          \/ effects[exec.current] <= faults
          \/ \E c \in Consumers : Walking(c) /\ Spent(worker[c])
-----------------------------------------------------------------------------
LEMMA ConsumerFaults ==
    ASSUME NEW c \in Consumers, ConsumerMoves(c)
    PROVE  UNCHANGED faults \/ faults' = faults + 1
BY DEF ConsumerMoves, ExecutorStep, ResumeStep, Receive, Acknowledge, DropMessage, RejectSnapshot,
       SkipByConditions, SaveSkipped, BeginWalk, NothingLeftToWalk, EnterWalk, ExceedIterations,
       ArriveAtStep, ClaimStepRow, InsertStepRow, PerformAction, RecordSuccess, ActionToRetry,
       ActionFails, FollowEdge, ReachStop, OpenGate, GateWithoutModule, ParkStepRow, ParkExecution,
       CompleteExecution, FailExecution, OrphanOpenTasks, DropResume, LoadParked, FetchParked,
       CloseParkedRows, ExpireGate, MarkRunning, Fault, storeVars

LEMMA FaultsGrow ==
    ASSUME faults \in Nat, [Next]_vars
    PROVE  faults <= faults'
<1>1. ASSUME NEW c \in Consumers, ConsumerStep(c) PROVE UNCHANGED faults \/ faults' = faults + 1
  BY <1>1, ConsumerFaults DEF ConsumerStep, ConsumerMoves
<1>2. SweeperStep => UNCHANGED faults \/ faults' = faults + 1
  BY DEF SweeperStep, SelectDue, ClaimDue, PublishDue, RollbackDue, SelectZombie, ReclaimZombie,
         RepublishZombie, Fault, storeVars
<1>3. ASSUME NEW d \in Deliveries, DeliveryStep(d) PROVE UNCHANGED faults \/ faults' = faults + 1
  BY <1>3 DEF DeliveryStep, SelectParkedOn, ClaimForEvent, WriteResolution, PublishEvent,
              RollbackEvent, Fault, storeVars
<1>4. ASSUME NEW a \in Approvers, ApproverStep(a) PROVE UNCHANGED faults \/ faults' = faults + 1
  BY <1>4 DEF ApproverStep, ClaimTask, ClaimGate, WriteVerdict, PublishVerdict, ClearVerdict,
              RollbackGate, ReopenTask, Fault
<1>5. ReconcilerStep => UNCHANGED faults
  BY DEF ReconcilerStep, SelectOpenTasks, SelectExecutions, CloseTask, storeVars
<1>6. Faults \/ Time => UNCHANGED faults \/ faults' = faults + 1
  BY DEF Faults, ConsumerCrash, LostAck, LostMessage, WakerCrash, Time, TimeoutDue, ClaimAges, Fault
<1>7. UNCHANGED vars => UNCHANGED faults
  BY DEF vars, storeVars
<1>8. UNCHANGED faults \/ faults' = faults + 1
  BY <1>1, <1>2, <1>3, <1>4, <1>5, <1>6, <1>7 DEF Next, Finished
<1>9. QED
  BY <1>8

\* Of all steps only one performs an action.
LEMMA EffectsBy ==
    ASSUME NEW c \in Consumers, ConsumerMoves(c)
    PROVE  UNCHANGED effects \/ PerformAction(c)
BY DEF ConsumerMoves, ExecutorStep, ResumeStep, Receive, Acknowledge, DropMessage, RejectSnapshot,
       SkipByConditions, SaveSkipped, BeginWalk, NothingLeftToWalk, EnterWalk, ExceedIterations,
       ArriveAtStep, ClaimStepRow, InsertStepRow, RecordSuccess, ActionToRetry,
       ActionFails, FollowEdge, ReachStop, OpenGate, GateWithoutModule, ParkStepRow, ParkExecution,
       CompleteExecution, FailExecution, OrphanOpenTasks, DropResume, LoadParked, FetchParked,
       CloseParkedRows, ExpireGate, MarkRunning

\* What a consumer can do that is done with its step.
LEMMA SpentMoves ==
    ASSUME NEW c \in Consumers, ConsumerMoves(c),
           worker[c].pc \in {"acted", "fail", "arrive", "complete"}
    PROVE  \/ worker[c].pc = "acted" /\ RecordSuccess(c)
           \/ worker[c].pc = "fail" /\ FailExecution(c)
           \/ worker[c].pc = "arrive" /\ (ExceedIterations(c) \/ ArriveAtStep(c))
           \/ worker[c].pc = "complete" /\ CompleteExecution(c)
BY DEF ConsumerMoves, ExecutorStep, ResumeStep, At, Loaded, Receive, Acknowledge, DropMessage,
       RejectSnapshot, SkipByConditions, SaveSkipped, BeginWalk, NothingLeftToWalk, EnterWalk,
       ExceedIterations, ArriveAtStep, ClaimStepRow, InsertStepRow, PerformAction, RecordSuccess,
       ActionToRetry, ActionFails, FollowEdge, ReachStop, OpenGate, GateWithoutModule, ParkStepRow,
       ParkExecution, CompleteExecution, FailExecution, OrphanOpenTasks, DropResume, LoadParked,
       FetchParked, CloseParkedRows, ExpireGate, MarkRunning

\* It ends the execution, takes it to another step, or is still done with this one.
LEMMA SpentGoesOn ==
    ASSUME RowsInv, NEW c \in Consumers, Walking(c), Spent(worker[c]), ConsumerMoves(c),
           exec.current \notin Successors(exec.current)
    PROVE  \/ exec'.status \in Terminal
           \/ exec'.current # exec.current
           \/ Walking(c)' /\ Spent(worker[c])'
<1>0. /\ worker \in Workers /\ exec \in ExecRow /\ TokenInv /\ WalkerOK(worker[c])
      /\ worker[c].pc \in AtStep => worker[c].step \in Steps
      /\ worker[c].pc = "acted" => StepType[worker[c].step] = "action"
  BY DEF RowsInv, RowsFit, WalkersOK, OutcomeInv, TokenInv, TypeInv, StoreTypeOK, ConsumersOK,
         ExecutorTypeOK, Workers, CursorOK
<1>1. CASE worker[c].pc = "acted" /\ RecordSuccess(c)
  <2>1. PICK s \in Steps : s = worker[c].step
    BY <1>0, <1>1 DEF AtStep
  <2>2. s = exec.current /\ StepType[s] = "action"
    BY <1>0, <1>1, <2>1, AtTheCursor DEF OnItsStep, AtStep
  <2>3. PICK t \in Targets : t = Edge[s]["next"] /\ t \in Successors(s)
    <3>1. "next" \in DOMAIN Edge[s]
      BY <2>2, DefinitionAssumption DEF HasDeclaredEdges
    <3>2. Edge[s]["next"] \in Targets /\ Edge[s]["next"] \in Successors(s)
      BY <3>1, EdgeTarget DEF Successors
    <3>3. QED
      BY <3>2
  <2>4. Continue(c, t) /\ UNCHANGED exec
    BY <1>1, <2>1, <2>3 DEF RecordSuccess
  <2>5. worker'[c].pc \in {"arrive", "complete"} /\ worker'[c].step = t
    BY <1>0, <2>4, ContinueFacts
  <2>6. t # exec.current
    BY <2>2, <2>3
  <2>7. QED
    BY <2>4, <2>5, <2>6 DEF Walking, Spent
<1>2. CASE worker[c].pc = "fail" /\ FailExecution(c)
  <2> DEFINE m == [worker[c].mem EXCEPT !.status = "failed"]
             label == IF ApprovalsInstalled THEN "orphan" ELSE "ack"
  <2>1. SaveAs(c, m, label) /\ label \in Labels
    BY <1>2 DEF FailExecution, Labels, ExecutorLabels
  <2>2. worker[c].mem = exec
    BY <1>0, <1>2 DEF WalkerOK, Ends
  <2>3. m \in ExecRow /\ m.status = "failed"
    BY <1>0, <2>2 DEF ExecRow, Statuses, Terminal
  <2> HIDE DEF m, label
  <2>4. exec' = m
    BY <1>0, <1>2, <2>1, <2>3, SavedAsMade DEF Loading
  <2>5. QED
    BY <2>3, <2>4 DEF Terminal
<1>3. CASE worker[c].pc = "complete" /\ CompleteExecution(c)
  <2> DEFINE m == [worker[c].mem EXCEPT !.status = "complete", !.current = NoStep]
  <2>1. SaveAs(c, m, "ack")
    BY <1>3 DEF CompleteExecution
  <2>2. worker[c].mem = exec
    BY <1>0, <1>3 DEF WalkerOK, Ends
  <2>3. m \in ExecRow /\ m.status = "complete"
    BY <1>0, <2>2 DEF ExecRow, Statuses, Terminal, Targets
  <2> HIDE DEF m
  <2>4. exec' = m
    BY <1>0, <1>3, <2>1, <2>3, SavedAsMade DEF Loading, Labels, ExecutorLabels
  <2>5. QED
    BY <2>3, <2>4 DEF Terminal
<1>4. CASE worker[c].pc = "arrive" /\ ArriveAtStep(c)
  <2>1. worker[c].step # exec.current
    BY <1>4 DEF Spent
  <2>2. exec'.current = worker[c].step
    <3> DEFINE s == worker[c].step
               m == [worker[c].mem EXCEPT !.current = s]
    <3>1. worker[c].snap = exec /\ worker[c].mem = exec
      BY <1>0, <1>4 DEF TokenInv, Owned, WalkerViewIsFresh, WalkerOK, Walks, AtStep
    <3>2. exec' = DirtyFields(exec, exec, m) /\ m.current = s
      BY <1>0, <1>4, <3>1 DEF ArriveAtStep, ExecRow
    <3> HIDE DEF m
    <3>3. QED
      BY <2>1, <3>2 DEF DirtyFields
  <2>3. QED
    BY <2>1, <2>2
<1>5. CASE worker[c].pc = "arrive" /\ ExceedIterations(c)
  <2>1. worker'[c].pc = "fail"
    BY <1>0, <1>5, GotoFacts DEF ExceedIterations, Labels, ExecutorLabels
  <2>2. QED
    BY <2>1 DEF Walking, Spent
<1>6. QED
  BY <1>1, <1>2, <1>3, <1>4, <1>5, SpentMoves DEF Spent
-----------------------------------------------------------------------------
(***************************************************************************)
(* How a step moves the execution: it stays, it begins untouched, or it    *)
(* goes along an edge.                                                     *)
(***************************************************************************)
CursorStays == exec'.current = exec.current

CursorBegins == Untouched /\ exec'.current = Entry

CursorDescends ==
    /\ exec.current \in Steps
    /\ exec'.current \in Successors(exec.current) \cup {NoStep}

LEMMA CursorMoves ==
    ASSUME NoDuplicates, RowsInv, [Next]_vars
    PROVE  CursorStays \/ CursorBegins \/ CursorDescends \/ exec'.current = NoStep
<1>0. exec \in ExecRow
  BY DEF RowsInv, OutcomeInv, TokenInv, TypeInv, StoreTypeOK
<1>1. ASSUME NEW c \in Consumers, SavesRow(c)
      PROVE  CursorStays \/ CursorBegins \/ CursorDescends \/ exec'.current = NoStep
  <2>1. SavesPark /\ StepType[exec.current] = "delay" => CursorDescends
    <3> SUFFICES ASSUME SavesPark, StepType[exec.current] = "delay" PROVE CursorDescends
      OBVIOUS
    <3>1. PICK s \in Steps : s = exec.current /\ StepType[s] = "delay"
      BY DEF SavesPark
    <3>2. exec'.current = Edge[s]["next"] /\ "next" \in DOMAIN Edge[s]
      BY <3>1, DefinitionAssumption DEF SavesPark, HasDeclaredEdges
    <3>3. QED
      BY <3>1, <3>2 DEF CursorDescends, Successors
  <2>2. QED
    BY <1>1, <2>1 DEF SavesRow, SavesSkip, SavesStart, SavesArrival, SavesPark, SavesCompletion,
                SavesFailure, SavesResumption, WalksOn, CursorStays, CursorBegins, CursorDescends
<1>2. ASSUME NEW c \in Consumers, Acts(c)
      PROVE  CursorStays \/ CursorBegins \/ CursorDescends \/ exec'.current = NoStep
  BY <1>1, <1>2 DEF Acts, Looks, WorksOnRow, ClosesRows, CursorStays
<1>3. ParkClaimed \/ ClaimPublished \/ ClaimReturned \/ Looks => CursorStays
  BY <1>0 DEF ParkClaimed, ClaimPublished, ClaimReturned, Looks, ClaimWaiting, RollbackClaim, ExecRow,
         CursorStays
<1>4. QED
  BY <1>2, <1>3, EveryStepActs

\* The steps that lie ahead of it get fewer.
LEMMA AheadShrinks ==
    ASSUME NoDuplicates, NEW rank, Descends(rank), OnTheWay(rank), RowsInv, [Next]_vars
    PROVE  /\ \A s \in Steps :
                  Below(rank, s, exec'.current) => Untouched \/ Below(rank, s, exec.current)
           /\ exec'.current \in Steps =>
                  CursorStays \/ Untouched \/ Below(rank, exec'.current, exec.current)
<1>0. NoStep \notin Steps /\ NoStep \notin DOMAIN rank
  BY DefinitionAssumption DEF Descends
<1>1. CASE CursorStays
  BY <1>1 DEF CursorStays
<1>2. CASE exec'.current = NoStep
  BY <1>0, <1>2 DEF Below
<1>3. CASE CursorDescends /\ exec'.current # NoStep
  <2>1. PICK s \in Steps, t \in Steps : s = exec.current /\ t = exec'.current /\ t \in Successors(s)
    BY <1>3, DefinitionAssumption DEF CursorDescends, Successors
  <2>2. /\ s \in DOMAIN rank /\ t \in DOMAIN rank
        /\ rank[t] < rank[s] /\ rank[s] \in Nat /\ rank[t] \in Nat
    BY <2>1, DefinitionAssumption DEF Descends, OnTheWay
  <2>3. ASSUME NEW u \in DOMAIN rank, rank[u] < rank[t] PROVE rank[u] < rank[s]
    BY <2>2, <2>3 DEF Descends
  <2>4. QED
    BY <2>1, <2>2, <2>3 DEF Below
<1>4. QED
  BY <1>1, <1>2, <1>3, CursorMoves DEF CursorBegins

\* The execution keeps to the ranked steps.
LEMMA StaysOnTheWay ==
    ASSUME NoDuplicates, NEW rank, Descends(rank), OnTheWay(rank), RowsInv, [Next]_vars
    PROVE  OnTheWay(rank)'
<1>1. exec'.current \in DOMAIN rank \cup {NoStep}
  <2>1. CursorDescends => exec'.current \in DOMAIN rank \cup {NoStep}
    <3> SUFFICES ASSUME CursorDescends, exec'.current # NoStep PROVE exec'.current \in DOMAIN rank
      OBVIOUS
    <3>1. PICK s \in DOMAIN rank : s = exec.current
      BY DefinitionAssumption DEF CursorDescends, OnTheWay
    <3>2. exec'.current \in Successors(s) \cap Steps
      BY <3>1, DefinitionAssumption DEF CursorDescends, Successors
    <3>3. QED
      BY <3>2 DEF Descends
  <2>2. QED
    BY <2>1, CursorMoves DEF CursorStays, CursorBegins, OnTheWay, Descends
<1>2. ASSUME NEW c \in Consumers, Acts(c)
      PROVE  \A s \in Steps : Stat(s)' # "absent" => Stat(s) # "absent" \/ s = exec.current
  BY <1>2 DEF Acts, Looks, WorksOnRow, ClosesRows, SavesRow, StatsKept, StatSet, WaitsClosed, Stat
<1>3. \A s \in Steps : Stat(s)' # "absent" => Stat(s) # "absent" \/ s = exec.current
  <2>1. ParkClaimed \/ ClaimPublished \/ ClaimReturned \/ Looks => StatsKept
    BY StatsKeptAside
  <2>2. QED
    BY <1>2, <2>1, EveryStepActs DEF StatsKept
<1>4. QED
  BY <1>1, <1>3, DefinitionAssumption DEF OnTheWay

\* A row is never deleted, and an execution that is over stays over.
LEMMA RowsStay ==
    ASSUME NoDuplicates, RowsInv, [Next]_vars
    PROVE  /\ \A s \in Steps : Stat(s) # "absent" => Stat(s)' # "absent"
           /\ exec.status \in Terminal => exec'.status \in Terminal
<1>0. exec \in ExecRow
  BY DEF RowsInv, OutcomeInv, TokenInv, TypeInv, StoreTypeOK
<1>1. ASSUME NEW c \in Consumers, Acts(c)
      PROVE  \A s \in Steps : Stat(s) # "absent" => Stat(s)' # "absent"
  BY <1>1 DEF Acts, Looks, WorksOnRow, ClosesRows, SavesRow, StatsKept, StatSet, WaitsClosed, Stat
<1>2. ASSUME NEW c \in Consumers, Acts(c)
      PROVE  exec.status \in Terminal => exec'.status \in Terminal
  BY <1>2 DEF Acts, Looks, WorksOnRow, ClosesRows, SavesRow, SavesSkip, SavesStart, SavesArrival,
              SavesPark, SavesCompletion, SavesFailure, SavesResumption, Terminal
<1>3. ASSUME ParkClaimed \/ ClaimPublished \/ ClaimReturned \/ Looks
      PROVE  /\ \A s \in Steps : Stat(s) # "absent" => Stat(s)' # "absent"
             /\ exec.status \in Terminal => exec'.status \in Terminal
  <2>1. StatsKept
    BY <1>3, StatsKeptAside
  <2>2. exec.status \in Terminal => exec'.status \in Terminal
    BY <1>0, <1>3 DEF ParkClaimed, ClaimPublished, ClaimReturned, Looks, ClaimWaiting, RollbackClaim,
                      ExecRow, Terminal
  <2>3. QED
    BY <2>1, <2>2 DEF StatsKept
<1>4. QED
  BY <1>1, <1>2, <1>3, EveryStepActs

LEMMA EffectsPreserved ==
    ASSUME NoDuplicates, NEW rank, Descends(rank), RowsInv, RowsInv', EffectsFit(rank), [Next]_vars
    PROVE  EffectsFit(rank)'
<1>0. /\ TokenInv /\ OneRow /\ OneWalker /\ exec \in ExecRow /\ worker \in Workers
      /\ faults \in Nat /\ effects \in [Steps -> Nat] /\ NoStep \notin Steps
      /\ OnTheWay(rank) /\ \A s \in DOMAIN rank : rank[s] \in Nat
  BY DefinitionAssumption
     DEF RowsInv, RowsFit, RowsOK, OutcomeInv, TokenInv, Owned, SingleToken, TypeInv, StoreTypeOK,
         ConsumersOK, ExecutorTypeOK, Workers, Descends, EffectsFit
<1>1. faults' \in Nat /\ faults <= faults'
  BY <1>0, FaultsGrow DEF RowsInv, OutcomeInv, TokenInv, TypeInv, StoreTypeOK
<1>2. OnTheWay(rank)' /\ \A s \in Steps : Stat(s) # "absent" => Stat(s)' # "absent"
  BY <1>0, RowsStay, StaysOnTheWay
<1>3. CASE UNCHANGED effects
  <2>1. \A s \in Steps : effects[s] \in Nat /\ effects'[s] = effects[s] /\ effects[s] <= 1 + faults
    BY <1>0, <1>3 DEF EffectsFit
  <2>2. \A s \in Steps : effects'[s] <= 1 + faults'
    BY <1>0, <1>1, <2>1
  <2>3. \A s \in Steps : effects'[s] > 0 => Stat(s)' # "absent"
    BY <1>2, <2>1 DEF EffectsFit
  <2>4. Untouched => \A s \in Steps : effects[s] = 0
    BY <2>1 DEF Untouched, EffectsFit
  <2>5. \A s \in Steps : Below(rank, s, exec'.current) => effects'[s] = 0
    BY <1>0, <2>1, <2>4, AheadShrinks DEF EffectsFit, Descends, Below
  <2>7. ASSUME exec'.current \in Steps, exec'.status \notin Terminal
        PROVE  \/ effects'[exec'.current] <= faults'
               \/ \E c \in Consumers : Walking(c)' /\ Spent(worker[c])'
    <3>0. PICK t \in Steps : t = exec'.current
      BY <2>7
    <3>1. CASE effects[t] <= faults
      BY <1>0, <1>1, <2>1, <3>0, <3>1
    <3>2. CASE Untouched
      BY <1>1, <2>1, <2>4, <3>0, <3>2
    <3>3. CASE Below(rank, t, exec.current)
      BY <1>1, <2>1, <3>0, <3>3 DEF EffectsFit
    <3>4. CASE CursorStays /\ ~(effects[t] <= faults)
      <4>1. exec.status \notin Terminal /\ t = exec.current
        BY <2>7, <3>0, <3>4, RowsStay DEF CursorStays
      <4>2. PICK k \in Consumers : Walking(k) /\ Spent(worker[k])
        BY <3>4, <4>1 DEF EffectsFit
      <4>3. ASSUME worker'[k] = worker[k] PROVE Walking(k)' /\ Spent(worker[k])'
        BY <3>4, <4>2, <4>3 DEF CursorStays, Walking, Spent
      <4>4. exec.current \notin Successors(exec.current)
        BY <1>0, <4>1 DEF Descends, OnTheWay
      <4>5. ASSUME NEW c \in Consumers, ConsumerMoves(c), UNCHANGED wakerVars
            PROVE  Walking(k)' /\ Spent(worker[k])'
        <5>1. CASE c = k
          BY <2>7, <3>4, <4>2, <4>4, <4>5, <5>1, SpentGoesOn DEF CursorStays
        <5>2. CASE c # k
          BY <4>3, <4>5, <5>2, MovesAlone DEF OthersUnchanged, RowsInv
        <5>3. QED
          BY <5>1, <5>2
      <4>6. ASSUME NEW c \in Consumers, ConsumerGone(c) PROVE effects'[t] <= faults'
        BY <1>0, <2>1, <4>6 DEF ConsumerGone
      <4>7. CASE WakerKind
        BY <4>3, <4>7 DEF WakerKind, ParkClaimed, ClaimPublished, ClaimReturned, ZombiePublished,
                          StatusesLeft,
                          executorVars
      <4>8. QED
        BY <1>0, <3>0, <4>3, <4>5, <4>6, <4>7, StepKinds
             DEF WakerKind, ParkClaimed, ClaimPublished, ClaimReturned, ZombiePublished,
                 StatusesLeft, executorVars
    <3>5. QED
      BY <1>0, <3>0, <3>1, <3>2, <3>3, <3>4, AheadShrinks
  <2>8. QED
    BY <1>2, <2>2, <2>3, <2>5, <2>7 DEF EffectsFit
<1>4. ASSUME NEW c \in Consumers, PerformAction(c) PROVE EffectsFit(rank)'
  <2>1. PICK s \in Steps : s = worker[c].step
    BY <1>4, AtTheCursor DEF PerformAction, At, OnItsStep, AtStep
  <2>2. /\ s = exec.current /\ exec.status = "running" /\ Walking(c) /\ WalkerOK(worker[c])
    BY <1>4, <2>1, AtTheCursor DEF PerformAction, At, OnItsStep, AtStep
  <2>3. Stat(s) = "running"
    BY <1>4, <2>1, <2>2 DEF PerformAction, At, WalkerOK, Walks, AfterClaim
  <2>4. /\ UNCHANGED <<exec, rows, faults>>
        /\ effects' = [effects EXCEPT ![s] = @ + 1]
        /\ Goto(c, "acted")
    BY <1>4, <2>1 DEF PerformAction, storeVars
  <2>5. effects[s] <= faults
    <3>1. ~Spent(worker[c])
      BY <1>4 DEF PerformAction, At, Spent
    <3>2. \A k \in Consumers : Walking(k) => k = c
      BY <1>0, <2>2 DEF OneWalker
    <3>3. QED
      BY <2>1, <2>2, <3>1, <3>2 DEF EffectsFit, Terminal
  <2>6. effects'[s] = effects[s] + 1 /\ \A t \in Steps \ {s} : effects'[t] = effects[t]
    BY <1>0, <2>4
  <2>7. \A t \in Steps : Stat(t)' = Stat(t)
    BY <2>4 DEF Stat
  <2>8. Walking(c)' /\ Spent(worker[c])'
    BY <1>0, <2>4, GotoFacts DEF Walking, Spent, Labels, ExecutorLabels
  <2>9. ~Below(rank, s, exec.current)
    BY <1>0, <2>2 DEF Below
  <2>10. \A t \in Steps :
            /\ effects'[t] <= 1 + faults
            /\ effects'[t] > 0 => Stat(t) # "absent"
            /\ Below(rank, t, exec.current) => effects'[t] = 0
    BY <1>0, <2>3, <2>5, <2>6, <2>9 DEF EffectsFit
  <2>11. QED
    BY <1>2, <2>4, <2>7, <2>8, <2>10 DEF EffectsFit
<1>5. UNCHANGED effects \/ \E c \in Consumers : PerformAction(c)
  BY <1>0, StepKinds, EffectsBy
     DEF WakerKind, ParkClaimed, ClaimPublished, ClaimReturned, ZombiePublished,
         StatusesLeft, executorVars,
         ConsumerGone
<1>6. QED
  BY <1>3, <1>4, <1>5

(***************************************************************************)
(* The action of a step succeeds once, and once more for every fault at    *)
(* the most: an execution that is woken, retried or taken up by another    *)
(* consumer does not come back to a step it has left.                      *)
(***************************************************************************)
THEOREM ActionsAreNotRepeated ==
    ASSUME NoDuplicates, Acyclic
    PROVE  Spec => []EffectsPerDelivery
<1>1. PICK rank : Descends(rank)
  BY DEF Acyclic
<1>2. ASSUME Init PROVE EffectsFit(rank)
  <2>1. exec.current = NoStep /\ \A s \in Steps : effects[s] = 0 /\ Stat(s) = "absent"
    BY <1>2, FirstSlot DEF Init, StoreInit, ExecutorInit, Stat, AbsentRow
  <2>2. NoStep \notin DOMAIN rank /\ NoStep \notin Steps
    BY <1>1, DefinitionAssumption DEF Descends
  <2>3. faults \in Nat
    BY <1>2 DEF Init, StoreInit
  <2>4. QED
    BY <2>1, <2>2, <2>3 DEF EffectsFit, OnTheWay, Below
<1>3. RowsInv /\ RowsInv' /\ EffectsFit(rank) /\ [Next]_vars => EffectsFit(rank)'
  BY <1>1, EffectsPreserved
<1>4. EffectsFit(rank) => EffectsPerDelivery
  BY DEF EffectsFit, EffectsPerDelivery
<1>5. Init => EffectsFit(rank)
  BY <1>2
<1>6. QED
  BY <1>3, <1>4, <1>5, RowsFitTheRun, PTL DEF Spec
=============================================================================
