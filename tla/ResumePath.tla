----------------------------- MODULE ResumePath -----------------------------
(***************************************************************************)
(* What wakes a parked execution: the minutely sweep for due timeouts and  *)
(* zombies (Cron/ResumeSweeper), the delivery of an awaited event          *)
(* (Dispatcher::resumeWaiting), and the consumer of the resume topic they  *)
(* publish to (Queue/ResumeConsumer).                                      *)
(***************************************************************************)
EXTENDS Executor

CONSTANT Deliveries   \* concurrent deliveries of awaited events

VARIABLES
    sweeper,    \* the sweep in progress, with the zombie row it looks at
    delivery    \* delivery[d]: the resumeWaiting call in progress

resumeVars == <<sweeper, delivery>>

\* A sweep that looks at no zombie row.
NoRow == <<NoStep, "none">>

IdleSweep == [pc |-> "idle", row |-> NoRow]

IdleDelivery == [pc |-> "idle", event |-> NoEvent]

SweeperState ==
    [pc: {"idle", "claim", "publish", "rollback", "reclaim", "republish"},
     row: (Steps \X Slots) \cup {NoRow}]

DeliveryState == [pc: {"idle", "claim", "write", "publish", "rollback"},
                  event: Events \cup {NoEvent}]

ResumeInit ==
    /\ sweeper = IdleSweep
    /\ delivery = [d \in Deliveries |-> IdleDelivery]
-----------------------------------------------------------------------------
(***************************************************************************)
(* The claim every waker makes, and its rollback: conditional UPDATEs of   *)
(* the execution row on its status alone.                                  *)
(***************************************************************************)
\* Mutant of ClaimWaiting: the claim does not look at the status.
ClaimAlways == exec' = [exec EXCEPT !.status = "pending"]

ClaimWaiting ==
    /\ exec.status = "waiting"
    /\ exec' = [exec EXCEPT !.status = "pending"]

\* Mutant of RollbackClaim: a failed publish leaves the claim in place.
RollbackNothing == UNCHANGED exec

RollbackClaim ==
    exec' = IF exec.status = "pending" THEN [exec EXCEPT !.status = "waiting"] ELSE exec
-----------------------------------------------------------------------------
(***************************************************************************)
(* ResumeSweeper::resumeDueDelays.                                         *)
(***************************************************************************)
SelectDue ==
    /\ sweeper.pc = "idle"
    /\ \E p \in WaitingRows : rows[p[1]][p[2]].due
    /\ sweeper' = [sweeper EXCEPT !.pc = "claim"]
    /\ UNCHANGED <<storeVars, executorVars, delivery>>

ClaimDue ==
    /\ sweeper.pc = "claim"
    /\ \/ ClaimWaiting /\ sweeper' = [sweeper EXCEPT !.pc = "publish"]
       \/ exec.status # "waiting" /\ sweeper' = IdleSweep /\ UNCHANGED exec
    /\ UNCHANGED <<snapshotOk, rows, task, queue, faults, executorVars, delivery>>

\* Mutant of PublishDue: the publish that reports an error got through.
PublishDueBehindAnError ==
    /\ sweeper.pc = "publish"
    /\ Publish("resume")
    /\ \/ sweeper' = IdleSweep /\ UNCHANGED faults
       \/ Fault("publish") /\ sweeper' = [sweeper EXCEPT !.pc = "rollback"]
    /\ UNCHANGED <<exec, snapshotOk, rows, task, executorVars, delivery>>

PublishDue ==
    /\ sweeper.pc = "publish"
    /\ \/ /\ Publish("resume")
          /\ sweeper' = IdleSweep
          /\ UNCHANGED faults
       \/ /\ Fault("publish")
          /\ sweeper' = [sweeper EXCEPT !.pc = "rollback"]
          /\ UNCHANGED queue
    /\ UNCHANGED <<exec, snapshotOk, rows, task, executorVars, delivery>>

RollbackDue ==
    /\ sweeper.pc = "rollback"
    /\ RollbackClaim
    /\ sweeper' = IdleSweep
    /\ UNCHANGED <<snapshotOk, rows, task, queue, faults, executorVars, delivery>>

(***************************************************************************)
(* ResumeSweeper::recoverZombies: re-claims the row, then publishes the    *)
(* execution again; a publish that fails is only logged.                   *)
(***************************************************************************)
IsZombie(p) == rows[p[1]][p[2]].status = "running" /\ rows[p[1]][p[2]].stale

SelectZombie ==
    /\ sweeper.pc = "idle"
    /\ \E p \in Steps \X Slots :
          /\ IsZombie(p)
          /\ sweeper' = [pc |-> "reclaim", row |-> p]
    /\ UNCHANGED <<storeVars, executorVars, delivery>>

\* Mutant of ReclaimZombie: the claim is not renewed, so the next sweep finds it again.
ReclaimWithoutRenewal ==
    /\ sweeper.pc = "reclaim"
    /\ IF IsZombie(sweeper.row) THEN sweeper' = [pc |-> "republish", row |-> NoRow]
       ELSE sweeper' = IdleSweep
    /\ UNCHANGED <<storeVars, executorVars, delivery>>

ReclaimZombie ==
    /\ sweeper.pc = "reclaim"
    /\ LET p == sweeper.row
       IN  \/ /\ IsZombie(p)
              /\ rows' = [rows EXCEPT ![p[1]][p[2]].stale = FALSE]
              /\ sweeper' = [pc |-> "republish", row |-> NoRow]
           \/ ~IsZombie(p) /\ sweeper' = IdleSweep /\ UNCHANGED rows
    /\ UNCHANGED <<exec, snapshotOk, task, queue, faults, executorVars, delivery>>

\* Mutant of RepublishZombie: the row is claimed anew and nothing is published.
RepublishNothing ==
    /\ sweeper.pc = "republish"
    /\ sweeper' = IdleSweep
    /\ UNCHANGED <<storeVars, executorVars, delivery>>

RepublishZombie ==
    /\ sweeper.pc = "republish"
    /\ \/ Publish("execute") /\ UNCHANGED faults
       \/ Fault("publish") /\ UNCHANGED queue
    /\ sweeper' = IdleSweep
    /\ UNCHANGED <<exec, snapshotOk, rows, task, executorVars, delivery>>

SweeperStep ==
    \/ SelectDue \/ ClaimDue \/ PublishDue \/ RollbackDue
    \/ SelectZombie \/ ReclaimZombie \/ RepublishZombie
-----------------------------------------------------------------------------
(***************************************************************************)
(* Dispatcher::resumeWaiting for one event of the execution's entity.      *)
(***************************************************************************)
SelectParkedOn(d) ==
    /\ delivery[d].pc = "idle"
    /\ exec.status = "waiting"
    /\ exec.event # NoEvent
    /\ delivery' = [delivery EXCEPT ![d] = [pc |-> "claim", event |-> exec.event]]
    /\ UNCHANGED <<storeVars, executorVars, sweeper>>

ClaimForEvent(d) ==
    /\ delivery[d].pc = "claim"
    /\ \/ ClaimWaiting /\ delivery' = [delivery EXCEPT ![d].pc = "write"]
       \/ /\ exec.status # "waiting"
          /\ delivery' = [delivery EXCEPT ![d] = IdleDelivery]
          /\ UNCHANGED exec
    /\ UNCHANGED <<snapshotOk, rows, task, queue, faults, executorVars, sweeper>>

\* The payload goes into every row of the execution that waits.
WriteResolution(d) ==
    /\ delivery[d].pc = "write"
    /\ rows' = [s \in Steps |-> [i \in Slots |->
                  IF rows[s][i].status = "waiting"
                  THEN [rows[s][i] EXCEPT !.result = "event"] ELSE rows[s][i]]]
    /\ delivery' = [delivery EXCEPT ![d].pc = "publish"]
    /\ UNCHANGED <<exec, snapshotOk, task, queue, faults, executorVars, sweeper>>

PublishEvent(d) ==
    /\ delivery[d].pc = "publish"
    /\ \/ /\ Publish("resume")
          /\ delivery' = [delivery EXCEPT ![d] = IdleDelivery]
          /\ UNCHANGED faults
       \/ /\ Fault("publish")
          /\ delivery' = [delivery EXCEPT ![d].pc = "rollback"]
          /\ UNCHANGED queue
    /\ UNCHANGED <<exec, snapshotOk, rows, task, executorVars, sweeper>>

\* The row keeps the payload: only the claim is undone.
RollbackEvent(d) ==
    /\ delivery[d].pc = "rollback"
    /\ RollbackClaim
    /\ delivery' = [delivery EXCEPT ![d] = IdleDelivery]
    /\ UNCHANGED <<snapshotOk, rows, task, queue, faults, executorVars, sweeper>>

DeliveryStep(d) ==
    \/ SelectParkedOn(d) \/ ClaimForEvent(d) \/ WriteResolution(d)
    \/ PublishEvent(d) \/ RollbackEvent(d)
-----------------------------------------------------------------------------
(***************************************************************************)
(* ResumeConsumer::process.  Only a terminal status turns the message away.*)
(***************************************************************************)
DropResume(c) ==
    /\ At(c, "resume_load")
    /\ exec.status \in Terminal
    /\ Goto(c, "ack")
    /\ UNCHANGED <<storeVars, effects, resumeVars>>

\* Mutant of LoadParked: a resume message revives an execution that is over.
LoadWhateverStatus(c) ==
    /\ At(c, "resume_load")
    /\ LoadAs(c, exec, "fetch")
    /\ UNCHANGED <<storeVars, effects, resumeVars>>

LoadParked(c) ==
    /\ At(c, "resume_load")
    /\ exec.status \notin Terminal
    /\ LoadAs(c, exec, "fetch")
    /\ UNCHANGED <<storeVars, effects, resumeVars>>

FetchParked(c) ==
    /\ At(c, "fetch")
    /\ \/ /\ WaitingRows = {}
          /\ worker' = [worker EXCEPT ![c].parked = NoParked, ![c].pc = "close"]
       \/ \E p \in WaitingRows :
             worker' = [worker EXCEPT ![c].pc = "close",
                           ![c].parked = [step |-> p[1], result |-> rows[p[1]][p[2]].result]]
    /\ UNCHANGED <<storeVars, effects, resumeVars>>

IsGate(s) == s # NoStep /\ StepType[s] = "approval"

Verdicts == {"approved", "rejected"}

\* Mutant of ResumeEdge: a rejection is taken for no decision.
ResumeEdgeWithoutRejection(parked) ==
    CASE IsGate(parked.step) /\ parked.result = "approved" -> "on_approved"
      [] ~IsGate(parked.step) /\ parked.result = "event"   -> "on_event"
      [] OTHER                                             -> "on_timeout"

\* The edge a resumed wait or gate takes, from the result its row carried.
ResumeEdge(parked) ==
    CASE IsGate(parked.step) /\ parked.result = "approved" -> "on_approved"
      [] IsGate(parked.step) /\ parked.result = "rejected" -> "on_rejected"
      [] ~IsGate(parked.step) /\ parked.result = "event"   -> "on_event"
      [] OTHER                                             -> "on_timeout"

\* routeParkedStep: a delay needs no routing, current_step is past it already.
Routed(parked, m) ==
    IF parked.step = NoStep \/ StepType[parked.step] \notin {"wait", "approval"} THEN m
    ELSE [m EXCEPT !.current = Edge[parked.step][ResumeEdge(parked)], !.event = NoEvent]

\* Mutant of CloseParkedRows: the execution is routed, its row goes on waiting.
RouteWithoutClosing(c) ==
    /\ At(c, "close")
    /\ worker' = [worker EXCEPT ![c].mem = Routed(worker[c].parked, @),
                                ![c].pc = "mark_running"]
    /\ UNCHANGED <<storeVars, effects, resumeVars>>

\* Every waiting row of the execution is closed, the parked one or not.
CloseParkedRows(c) ==
    /\ At(c, "close")
    /\ rows' = [s \in Steps |-> [i \in Slots |->
                  IF rows[s][i].status = "waiting"
                  THEN [rows[s][i] EXCEPT !.status = "complete"] ELSE rows[s][i]]]
    /\ LET parked == worker[c].parked
       IN  worker' = [worker EXCEPT
             ![c].mem = Routed(parked, @),
             ![c].pc = IF /\ ApprovalsInstalled
                          /\ IsGate(parked.step)
                          /\ parked.result \notin Verdicts
                       THEN "expire" ELSE "mark_running"]
    /\ UNCHANGED <<exec, snapshotOk, task, queue, faults, effects, resumeVars>>

\* Best effort: an error of the task manager is logged and swallowed.
ExpireGate(c) ==
    /\ At(c, "expire")
    /\ \/ ExpireTask(worker[c].parked.step) /\ UNCHANGED faults
       \/ Fault("seam") /\ UNCHANGED task
    /\ Goto(c, "mark_running")
    /\ UNCHANGED <<exec, snapshotOk, rows, queue, effects, resumeVars>>

\* The save that makes the routing durable; Executor::execute follows.
MarkRunning(c) ==
    /\ At(c, "mark_running")
    /\ SaveAs(c, [worker[c].mem EXCEPT !.status = "running"], "load")
    /\ UNCHANGED <<snapshotOk, rows, task, queue, faults, effects, resumeVars>>

ResumeStep(c) ==
    \/ DropResume(c) \/ LoadParked(c) \/ FetchParked(c) \/ CloseParkedRows(c)
    \/ ExpireGate(c) \/ MarkRunning(c)

ResumeTypeOK ==
    /\ sweeper \in SweeperState
    /\ delivery \in [Deliveries -> DeliveryState]
=============================================================================
