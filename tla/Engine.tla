------------------------------- MODULE Engine -------------------------------
(***************************************************************************)
(* The execution engine: queue consumers, the sweeper, event deliveries,   *)
(* deciders and the reconciliation of approval tasks around one execution, *)
(* with the faults they are written to survive.                            *)
(***************************************************************************)
EXTENDS Approvals

vars == <<storeVars, executorVars, resumeVars, approvalVars>>

wakerVars == <<resumeVars, approvalVars>>

Init == StoreInit /\ ExecutorInit /\ ResumeInit /\ ApprovalInit

\* Consumer c holds a message it has not finished with.
Walking(c) == worker[c].pc \notin {"idle", "ack"}

Idle == queue["execute"] + queue["resume"] = 0 /\ \A c \in Consumers : ~Walking(c)
-----------------------------------------------------------------------------
(***************************************************************************)
(* Faults.  A consumer that dies gives its message back to the queue; with *)
(* "lost_message" it does not, with "lost_ack" it had finished already.    *)
(***************************************************************************)
ConsumerCrash(c) ==
    /\ Walking(c)
    /\ Fault("consumer_crash")
    /\ Publish(worker[c].topic)
    /\ worker' = [worker EXCEPT ![c] = IdleWorker]
    /\ UNCHANGED <<exec, snapshotOk, rows, task, effects, wakerVars>>

LostAck(c) ==
    /\ At(c, "ack")
    /\ Fault("lost_ack")
    /\ Publish(worker[c].topic)
    /\ worker' = [worker EXCEPT ![c] = IdleWorker]
    /\ UNCHANGED <<exec, snapshotOk, rows, task, effects, wakerVars>>

LostMessage(c) ==
    /\ Walking(c)
    /\ Fault("lost_message")
    /\ worker' = [worker EXCEPT ![c] = IdleWorker]
    /\ UNCHANGED <<exec, snapshotOk, rows, task, queue, effects, wakerVars>>

\* A cron run, an observer or a decide request dies; its memory is all it loses.
SweeperCrash ==
    /\ sweeper.pc # "idle"
    /\ sweeper' = IdleSweep
    /\ UNCHANGED <<delivery, approvalVars>>

DeliveryCrash(d) ==
    /\ delivery[d].pc # "idle"
    /\ delivery' = [delivery EXCEPT ![d] = IdleDelivery]
    /\ UNCHANGED <<sweeper, approvalVars>>

ApproverCrash(a) ==
    /\ approver[a].pc # "idle"
    /\ ApproverDone(a)
    /\ UNCHANGED <<resumeVars, reconciler>>

ReconcilerCrash ==
    /\ reconciler.pc # "idle"
    /\ reconciler' = IdleReconciler
    /\ UNCHANGED <<resumeVars, approver>>

WakerCrash ==
    /\ Fault("waker_crash")
    /\ \/ SweeperCrash
       \/ \E d \in Deliveries : DeliveryCrash(d)
       \/ \E a \in Approvers : ApproverCrash(a)
       \/ ReconcilerCrash
    /\ UNCHANGED <<exec, snapshotOk, rows, task, queue, executorVars>>
-----------------------------------------------------------------------------
(***************************************************************************)
(* Time: a timeout falls due; the claim of a running step gets old.        *)
(***************************************************************************)
TimeoutDue(s, i) ==
    /\ rows[s][i].status = "waiting"
    /\ ~rows[s][i].due
    /\ rows' = [rows EXCEPT ![s][i].due = TRUE]
    /\ UNCHANGED <<exec, snapshotOk, task, queue, faults, executorVars, wakerVars>>

ClaimAges(s, i) ==
    /\ rows[s][i].status = "running"
    /\ ~rows[s][i].stale
    /\ \/ /\ "claim_ages" \in FaultKinds
          /\ Idle /\ sweeper.pc # "republish"
          /\ UNCHANGED faults
       \/ Fault("slow_claim")
    /\ rows' = [rows EXCEPT ![s][i].stale = TRUE]
    /\ UNCHANGED <<exec, snapshotOk, task, queue, executorVars, wakerVars>>
-----------------------------------------------------------------------------
ConsumerStep(c) ==
    \/ (Receive(c) \/ ExecutorStep(c)) /\ UNCHANGED wakerVars
    \/ ResumeStep(c) /\ UNCHANGED approvalVars

Faults ==
    \/ \E c \in Consumers : ConsumerCrash(c) \/ LostAck(c) \/ LostMessage(c)
    \/ WakerCrash

Time == \E s \in Steps, i \in Slots : TimeoutDue(s, i) \/ ClaimAges(s, i)

\* The only state in which the engine may come to rest.
Finished ==
    /\ exec.status \in Terminal
    /\ Idle
    /\ UNCHANGED vars

Next ==
    \/ \E c \in Consumers : ConsumerStep(c)
    \/ SweeperStep /\ UNCHANGED approvalVars
    \/ \E d \in Deliveries : DeliveryStep(d) /\ UNCHANGED approvalVars
    \/ \E a \in Approvers : ApproverStep(a)
    \/ ReconcilerStep
    \/ Faults
    \/ Time
    \/ Finished

Spec == Init /\ [][Next]_vars

(***************************************************************************)
(* Fairness.  Consumers are kept running and drain their queue; the cron   *)
(* runs the sweep and the reconciliation again and again; a started event  *)
(* delivery or decision goes on; time passes.  Nobody has to deliver an    *)
(* event or to decide, and no fault has to happen.                         *)
(***************************************************************************)
Fairness ==
    /\ \A c \in Consumers : WF_vars(ConsumerStep(c))
    /\ WF_vars(SweeperStep /\ UNCHANGED approvalVars)
    /\ \A d \in Deliveries :
          WF_vars(delivery[d].pc # "idle" /\ DeliveryStep(d) /\ UNCHANGED approvalVars)
    /\ \A a \in Approvers : WF_vars(~ApproverAt(a, "idle") /\ ApproverStep(a))
    /\ WF_vars(ReconcilerStep)
    /\ WF_vars(Time)

FairSpec == Spec /\ Fairness
-----------------------------------------------------------------------------
\* Every variable, the counters and the copies of the row included, has its type.
TypeOK == StoreTypeOK /\ ExecutorTypeOK /\ ResumeTypeOK /\ ApprovalTypeOK

(***************************************************************************)
(* Who may act on the execution: one message, one consumer working on a    *)
(* message, or one waker between its claim and its publish.                *)
(***************************************************************************)
Messages == queue["execute"] + queue["resume"]

SweepHolds == sweeper.pc \in {"publish", "rollback"}
DeliveryHolds(d) == delivery[d].pc \in {"write", "publish", "rollback"}
ApproverHolds(a) == approver[a].pc \in {"write", "publish", "clear", "unpark"}

ClaimHeld ==
    \/ SweepHolds
    \/ \E d \in Deliveries : DeliveryHolds(d)
    \/ \E a \in Approvers : ApproverHolds(a)

OneMessage ==
    /\ Messages <= 1
    /\ Messages = 1 => \A c \in Consumers : ~Walking(c)

OneWalker == \A c, k \in Consumers : Walking(c) /\ Walking(k) => c = k

OneClaim ==
    /\ SweepHolds => /\ \A d \in Deliveries : ~DeliveryHolds(d)
                     /\ \A a \in Approvers : ~ApproverHolds(a)
    /\ \A d \in Deliveries : DeliveryHolds(d) =>
          /\ \A e \in Deliveries : DeliveryHolds(e) => d = e
          /\ \A a \in Approvers : ~ApproverHolds(a)
    /\ \A a, b \in Approvers : ApproverHolds(a) /\ ApproverHolds(b) => a = b

ClaimIsExclusive == ClaimHeld => exec.status = "pending" /\ Idle

ParkIsUnowned == exec.status = "waiting" => Idle /\ ~ClaimHeld

\* At any time at most one of the messages, the consumers and the wakers
\* acts on the execution, and none of them while it is parked.
SingleToken == OneMessage /\ OneWalker /\ OneClaim /\ ClaimIsExclusive /\ ParkIsUnowned

\* An execution that is neither over nor parked is somebody's business: a
\* message, a consumer or a waker will carry it on.
NeverAbandoned == exec.status \in {"pending", "running"} => ~Idle \/ ClaimHeld

\* The copy of the execution row a consumer works on is the row, so that no
\* save of the whole model undoes another process's statement.
WalkerViewIsFresh ==
    \A c \in Consumers :
        Walking(c) /\ worker[c].pc \notin {"load", "resume_load"} => worker[c].snap = exec

\* A parked execution has exactly one waiting row, and it is the row of the
\* step that current_step and waiting_event say it is parked for.
ParkedWhereItWaits ==
    exec.status = "waiting" =>
        \E p \in WaitingRows :
            /\ WaitingRows = {p}
            /\ CASE StepType[p[1]] = "delay" -> /\ exec.current = Edge[p[1]]["next"]
                                                /\ exec.event = NoEvent
                 [] StepType[p[1]] = "wait"  -> /\ exec.current = p[1]
                                                /\ exec.event = EventOf[p[1]]
                 [] OTHER                    -> /\ exec.current = p[1]
                                                /\ exec.event = NoEvent

\* The step table has no unique key, yet a step has one row at most.
OneRowPerStep == \A s \in Steps : RowsOf(s) \subseteq {1}

\* A step's action succeeds once, and once more for each redelivery at most.
EffectsPerDelivery == \A s \in Steps : effects[s] <= 1 + faults

\* A completed execution leaves no step unfinished, and every action it
\* passed took effect.
CompletionIsClean ==
    exec.status = "complete" =>
        \A s \in Steps : \A i \in RowsOf(s) :
            /\ rows[s][i].status = "complete"
            /\ StepType[s] = "action" => effects[s] > 0

\* An execution parked on a gate can be decided: its task is open, or a
\* decision is under way that reopens it or resumes the execution.
GateIsDecidable ==
    exec.status = "waiting" /\ IsGate(exec.current) /\ exec.current \in {p[1] : p \in WaitingRows}
        => \/ task[exec.current] = "open"
           \/ \E a \in Approvers : approver[a].gate = exec.current

\* A task that is approved or rejected and nobody is still deciding.
Decided(s) ==
    /\ task[s] \in Verdicts
    /\ \A a \in Approvers : approver[a].gate = s => ApproverAt(a, "idle")

\* Once a terminal status is saved no process changes the row again.
TerminalIsFinal == [][exec.status \in Terminal => UNCHANGED exec]_vars

\* An execution leaves a gate by the edge of the decision that was accepted,
\* and by on_timeout if none was.
GateFollowsDecision ==
    [][\A s \in Steps :
          /\ IsGate(s)
          /\ exec.current = s /\ exec'.current # s
          => exec'.current = Edge[s][CASE Decided(s) /\ task[s] = "approved" -> "on_approved"
                                       [] Decided(s) /\ task[s] = "rejected" -> "on_rejected"
                                       [] OTHER -> "on_timeout"]]_vars

\* The execution row read as the abstract run: a pending row is new until a
\* step has left its row, and claimed by a waker after that.
RunPhase ==
    CASE exec.status = "running" -> "active"
      [] exec.status = "waiting" -> "parked"
      [] exec.status = "pending" -> IF \A s \in Steps : RowsOf(s) = {} THEN "new" ELSE "woken"
      [] OTHER                   -> exec.status

Run == INSTANCE WorkflowRun WITH phase <- RunPhase, at <- exec.current

\* The engine implements the promise made to whoever watches the execution row.
ImplementsRun == Run!RunSpec

\* A park ends on behalf of a waker that has claimed the execution.
ParkEndsByClaim ==
    [][\A p \in WaitingRows :
          rows'[p[1]][p[2]].status = "complete" => exec.status = "pending"]_vars

\* A park ends when its own timeout is due or a resolution of its own kind
\* has been written into its row.
ParkEndsForCause ==
    [][\A p \in WaitingRows :
          rows'[p[1]][p[2]].status = "complete" =>
              LET row == rows[p[1]][p[2]]
              IN  \/ row.due
                  \/ StepType[p[1]] = "wait" /\ row.result = "event"
                  \/ IsGate(p[1]) /\ row.result \in Verdicts]_vars

\* A claimed execution is taken up by the resume consumer, which closes its
\* waiting rows first: an execute message neither walks nor skips it.
OnlyResumeWakes ==
    [][exec.status = "pending" /\ WaitingRows # {} => exec'.status \in {"pending", "waiting"}]_vars

\* Every execution comes to an end.
EventuallyTerminal == <>(exec.status \in Terminal)

\* A consumer lets go of every message, whatever the definition makes it walk.
WalksEnd == \A c \in Consumers : Walking(c) ~> ~Walking(c)

\* A step claimed by a consumer that vanished with its message is taken up
\* again: no step row stays running for ever.
ClaimsAreReleased ==
    \A s \in Steps : \A i \in Slots :
        rows[s][i].status = "running" ~> rows[s][i].status # "running"

\* No approval task stays open for ever, unless somebody keeps deciding it.
TasksAreClosed ==
    <>[](\A a \in Approvers : ApproverAt(a, "idle")) => <>[](OpenTasks = {})
=============================================================================
