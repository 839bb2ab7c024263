--------------------------- MODULE ExecutionStore ---------------------------
(***************************************************************************)
(* What the engine's processes share: one row of mageos_workflow_execution *)
(* with its step rows and approval tasks, and the two queue topics.  Every *)
(* operator below that primes a variable is one database statement.        *)
(***************************************************************************)
EXTENDS WorkflowDefinition, Naturals

CONSTANTS
    Consumers,   \* queue consumer processes (execute and resume topics)
    MaxRows,     \* bound: rows of one step; racing inserts leave one per consumer
    FaultKinds,  \* the faults that may occur in this instance
    MaxFaults    \* bound: how many of them in one behaviour

VARIABLES
    exec,        \* the execution row: status, current_step, waiting_event
    snapshotOk,  \* whether definition_snapshot parses; never changes
    rows,        \* rows[s][i]: the i-th step row inserted for s
    task,        \* task[s]: status of the approval task of (execution, s)
    queue,       \* number of messages waiting on each topic
    faults       \* faults that occurred so far

storeVars == <<exec, snapshotOk, rows, task, queue, faults>>

Slots == 1..MaxRows

AllFaultKinds ==
    {"retry",            \* an action reports a retryable failure or throws
     "publish",          \* publishing to the queue throws
     "seam",             \* the approval task manager throws
     "consumer_crash",   \* a consumer dies; the message is delivered again
     "lost_ack",         \* ... after its last write, before the acknowledgement
     "lost_message",     \* a consumer dies and its message is gone
     "waker_crash",      \* a sweep, event delivery or decision dies half way
     "claim_ages",       \* a claim of an execution nobody works on gets 30 min old
     "slow_claim"}       \* a claim gets 30 min old while its consumer works on

ASSUME StoreAssumption ==
    /\ MaxRows \in Nat \ {0}
    /\ FaultKinds \subseteq AllFaultKinds
    /\ MaxFaults \in Nat

Topics == {"execute", "resume"}

Terminal == {"complete", "cancelled", "failed", "skipped"}

Statuses == {"pending", "running", "waiting"} \cup Terminal

ExecRow == [status: Statuses, current: Targets, event: Events \cup {NoEvent}]

RowStatuses == {"absent", "pending", "running", "waiting", "complete", "failed"}

Resolutions == {"event", "approved", "rejected"}

NoResult == "none"

StepRow == [status: RowStatuses,
            result: Resolutions \cup {NoResult, "output"},
            due: BOOLEAN,     \* resume_at has passed
            stale: BOOLEAN]   \* claimed_at is more than 30 minutes old

AbsentRow == [status |-> "absent", result |-> NoResult, due |-> FALSE, stale |-> FALSE]

TaskStatuses == {"none", "open", "approved", "rejected", "expired", "orphaned"}

(***************************************************************************)
(* Dispatcher::dispatch has saved the execution and published it.          *)
(***************************************************************************)
StoreInit ==
    /\ exec = [status |-> "pending", current |-> NoStep, event |-> NoEvent]
    /\ snapshotOk \in BOOLEAN
    /\ rows = [s \in Steps |-> [i \in Slots |-> AbsentRow]]
    /\ task = [s \in Steps |-> "none"]
    /\ queue = [execute |-> 1, resume |-> 0]
    /\ faults = 0

(***************************************************************************)
(* Magento's resource model writes the fields that differ from what it     *)
(* read or wrote last (snap), and leaves the other columns alone.          *)
(***************************************************************************)
DirtyFields(row, snap, mem) ==
    [status  |-> IF mem.status # snap.status THEN mem.status ELSE row.status,
     current |-> IF mem.current # snap.current THEN mem.current ELSE row.current,
     event   |-> IF mem.event # snap.event THEN mem.event ELSE row.event]

RowsOf(s) == {i \in Slots : rows[s][i].status # "absent"}

WaitingRows == {p \in Steps \X Slots : rows[p[1]][p[2]].status = "waiting"}

\* The UPDATE of Executor::upsertStepRow once its SELECT ... LIMIT 1 has found a row.
SetStepRow(s, status, result) ==
    \E i \in RowsOf(s) :
        rows' = [rows EXCEPT ![s][i].status = status, ![s][i].result = result]

Publish(topic) == queue' = [queue EXCEPT ![topic] = @ + 1]

Fault(kind) ==
    /\ kind \in FaultKinds
    /\ faults < MaxFaults
    /\ faults' = faults + 1

(***************************************************************************)
(* ApprovalTaskManager: unique on (execution_id, step_key); every status   *)
(* change is guarded on the open status.                                   *)
(***************************************************************************)
CreateTask(s) == task' = [task EXCEPT ![s] = IF @ = "none" THEN "open" ELSE @]

ExpireTask(s) == task' = [task EXCEPT ![s] = IF @ = "open" THEN "expired" ELSE @]

OrphanTasks == task' = [s \in Steps |-> IF task[s] = "open" THEN "orphaned" ELSE task[s]]

StoreTypeOK ==
    /\ exec \in ExecRow
    /\ snapshotOk \in BOOLEAN
    /\ rows \in [Steps -> [Slots -> StepRow]]
    /\ task \in [Steps -> TaskStatuses]
    /\ queue \in [Topics -> Nat]
    /\ faults \in Nat
=============================================================================
